--------------------------- MODULE StartupProofs ---------------------------
(***************************************************************************)
(* A node with its configuration: for every file, every schedule and an    *)
(* interrupt at any time.                                                  *)
(***************************************************************************)
EXTENDS Startup, SequenceTheorems, TLAPS

-----------------------------------------------------------------------------
(* The order in which main stops the parts of a node, for every schedule   *)
(* of its goroutines and an interrupt at any time.                         *)

\* The stops that main defers, in the order in which it does.
Order == [i \in 1 .. 4 |-> CASE i = 1 -> "store" [] i = 2 -> "spv" [] i = 3 -> "server" [] i = 4 -> "rpc"]

n == Len(defers)

Halting == {"stopping", "returned"}

DefersOK ==
  /\ defers \in Seq(Parts) /\ n \in 0 .. 4
  /\ \A i \in 1 .. n : defers[i] = Order[i]

\* How many stops are deferred when main comes to a step.
DepthOK ==
  /\ step \in {"interrupts", "store"} => n = 0
  /\ step \in {"address", "spv"} => n = 1
  /\ step \in {"chain", "server"} => n = 2
  /\ step \in {"miner", "rpc"} => n = 3
  /\ step \in {"printer", "wait"} => n >= 3
  /\ step = "returned" => n = 0

(***************************************************************************)
(* The inductive invariant.  Of the parts that main stops itself exactly   *)
(* those run whose stop is deferred, so a part never outlives what it      *)
(* uses; an RPC server that is not abandoned runs only while its own stop  *)
(* is deferred, which is before all the others.                            *)
(***************************************************************************)
LifeInv ==
  /\ DefersOK /\ DepthOK
  /\ "store" \in up <=> n >= 1
  /\ "spv" \in up <=> n >= 2
  /\ "server" \in up <=> n >= 3
  /\ up \cap Goroutines # {} \/ pending # {} => n >= 3 \/ step \in Halting
  /\ "rpc" \in up \cup pending => n = 4 \/ "rpc" \in unstopped
  /\ "rpc" \notin up \cap pending
  /\ up \subseteq Parts /\ pending \subseteq Goroutines
  /\ unstopped # {} => step \in Halting
  /\ signalled => interrupted
  /\ step \in Halting => interrupted
  /\ LateUsersAbandoned

\* A part that started is the next whose stop is deferred.
LEMMA StartKeeps ==
  ASSUME LifeInv, OpenStore \/ StartSpv \/ StartServer
  PROVE  LifeInv'
  <1>1. PICK p \in {"store", "spv", "server"} : StartPart(p) /\ p = Order[n + 1] /\ n <= 2
    BY DEF OpenStore, StartSpv, StartServer, At, LifeInv, DepthOK, Order
  <1>2. defers' \in Seq(Parts) /\ n' = n + 1 /\ defers'[n + 1] = p
        /\ \A i \in 1 .. n : defers'[i] = defers[i]
    BY <1>1 DEF StartPart, LifeInv, DefersOK, Parts, n
  <1>3. n \in Nat
    BY DEF LifeInv, DefersOK, n
  <1>4. DefersOK'
    BY <1>1, <1>2, <1>3 DEF DefersOK, LifeInv
  <1>5. DepthOK'
    BY <1>2, <1>3 DEF DepthOK, LifeInv, OpenStore, StartSpv, StartServer, At
  <1>6. /\ ("store" \in up)' <=> n' >= 1
        /\ ("spv" \in up)' <=> n' >= 2
        /\ ("server" \in up)' <=> n' >= 3
    BY <1>1, <1>2, <1>3 DEF LifeInv, StartPart, Order
  <1>7. step \notin Halting /\ step' \notin Halting /\ up' \subseteq Parts
    BY <1>1 DEF OpenStore, StartSpv, StartServer, At, Halting, LifeInv, StartPart, Parts
  <1>8. up \cap Goroutines = {} /\ pending = {} /\ up' \cap Goroutines = {}
    BY <1>1, <1>3, <1>7 DEF LifeInv, StartPart, Goroutines
  <1>9. unstopped = {} /\ late = {}
    BY <1>7 DEF LifeInv, LateUsersAbandoned, Halting
  <1> QED
    BY <1>1, <1>4, <1>5, <1>6, <1>7, <1>8, <1>9
       DEF LifeInv, StartPart, LateUsersAbandoned, Goroutines

\* The RPC server, if it is enabled, is the last whose stop is deferred.
LEMMA GoRPCKeeps ==
  ASSUME LifeInv, GoRPC
  PROVE  LifeInv'
  <1>1. n = 3 /\ "rpc" \notin up \cup pending /\ unstopped = {} /\ late = {}
    BY DEF LifeInv, DepthOK, GoRPC, At, Halting, LateUsersAbandoned
  <1>2. CASE "rpc" \in enabled
    <2>1. /\ defers' \in Seq(Parts) /\ n' = 4 /\ defers'[4] = "rpc"
          /\ \A i \in 1 .. 3 : defers'[i] = defers[i]
      <3>1. defers' = Append(defers, "rpc") /\ defers \in Seq(Parts) /\ "rpc" \in Parts
        BY <1>2 DEF GoRPC, LifeInv, DefersOK, Parts, Goroutines
      <3>2. Len(defers) = 3
        BY <1>1 DEF n
      <3>3. /\ defers' \in Seq(Parts)
            /\ Len(defers') = Len(defers) + 1
            /\ defers'[Len(defers) + 1] = "rpc"
            /\ \A i \in 1 .. Len(defers) : defers'[i] = defers[i]
        BY <3>1, AppendProperties, Zenon
      <3> QED
        BY <3>2, <3>3 DEF n
    <2>2. DefersOK' /\ DepthOK'
      BY <1>1, <2>1 DEF DefersOK, DepthOK, LifeInv, GoRPC, At, Order
    <2>3. /\ UNCHANGED <<up, unstopped, late, signalled, interrupted>>
          /\ pending' \subseteq Goroutines
          /\ step \notin Halting /\ step' \notin Halting
      BY DEF LifeInv, GoRPC, Go, At, Goroutines, Halting
    <2>4. LateUsersAbandoned'
      BY <1>1, <2>3 DEF LateUsersAbandoned
    <2> QED
      BY <1>1, <2>1, <2>2, <2>3, <2>4 DEF LifeInv
  <1>3. CASE "rpc" \notin enabled
    <2>1. defers' = defers /\ n' = n
      BY <1>3 DEF GoRPC, n
    <2>2. DefersOK' /\ DepthOK'
      BY <1>1, <2>1 DEF DefersOK, DepthOK, LifeInv, GoRPC, At
    <2> QED
      BY <1>1, <1>3, <2>1, <2>2
         DEF LifeInv, GoRPC, Go, At, Goroutines, Halting, LateUsersAbandoned
  <1> QED
    BY <1>2, <1>3

\* The last deferred stop runs, and what uses the stopped part is stopped already.
LEMMA RunDeferredKeeps ==
  ASSUME LifeInv, RunDeferred
  PROVE  LifeInv'
  <1>1. n \in 1 .. 4 /\ defers \in Seq(Parts)
    <2>1. n \in 0 .. 4 /\ defers \in Seq(Parts) /\ defers # << >>
      BY DEF RunDeferred, LifeInv, DefersOK
    <2>2. Len(defers) # 0
      BY <2>1
    <2> QED
      BY <2>1, <2>2 DEF n
  <1>2. Last(defers) = Order[n]
    BY <1>1 DEF Last, LifeInv, DefersOK, n
  <1>3. /\ defers' \in Seq(Parts) /\ n' = n - 1
        /\ \A i \in 1 .. n - 1 : defers'[i] = defers[i]
    <2>1. defers' = SubSeq(defers, 1, n - 1)
      BY DEF RunDeferred, Front, n
    <2>2. \A i \in 1 .. n - 1 : defers[i] \in Parts
      BY <1>1 DEF n
    <2>3. /\ SubSeq(defers, 1, n - 1) \in Seq(Parts)
          /\ Len(SubSeq(defers, 1, n - 1)) = n - 1
          /\ \A i \in 1 .. n - 1 : SubSeq(defers, 1, n - 1)[i] = defers[i]
      BY <1>1, <2>2, SubSeqProperties
    <2> QED
      BY <2>1, <2>3 DEF n
  <1>4. DefersOK' /\ DepthOK'
    BY <1>1, <1>3 DEF DefersOK, DepthOK, LifeInv, RunDeferred
  <1>5. /\ ("store" \in up)' <=> n' >= 1
        /\ ("spv" \in up)' <=> n' >= 2
        /\ ("server" \in up)' <=> n' >= 3
    BY <1>1, <1>2, <1>3 DEF LifeInv, RunDeferred, Stop, Order
  <1>6. ("rpc" \in up \cup pending)' => "rpc" \in unstopped'
    BY <1>1, <1>2 DEF LifeInv, RunDeferred, Stop, Order
  <1>7. unstopped \subseteq unstopped' /\ up' \subseteq up
    BY DEF RunDeferred, Stop
  <1>8. LateUsersAbandoned'
    BY <1>7 DEF LifeInv, RunDeferred, LateUsersAbandoned, Abandoned
  <1> QED
    BY <1>4, <1>5, <1>6, <1>7, <1>8 DEF LifeInv, RunDeferred, Halting

\* Only an abandoned part finds another one down.
LEMMA UseKeeps ==
  ASSUME LifeInv, NEW p \in Parts, NEW q \in Parts, Use(p, q)
  PROVE  LifeInv'
  <1>1. n' = n /\ DefersOK' /\ DepthOK'
    BY DEF Use, n, DefersOK, DepthOK, LifeInv
  <1>2. ASSUME q \notin up
        PROVE  Abandoned(p) /\ step \in Halting
    <2>1. p \in up /\ q \in {"store", "spv", "server"} /\ p \notin {"store", "spv"} /\ q # p
      BY DEF Use, Uses, Parts, Goroutines
    <2>2. n \in 0 .. 4
      BY DEF LifeInv, DefersOK, n
    <2>3. n < 3
      BY <1>2, <2>1, <2>2 DEF LifeInv
    <2>4. p # "server"
      BY <2>1, <2>2, <2>3 DEF LifeInv
    <2>5. p \in Goroutines
      BY <2>1, <2>4 DEF Parts
    <2>6. p = "rpc" => "rpc" \in unstopped
      BY <2>1, <2>2, <2>3 DEF LifeInv
    <2> QED
      BY <2>1, <2>2, <2>3, <2>5, <2>6 DEF LifeInv, Abandoned, Goroutines
  <1>3. LateUsersAbandoned'
    BY <1>2 DEF Use, LifeInv, LateUsersAbandoned, Abandoned, Halting
  <1> QED
    BY <1>1, <1>3 DEF Use, LifeInv

\* The steps of main that start and stop nothing.
LEMMA OtherKeeps ==
  ASSUME LifeInv,
         NewInterrupt \/ GenesisAddress \/ NewChain \/ Fatal \/ Wait \/ Return \/ Interrupt
         \/ UNCHANGED lifeVars
  PROVE  LifeInv'
  <1>1. defers' = defers /\ up' = up /\ pending' = pending /\ unstopped' = unstopped
        /\ late' = late /\ n' = n /\ DefersOK'
    BY DEF NewInterrupt, GenesisAddress, NewChain, Fatal, Wait, Return, Interrupt, lifeVars,
           LifeInv, DefersOK, n
  <1>2. DepthOK'
    BY <1>1 DEF NewInterrupt, GenesisAddress, NewChain, Fatal, Wait, Return, Interrupt, lifeVars,
           LifeInv, DepthOK, At, n
  <1>3. step \in Halting => step' \in Halting
    BY DEF NewInterrupt, GenesisAddress, NewChain, Fatal, Wait, Return, Interrupt, lifeVars,
           At, Halting, Ended
  <1>4. (step \in Halting => interrupted)' /\ (signalled => interrupted)'
    BY DEF NewInterrupt, GenesisAddress, NewChain, Fatal, Wait, Return, Interrupt, lifeVars,
           At, Halting, Ended, LifeInv
  <1>5. LateUsersAbandoned'
    BY <1>1, <1>3 DEF LifeInv, LateUsersAbandoned, Abandoned, Halting
  <1> QED
    BY <1>1, <1>2, <1>3, <1>4, <1>5 DEF LifeInv

\* A goroutine that is launched runs later, and no stop is deferred for it.
LEMMA GoKeeps ==
  ASSUME LifeInv, GoMiner \/ GoPrinter
  PROVE  LifeInv'
  <1>1. /\ UNCHANGED <<defers, up, unstopped, late, signalled, interrupted>>
        /\ n' = n /\ n >= 3 /\ DefersOK'
        /\ step \notin Halting /\ step' \notin Halting
        /\ pending' \subseteq pending \cup {"miner", "printer"}
    <2>1. step \in {"miner", "printer"} /\ step' \in {"rpc", "wait"}
      BY DEF GoMiner, GoPrinter, At
    <2>2. UNCHANGED <<defers, up, unstopped, late, signalled, interrupted>>
      BY DEF GoMiner, GoPrinter
    <2>3. n' = n /\ n >= 3 /\ DefersOK'
      BY <2>1, <2>2 DEF LifeInv, DefersOK, DepthOK, n
    <2>4. pending' \subseteq pending \cup {"miner", "printer"}
      BY DEF GoMiner, GoPrinter, Go
    <2> QED
      BY <2>1, <2>2, <2>3, <2>4 DEF Halting
  <1>2. DepthOK'
    BY <1>1 DEF GoMiner, GoPrinter, LifeInv, DepthOK, At
  <1>3. late = {}
    BY <1>1 DEF LifeInv, LateUsersAbandoned, Halting
  <1> QED
    BY <1>1, <1>2, <1>3 DEF LifeInv, LateUsersAbandoned, Goroutines

\* A goroutine that runs was launched.
LEMMA RunKeeps ==
  ASSUME LifeInv, NEW g \in Goroutines, Run(g)
  PROVE  LifeInv'
  <1>1. n' = n /\ DefersOK' /\ DepthOK'
    BY DEF Run, n, DefersOK, DepthOK, LifeInv
  <1>2. LateUsersAbandoned'
    BY DEF Run, LifeInv, LateUsersAbandoned, Abandoned
  <1> QED
    BY <1>1, <1>2 DEF Run, LifeInv, Goroutines, Parts

\* At the start nothing runs and nothing is deferred.
LEMMA InitLifeInv ==
  ASSUME LifeInit
  PROVE  LifeInv
  BY DEF LifeInit, LifeInv, DefersOK, DepthOK, n, LateUsersAbandoned, Halting

\* Every step of the process keeps the invariant.
LEMMA LifeStep ==
  ASSUME LifeInv, [LifeNext]_lifeVars
  PROVE  LifeInv'
  BY StartKeeps, GoRPCKeeps, GoKeeps, RunDeferredKeeps, UseKeeps, RunKeeps, OtherKeeps
     DEF LifeNext, MainStep

\* A node that returns has stopped all that it can stop (main).
LEMMA LifeInvStopsAll ==
  ASSUME LifeInv
  PROVE  ReturnStopsAll
  BY DEF LifeInv, DepthOK, ReturnStopsAll, Abandoned, Halting, Parts, Goroutines

\* The invariant holds of every run of the node.
THEOREM LifeInvariant == LifeSpec => []LifeInv
  <1>1. LifeInit => LifeInv
    BY InitLifeInv
  <1>2. LifeInv /\ [LifeNext]_lifeVars => LifeInv'
    BY LifeStep
  <1> QED
    BY <1>1, <1>2, PTL DEF LifeSpec

\* The deferred stops protect every part that is not abandoned (main).
THEOREM NodeLateUsersAbandoned == LifeSpec => []LateUsersAbandoned
  BY LifeInvariant, PTL DEF LifeInv

\* A node that returns has stopped all that it can stop (main).
THEOREM NodeReturnStopsAll == LifeSpec => []ReturnStopsAll
  <1>1. LifeInv => ReturnStopsAll
    BY LifeInvStopsAll
  <1> QED
    BY <1>1, LifeInvariant, PTL

-----------------------------------------------------------------------------
(* A node with its configuration.                                          *)

\* A node with its configuration takes the steps of a node.
LEMMA StartupStep ==
  ASSUME [StartupNext]_startupVars
  PROVE  [LifeNext]_lifeVars
  BY DEF StartupNext, startupVars, LoadConfig, LifeNext

\* What the file says decides which parts are enabled, and nothing else.
LEMMA StartupInitLife ==
  ASSUME StartupInit
  PROVE  LifeInit
  BY DEF StartupInit, LifeInit

\* Whatever the file enables, a run of main is one of Lifecycle (main).
THEOREM StartupImplementsLife == StartupSpec => LifeInit /\ [][LifeNext]_lifeVars
  <1>1. StartupInit => LifeInit
    BY StartupInitLife
  <1>2. [StartupNext]_startupVars => [LifeNext]_lifeVars
    BY StartupStep
  <1> QED
    BY <1>1, <1>2, PTL DEF StartupSpec

\* The invariant of a node holds whatever its file is.
THEOREM StartupLifeInvariant == StartupSpec => []LifeInv
  <1>1. LifeInit => LifeInv
    BY InitLifeInv
  <1>2. LifeInv /\ [LifeNext]_lifeVars => LifeInv'
    BY LifeStep
  <1> QED
    BY <1>1, <1>2, StartupImplementsLife, PTL

\* The deferred stops protect every part that is not abandoned (main).
THEOREM StartupLateUsersAbandoned == StartupSpec => []LateUsersAbandoned
  BY StartupLifeInvariant, PTL DEF LifeInv

\* A node that returns has stopped all that it can stop (main).
THEOREM StartupReturnStopsAll == StartupSpec => []ReturnStopsAll
  <1>1. LifeInv => ReturnStopsAll
    BY LifeInvStopsAll
  <1> QED
    BY <1>1, StartupLifeInvariant, PTL

-----------------------------------------------------------------------------
(* The configuration.                                                      *)

\* The fields of the parameters of a network.
ParamFields ==
  {"Magic", "DefaultPort", "DNSSeeds", "Foundation", "ExchangeRate", "MinCrossChainTxFee",
   "DisableTxFilters", "CheckPowHeaderHeight", "PowLimitBits", "SecondsPerBlock"}

Usable(p) ==
  /\ DOMAIN p = ParamFields
  /\ p.ExchangeRate > 0 /\ p.MinCrossChainTxFee > 0 /\ p.DefaultPort > 0

\* The parameters of each network can be used as they are.
LEMMA NetParamsUsable ==
  ASSUME NEW net \in Nets
  PROVE  Usable(NetParams[net])
  <1>1. Usable(MainNetParams)
    BY DEF Usable, ParamFields, MainNetParams
  <1>2. Usable(testNetParams(MainNetParams)) /\ Usable(regNetParams(MainNetParams))
    BY DEF Usable, ParamFields, MainNetParams, testNetParams, regNetParams
  <1> QED
    BY <1>1, <1>2 DEF NetParams, Nets

\* Every name selects a network, a misspelled one too.
LEMMA NetOfType ==
  ASSUME NEW name
  PROVE  NetOf(name) \in Nets
  BY DEF NetOf, Nets

\* No settings make parameters that cannot be used.
LEMMA ActiveParamsUsable ==
  ASSUME NEW c
  PROVE  Usable(ActiveParams(c))
  <1> DEFINE p == NetParams[NetOf(c.ActiveNet)]
             q == [p EXCEPT
                     !.Magic = OrDefault(c.Magic, @),
                     !.DNSSeeds = Seeds(c.DNSSeeds, c.DisableDNS, @),
                     !.DefaultPort = OrDefault(c.NodePort, @),
                     !.Foundation = Foundation(c, @),
                     !.ExchangeRate = OrDefault(c.ExchangeRate, @),
                     !.DisableTxFilters = OrDefault(c.DisableTxFilters, @),
                     !.MinCrossChainTxFee = OrDefault(c.MinCrossChainTxFee, @)]
  <1>1. Usable(p)
    BY NetParamsUsable, NetOfType
  <1> HIDE DEF p
  <1>2. Usable(q)
    BY <1>1 DEF Usable, ParamFields, OrDefault, Positive
  <1>3. ActiveParams(c) = IF Positive(c.InstantBlock) THEN InstantBlock(q) ELSE q
    BY DEF ActiveParams, p
  <1> HIDE DEF q
  <1>4. Usable(InstantBlock(q))
    BY <1>2 DEF Usable, ParamFields, InstantBlock
  <1> QED
    BY <1>2, <1>3, <1>4

\* No file makes the node work with parameters that it cannot use (loadConfig).
THEOREM StartupParamsUsable == StartupSpec => []ParamsUsable
  <1>1. StartupInit => ParamsUsable
    <2>1. Usable(NetParams["main"])
      BY NetParamsUsable DEF Nets
    <2> QED
      BY <2>1 DEF StartupInit, ConfigInit, ParamsUsable, Usable
  <1>2. ParamsUsable /\ [StartupNext]_startupVars => ParamsUsable'
    <2> SUFFICES ASSUME ParamsUsable, [StartupNext]_startupVars
                 PROVE  ParamsUsable'
      OBVIOUS
    <2>1. CASE loadConfig
      <3>1. active' = ActiveParams(loadConfigFile(file))
        BY <2>1 DEF loadConfig
      <3> QED
        BY <3>1, ActiveParamsUsable DEF ParamsUsable, Usable
    <2>2. CASE UNCHANGED configVars
      BY <2>2 DEF ParamsUsable, configVars
    <2> QED
      BY <2>1, <2>2 DEF StartupNext, LoadConfig, startupVars
  <1> QED
    BY <1>1, <1>2, PTL DEF StartupSpec

\* The parameters of side chain and SPV module have one foundation if the file
\* names one, and the SPV module always has the genesis block of its own.
LEMMA FoundationsOf ==
  ASSUME NEW c
  PROVE  /\ SpvParams(c).GenesisBlock = GenesisBlock(SpvParams(c).Foundation)
         /\ c.FoundationAddress \in Addresses =>
              /\ ActiveParams(c).Foundation = c.FoundationAddress
              /\ SpvParams(c).Foundation = c.FoundationAddress
  <1> DEFINE d == SpvDefaults[NetOf(c.ActiveNet)]
             p == NetParams[NetOf(c.ActiveNet)]
             q == [p EXCEPT
                     !.Magic = OrDefault(c.Magic, @),
                     !.DNSSeeds = Seeds(c.DNSSeeds, c.DisableDNS, @),
                     !.DefaultPort = OrDefault(c.NodePort, @),
                     !.Foundation = Foundation(c, @),
                     !.ExchangeRate = OrDefault(c.ExchangeRate, @),
                     !.DisableTxFilters = OrDefault(c.DisableTxFilters, @),
                     !.MinCrossChainTxFee = OrDefault(c.MinCrossChainTxFee, @)]
  <1>1. /\ DOMAIN d = {"Magic", "DNSSeeds", "Foundation", "GenesisBlock"}
        /\ d.GenesisBlock = GenesisBlock(d.Foundation)
    BY SpvDefaultsAssumption, NetOfType
  <1>2. SpvParams(c) =
          [d EXCEPT
             !.Foundation = Foundation(c, @),
             !.GenesisBlock = IF c.FoundationAddress \in Addresses
                              THEN GenesisBlock(c.FoundationAddress) ELSE @,
             !.Magic = OrDefault(c.SPVMagic, @),
             !.DNSSeeds = Seeds(c.SPVDNSSeeds, c.SPVDisableDNS, @)]
    BY DEF SpvParams
  <1>3. Usable(p)
    BY NetParamsUsable, NetOfType
  <1>4. ActiveParams(c) = IF Positive(c.InstantBlock) THEN InstantBlock(q) ELSE q
    BY DEF ActiveParams
  <1> HIDE DEF d, p
  <1>5. SpvParams(c).GenesisBlock = GenesisBlock(SpvParams(c).Foundation)
    BY <1>1, <1>2 DEF Foundation
  <1>6. ASSUME c.FoundationAddress \in Addresses
        PROVE  /\ ActiveParams(c).Foundation = c.FoundationAddress
               /\ SpvParams(c).Foundation = c.FoundationAddress
    <2>1. SpvParams(c).Foundation = c.FoundationAddress
      BY <1>1, <1>2, <1>6 DEF Foundation
    <2>2. q.Foundation = c.FoundationAddress /\ DOMAIN q = ParamFields
      BY <1>3, <1>6 DEF Foundation, Usable, ParamFields
    <2> HIDE DEF q
    <2>3. InstantBlock(q).Foundation = q.Foundation
      BY <2>2 DEF InstantBlock, ParamFields
    <2> QED
      BY <1>4, <2>1, <2>2, <2>3
  <1> QED
    BY <1>5, <1>6

\* Whatever address a file names, side chain and SPV module work with the same
\* foundation and the genesis block that it has on the main chain (loadConfig).
THEOREM StartupFoundationsAgree == StartupSpec => []FoundationsAgree
  <1>1. StartupInit => FoundationsAgree
    BY SpvDefaultsAssumption DEF StartupInit, ConfigInit, FoundationsAgree, Nets
  <1>2. FoundationsAgree /\ [StartupNext]_startupVars => FoundationsAgree'
    <2> SUFFICES ASSUME FoundationsAgree, [StartupNext]_startupVars
                 PROVE  FoundationsAgree'
      OBVIOUS
    <2>1. CASE loadConfig
      <3>1. /\ active' = ActiveParams(loadConfigFile(file))
            /\ spv' = SpvParams(loadConfigFile(file))
            /\ file' = file
        BY <2>1 DEF loadConfig
      <3> QED
        BY <3>1, FoundationsOf DEF FoundationsAgree
    <2>2. CASE UNCHANGED configVars
      BY <2>2 DEF FoundationsAgree, configVars
    <2> QED
      BY <2>1, <2>2 DEF StartupNext, LoadConfig, startupVars
  <1> QED
    BY <1>1, <1>2, PTL DEF StartupSpec
-----------------------------------------------------------------------------
(* What the file says.                                                     *)

Fields == TextFields \cup NumberFields

Readable(f, i, g) == f[i].field = g /\ f[i].value # Unreadable

\* The loop of Unmarshal as a round of a fold.
ReadRound(c, e, none) == IF e.value = Unreadable THEN c ELSE [c EXCEPT ![e.field] = e.value]

NoSum(e) == 0

ReadLoop == INSTANCE FoldTheorems WITH Op <- ReadRound, Value <- NoSum

\* After size settings, field g has the value v: the last that can be read of it,
\* or the one it had before.
ReadUpTo(f, size, g, v) ==
  /\ (\A i \in 1 .. size : ~Readable(f, i, g)) => v = defaultConfig[g]
  /\ \A i \in 1 .. size :
       Readable(f, i, g) /\ (\A j \in 1 .. size : j > i => ~Readable(f, j, g)) => v = f[i].value

\* One more setting.
LEMMA ReadOneMore ==
  ASSUME NEW f, NEW size \in Nat, NEW g, NEW v, ReadUpTo(f, size, g, v), NEW w,
         w = IF Readable(f, size + 1, g) THEN f[size + 1].value ELSE v
  PROVE  ReadUpTo(f, size + 1, g, w)
  <1> DEFINE R(i) == Readable(f, i, g)
  <1>1. /\ (\A i \in 1 .. size : ~R(i)) => v = defaultConfig[g]
        /\ \A i \in 1 .. size : R(i) /\ (\A j \in 1 .. size : j > i => ~R(j)) => v = f[i].value
    BY DEF ReadUpTo
  <1>2. w = IF R(size + 1) THEN f[size + 1].value ELSE v
    OBVIOUS
  <1> HIDE DEF R
  <1>3. (\A i \in 1 .. size + 1 : ~R(i)) => w = defaultConfig[g]
    BY <1>1, <1>2
  <1>4. ASSUME NEW i \in 1 .. size + 1, R(i), \A j \in 1 .. size + 1 : j > i => ~R(j)
        PROVE  w = f[i].value
    <2>1. CASE i = size + 1
      BY <1>2, <1>4, <2>1
    <2>2. CASE i \in 1 .. size
      <3>1. ~R(size + 1) /\ \A j \in 1 .. size : j > i => ~R(j)
        BY <1>4, <2>2
      <3> QED
        BY <1>1, <1>2, <1>4, <2>2, <3>1
    <2> QED
      BY <2>1, <2>2
  <1> QED
    BY <1>3, <1>4 DEF ReadUpTo, R

\* A file has as many settings as its length says.
LEMMA FileLength ==
  ASSUME NEW f \in Files \ {NoFile}
  PROVE  Len(f) \in Nat /\ DOMAIN f = 1 .. Len(f)
  <1>1. Len(f) \in Nat /\ f = [i \in 1 .. Len(f) |-> f[i]]
    BY FilesAssumption
  <1> DEFINE size == Len(f)
  <1> HIDE DEF size
  <1>2. size \in Nat /\ f = [i \in 1 .. size |-> f[i]]
    BY <1>1 DEF size
  <1>3. DOMAIN f = 1 .. size
    BY <1>2
  <1> QED
    BY <1>2, <1>3 DEF size

\* After the whole file every field has what the file says of it.
LEMMA UnmarshalReads ==
  ASSUME NEW f \in Files \ {NoFile}
  PROVE  /\ DOMAIN Unmarshal(f) = Fields
         /\ \A g \in Fields : ReadUpTo(f, Len(f), g, Unmarshal(f)[g])
  <1> DEFINE Said == {f[i].value : i \in DOMAIN f}
             Items == [field : Fields, value : Said]
             Values == Said \cup {"", 0}
             Work == [Fields -> Values]
             G == {z \in Nat \X Work : \A g \in Fields : ReadUpTo(f, z[1], g, z[2][g])}
  <1>1. f \in Seq(Items) /\ Len(f) \in Nat /\ DOMAIN f = 1 .. Len(f)
    <2> DEFINE size == Len(f)
    <2>1. size \in Nat /\ f = [i \in 1 .. size |-> f[i]]
      BY FilesAssumption
    <2> HIDE DEF size
    <2>2. DOMAIN f = 1 .. size
      BY <2>1
    <2>3. ASSUME NEW i \in 1 .. size
          PROVE  f[i] \in Items
      <3>1. f[i] = [field |-> f[i].field, value |-> f[i].value] /\ f[i].field \in Fields
        BY FilesAssumption DEF Fields, size
      <3>2. f[i].value \in Said
        BY <2>2
      <3> HIDE DEF Said
      <3> QED
        BY <3>1, <3>2
    <2> HIDE DEF Items
    <2>4. f \in [1 .. size -> Items]
      BY <2>1, <2>3
    <2>5. f \in Seq(Items)
      BY <2>1, <2>4
    <2> QED
      BY <2>1, <2>2, <2>5 DEF size
  <1>2. defaultConfig \in Work
    <2>1. "" \in Values /\ 0 \in Values
      OBVIOUS
    <2> HIDE DEF Values, Said
    <2> QED
      BY <2>1 DEF defaultConfig, Fields
  <1>3. ASSUME NEW c \in Work, NEW e \in Items
        PROVE  ReadRound(c, e, 0) \in Work
    <2>1. e.field \in Fields /\ e.value \in Values
      BY <1>3
    <2> HIDE DEF Values, Items, Said
    <2>2. [c EXCEPT ![e.field] = e.value] \in Work
      BY <1>3, <2>1
    <2> QED
      BY <1>3, <2>2 DEF ReadRound
  <1>4. ASSUME NEW i \in 1 .. Len(f), NEW c \in Work, <<i - 1, c>> \in G
        PROVE  <<i, ReadRound(c, f[i], 0)>> \in G
    <2>1. f[i] \in Items /\ i \in Nat /\ i - 1 \in Nat /\ (i - 1) + 1 = i
      <3> HIDE DEF G, Work, Items, Values, Said
      <3>1. i \in Nat /\ i - 1 \in Nat /\ (i - 1) + 1 = i
        BY <1>1
      <3>2. f[i] \in Items
        BY <1>1
      <3> QED
        BY <3>1, <3>2
    <2> DEFINE d == ReadRound(c, f[i], 0)
    <2>2. d \in Work
      BY <1>3, <2>1
    <2>3. ASSUME NEW g \in Fields
          PROVE  ReadUpTo(f, i, g, d[g])
      <3>1. d[g] = IF Readable(f, i, g) THEN f[i].value ELSE c[g]
        <4>1. f[i].field \in Fields /\ DOMAIN c = Fields
          BY <1>4, <2>1
        <4> HIDE DEF Work, Items
        <4> QED
          BY <2>3, <4>1 DEF ReadRound, Readable
      <3>2. ReadUpTo(f, i - 1, g, c[g])
        BY <1>4
      <3> DEFINE k == i - 1
      <3>3. k \in Nat /\ i = k + 1 /\ ReadUpTo(f, k, g, c[g])
        BY <2>1, <3>2
      <3> HIDE DEF d, k, Work, Items, Values
      <3>4. d[g] = IF Readable(f, k + 1, g) THEN f[k + 1].value ELSE c[g]
        BY <3>1, <3>3
      <3>5. ReadUpTo(f, k + 1, g, d[g])
        BY <3>3, <3>4, ReadOneMore
      <3> QED
        BY <3>3, <3>5
    <2> HIDE DEF d, Work
    <2>4. <<i, d>> \in G
      BY <2>1, <2>2, <2>3
    <2> QED
      BY <2>4 DEF d
  <1>5. <<0, defaultConfig>> \in G
    <2>1. \A g \in Fields : ReadUpTo(f, 0, g, defaultConfig[g])
      BY DEF ReadUpTo
    <2> HIDE DEF Work
    <2> QED
      BY <1>2, <2>1
  <1> HIDE DEF G, Work, Items
  <1>6. ReadLoop!Passes(Work, Items, f, 0, G)
    BY <1>1, <1>3, <1>4 DEF ReadLoop!Passes, ReadLoop!Loops
  <1>7. ReadLoop!Fold(defaultConfig, f, 0) \in Work
        /\ <<Len(f), ReadLoop!Fold(defaultConfig, f, 0)>> \in G
    BY <1>2, <1>5, <1>6, ReadLoop!FoldInvariant
  <1>8. Unmarshal(f) = ReadLoop!Fold(defaultConfig, f, 0)
    BY DEF Unmarshal, ReadLoop!Fold, ReadRound, FoldLeft, MapThenFoldSet, Max,
           ReadLoop!FoldLeft, ReadLoop!MapThenFoldSet, ReadLoop!Max
  <1> QED
    BY <1>7, <1>8 DEF G, Work

\* What decoding makes of the file is what the file says, field by field.
LEMMA LoadedIsSaid ==
  ASSUME file \in Files, NEW g \in Fields
  PROVE  loadConfigFile(file)[g] = Says(g)
  <1>1. CASE file = NoFile
    BY <1>1 DEF loadConfigFile, Says
  <1>2. CASE file # NoFile
    <2> DEFINE readable == {i \in DOMAIN file : file[i].field = g /\ file[i].value # Unreadable}
               size == Len(file)
    <2>1. size \in Nat /\ DOMAIN file = 1 .. size
      BY <1>2, FileLength
    <2>2. ReadUpTo(file, size, g, Unmarshal(file)[g])
      BY <1>2, UnmarshalReads
    <2>3. readable \in SUBSET (1 .. size) /\ \A i \in 1 .. size : i \in readable <=> Readable(file, i, g)
      BY <2>1 DEF Readable
    <2>4. Says(g) = IF readable = {} THEN defaultConfig[g]
                    ELSE file[CHOOSE i \in readable : \A j \in readable : j <= i].value
      BY <1>2 DEF Says
    <2>5. loadConfigFile(file) = Unmarshal(file)
      BY <1>2 DEF loadConfigFile
    <2> HIDE DEF readable, size
    <2>6. CASE readable = {}
      BY <2>2, <2>3, <2>4, <2>5, <2>6 DEF ReadUpTo
    <2>7. CASE readable # {}
      <3> DEFINE m == CHOOSE i \in readable : \A j \in readable : j <= i
      <3>1. ReadLoop!Max(readable) \in readable /\ \A x \in readable : x <= ReadLoop!Max(readable)
        BY <2>1, <2>3, <2>7, ReadLoop!MaxPosition
      <3>2. m \in readable /\ \A j \in readable : j <= m
        BY <3>1
      <3>3. Says(g) = file[m].value
        BY <2>4, <2>7
      <3> HIDE DEF m
      <3>4. m \in 1 .. size /\ Readable(file, m, g) /\ \A j \in 1 .. size : j > m => ~Readable(file, j, g)
        BY <2>1, <2>3, <3>2
      <3> QED
        BY <2>2, <2>5, <3>3, <3>4 DEF ReadUpTo
    <2> QED
      BY <2>6, <2>7
  <1> QED
    BY <1>1, <1>2

\* As long as the file is the same it says the same.
LEMMA SaysKept ==
  ASSUME file' = file, NEW g
  PROVE  Says(g)' = Says(g)
  <1> DEFINE of(f) ==
        LET readable == IF f = NoFile THEN {}
                        ELSE {i \in DOMAIN f : f[i].field = g /\ f[i].value # Unreadable}
        IN  IF readable = {} THEN defaultConfig[g]
            ELSE f[CHOOSE i \in readable : \A j \in readable : j <= i].value
  <1>1. Says(g) = of(file) /\ Says(g)' = of(file')
    BY DEF Says
  <1> HIDE DEF of
  <1> QED
    BY <1>1

\* An RPC port that a file says is a port.
LEMMA PortSaid ==
  ASSUME file \in Files
  PROVE  Says("RPCPort") \in Nat
  <1>1. defaultConfig["RPCPort"] = 0
    BY DEF defaultConfig, NumberFields, TextFields
  <1>2. CASE file = NoFile
    BY <1>1, <1>2 DEF Says
  <1>3. CASE file # NoFile
    <2> DEFINE size == Len(file)
    <2>1. size \in Nat /\ DOMAIN file = 1 .. size
      BY <1>3, FileLength
    <2>2. ReadUpTo(file, size, "RPCPort", Says("RPCPort"))
      BY <1>3, UnmarshalReads, LoadedIsSaid DEF loadConfigFile, Fields, NumberFields
    <2> DEFINE readable == {i \in 1 .. size : Readable(file, i, "RPCPort")}
    <2>3. \A i \in readable : file[i].value \in Nat
      BY <1>3, <2>1, FilesAssumption DEF Readable
    <2>4. CASE readable = {}
      BY <1>1, <2>2, <2>4 DEF ReadUpTo
    <2>5. CASE readable # {}
      <3>1. ReadLoop!Max(readable) \in readable /\ \A x \in readable : x <= ReadLoop!Max(readable)
        BY <2>1, <2>5, ReadLoop!MaxPosition
      <3> DEFINE m == ReadLoop!Max(readable)
      <3>2. m \in 1 .. size /\ Readable(file, m, "RPCPort")
            /\ \A j \in 1 .. size : j > m => ~Readable(file, j, "RPCPort")
        BY <2>1, <3>1
      <3>3. m \in readable
        BY <3>1
      <3> HIDE DEF m, readable
      <3> QED
        BY <2>2, <2>3, <3>2, <3>3 DEF ReadUpTo
    <2> QED
      BY <2>4, <2>5
  <1> QED
    BY <1>2, <1>3

\* Which settings make which parameters.
LEMMA SettingsOf ==
  ASSUME NEW c
  PROVE  LET net == NetOf(c.ActiveNet)
         IN  /\ ActiveParams(c).Magic = OrDefault(c.Magic, NetParams[net].Magic)
             /\ ActiveParams(c).DefaultPort = OrDefault(c.NodePort, NetParams[net].DefaultPort)
             /\ ActiveParams(c).CheckPowHeaderHeight = NetParams[net].CheckPowHeaderHeight
             /\ c.DisableDNS = 1 => ActiveParams(c).DNSSeeds = ""
             /\ SpvParams(c).Magic = OrDefault(c.SPVMagic, SpvDefaults[net].Magic)
  <1> DEFINE net == NetOf(c.ActiveNet)
             d == SpvDefaults[net]
             p == NetParams[net]
             q == [p EXCEPT
                     !.Magic = OrDefault(c.Magic, @),
                     !.DNSSeeds = Seeds(c.DNSSeeds, c.DisableDNS, @),
                     !.DefaultPort = OrDefault(c.NodePort, @),
                     !.Foundation = Foundation(c, @),
                     !.ExchangeRate = OrDefault(c.ExchangeRate, @),
                     !.DisableTxFilters = OrDefault(c.DisableTxFilters, @),
                     !.MinCrossChainTxFee = OrDefault(c.MinCrossChainTxFee, @)]
  <1>1. Usable(p) /\ DOMAIN d = {"Magic", "DNSSeeds", "Foundation", "GenesisBlock"}
    BY NetParamsUsable, NetOfType, SpvDefaultsAssumption
  <1>2. ActiveParams(c) = IF Positive(c.InstantBlock) THEN InstantBlock(q) ELSE q
    BY DEF ActiveParams
  <1>3. SpvParams(c) =
          [d EXCEPT
             !.Foundation = Foundation(c, @),
             !.GenesisBlock = IF c.FoundationAddress \in Addresses
                              THEN GenesisBlock(c.FoundationAddress) ELSE @,
             !.Magic = OrDefault(c.SPVMagic, @),
             !.DNSSeeds = Seeds(c.SPVDNSSeeds, c.SPVDisableDNS, @)]
    BY DEF SpvParams
  <1> HIDE DEF p, d, net
  <1>4. SpvParams(c).Magic = OrDefault(c.SPVMagic, d.Magic)
    BY <1>1, <1>3
  <1>5. /\ DOMAIN q = ParamFields
        /\ q.Magic = OrDefault(c.Magic, p.Magic)
        /\ q.DefaultPort = OrDefault(c.NodePort, p.DefaultPort)
        /\ q.CheckPowHeaderHeight = p.CheckPowHeaderHeight
        /\ q.DNSSeeds = Seeds(c.DNSSeeds, c.DisableDNS, p.DNSSeeds)
    BY <1>1 DEF Usable, ParamFields
  <1>6. c.DisableDNS = 1 => Seeds(c.DNSSeeds, c.DisableDNS, p.DNSSeeds) = ""
    BY DEF Seeds, Positive
  <1> HIDE DEF q
  <1>7. /\ InstantBlock(q).Magic = q.Magic
        /\ InstantBlock(q).DefaultPort = q.DefaultPort
        /\ InstantBlock(q).CheckPowHeaderHeight = q.CheckPowHeaderHeight
        /\ InstantBlock(q).DNSSeeds = q.DNSSeeds
    BY <1>5 DEF InstantBlock, ParamFields
  <1> QED
    BY <1>2, <1>4, <1>5, <1>6, <1>7 DEF p, d, net

\* Whatever is in a file and in whatever order, each setting of it that can be
\* read counts, the last one if there are several; and what the file and the
\* defaults make up together fits together and can be used (loadConfig).
THEOREM StartupConfigSound == StartupSpec => []ConfigSound
  <1> DEFINE J == file \in Files /\ ReadableSettingsCount
  <1>1. StartupInit => J
    BY DEF StartupInit, ConfigInit, ReadableSettingsCount
  <1>2. J /\ [StartupNext]_startupVars => J'
    <2> SUFFICES ASSUME J, [StartupNext]_startupVars
                 PROVE  J'
      OBVIOUS
    <2>1. CASE loadConfig
      <3> DEFINE c == loadConfigFile(file)
                 net == NetOf(c.ActiveNet)
      <3>1. /\ file' = file
            /\ cfg' = [c EXCEPT !.RPCPort = IF @ = 0 THEN DefaultRPCPort[net] ELSE @]
            /\ active' = ActiveParams(c)
            /\ spv' = SpvParams(c)
        BY <2>1 DEF loadConfig
      <3>2. \A g \in Fields : c[g] = Says(g) /\ Says(g)' = Says(g)
        BY <3>1, LoadedIsSaid, SaysKept
      <3>3. /\ c.ActiveNet = Says("ActiveNet") /\ c.Magic = Says("Magic")
            /\ c.NodePort = Says("NodePort") /\ c.SPVMagic = Says("SPVMagic")
            /\ c.RPCPort = Says("RPCPort") /\ c.DisableDNS = Says("DisableDNS")
        BY <3>2 DEF Fields, TextFields, NumberFields
      <3>4. /\ Says("ActiveNet")' = Says("ActiveNet") /\ Says("Magic")' = Says("Magic")
            /\ Says("NodePort")' = Says("NodePort") /\ Says("SPVMagic")' = Says("SPVMagic")
            /\ Says("RPCPort")' = Says("RPCPort") /\ Says("DisableDNS")' = Says("DisableDNS")
        BY <3>2 DEF Fields, TextFields, NumberFields
      <3>5. DOMAIN c = Fields
        BY UnmarshalReads DEF loadConfigFile, defaultConfig, Fields
      <3> HIDE DEF c
      <3>6. cfg'.RPCPort = OrDefault(Says("RPCPort"), DefaultRPCPort[net])
        <4>1. cfg'.RPCPort = IF c.RPCPort = 0 THEN DefaultRPCPort[net] ELSE c.RPCPort
          <5>1. "RPCPort" \in DOMAIN c
            BY <3>5 DEF Fields, NumberFields
          <5> HIDE DEF net
          <5> QED
            BY <3>1, <5>1
        <4> QED
          BY <3>3, <4>1, PortSaid DEF OrDefault, Positive
      <3>7. /\ active'.Magic = OrDefault(Says("Magic"), NetParams[net].Magic)
            /\ active'.DefaultPort = OrDefault(Says("NodePort"), NetParams[net].DefaultPort)
            /\ active'.CheckPowHeaderHeight = NetParams[net].CheckPowHeaderHeight
            /\ spv'.Magic = OrDefault(Says("SPVMagic"), SpvDefaults[net].Magic)
            /\ Says("DisableDNS") = 1 => active'.DNSSeeds = ""
        BY <3>1, <3>3, SettingsOf
      <3>8. net \in Nets /\ net = NetOf(Says("ActiveNet"))
        BY <3>3, NetOfType
      <3> HIDE DEF net
      <3>9. ReadableSettingsCount'
        BY <3>4, <3>6, <3>7, <3>8 DEF ReadableSettingsCount
      <3> QED
        BY <3>1, <3>9
    <2>2. CASE UNCHANGED configVars
      <3>1. file' = file /\ cfg' = cfg /\ active' = active /\ spv' = spv /\ loaded' = loaded
        BY <2>2 DEF configVars
      <3>2. \A g \in Fields : Says(g)' = Says(g)
        BY <3>1, SaysKept
      <3>3. /\ Says("ActiveNet")' = Says("ActiveNet") /\ Says("Magic")' = Says("Magic")
            /\ Says("NodePort")' = Says("NodePort") /\ Says("SPVMagic")' = Says("SPVMagic")
            /\ Says("RPCPort")' = Says("RPCPort") /\ Says("DisableDNS")' = Says("DisableDNS")
        BY <3>2 DEF Fields, TextFields, NumberFields
      <3> QED
        BY <3>1, <3>3 DEF ReadableSettingsCount
    <2> QED
      BY <2>1, <2>2 DEF StartupNext, LoadConfig, startupVars
  <1>3. J /\ FoundationsAgree /\ ParamsUsable => ConfigSound
    BY DEF ConfigSound
  <1> QED
    BY <1>1, <1>2, <1>3, StartupFoundationsAgree, StartupParamsUsable, PTL DEF StartupSpec
=============================================================================
