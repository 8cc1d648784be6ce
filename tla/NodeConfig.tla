---------------------------- MODULE NodeConfig ----------------------------
(***************************************************************************)
(* The configuration of a node (src/config.go, src/params/params.go).  A   *)
(* file is what encoding/json makes of it: the fields in their order, each *)
(* with a value or one that does not fit its type.  A list and an address  *)
(* are a string here, a flag is 0 or 1, time is in seconds.                *)
(***************************************************************************)
EXTENDS Integers, Sequences, FiniteSets, SequencesExt

CONSTANTS
  Files,           \* the configuration files
  NoFile,          \* there is no file, or it is no JSON
  Unreadable,      \* a value that does not fit the type of its field
  Addresses,       \* the strings that are addresses
  SpvDefaults      \* SpvDefaults[net]: parameters of the main chain network

ASSUME AddressesAssumption == "" \notin Addresses

Nets == {"main", "test", "reg"}

\* The fields of configParams that loadConfig merges, and what main starts.
TextFields == {"ActiveNet", "DNSSeeds", "SPVDNSSeeds", "FoundationAddress"}

NumberFields ==
  {"Magic", "NodePort", "DisableDNS", "SPVMagic", "SPVDisableDNS", "RPCPort",
   "DisableTxFilters", "ExchangeRate", "MinCrossChainTxFee", "InstantBlock",
   "EnableRPC", "EnableMining"}

\* A file is a sequence of settings, and a port that can be read is a uint16.
ASSUME FilesAssumption ==
  \A f \in Files \ {NoFile} :
    /\ Len(f) \in Nat /\ f = [i \in 1 .. Len(f) |-> f[i]]
    /\ \A i \in 1 .. Len(f) :
         /\ f[i] = [field |-> f[i].field, value |-> f[i].value]
         /\ f[i].field \in TextFields \cup NumberFields
         /\ f[i].field = "RPCPort" /\ f[i].value # Unreadable => f[i].value \in Nat

VARIABLES
  file,     \* config.json
  cfg,      \* the fields after the file was read
  active,   \* activeNetParams
  spv,      \* spvNetParams
  loaded    \* the file was read

configVars == <<file, cfg, active, spv, loaded>>

-----------------------------------------------------------------------------
(* The parameters of the networks.                                         *)

MainNetParams ==
  [Magic |-> 2019004, DefaultPort |-> 20618, DNSSeeds |-> "main", Foundation |-> "mainNetFoundation",
   ExchangeRate |-> 1, MinCrossChainTxFee |-> 10000, DisableTxFilters |-> 0,
   CheckPowHeaderHeight |-> 31538, PowLimitBits |-> "0x1f0008ff", SecondsPerBlock |-> 120]

testNetParams(p) ==
  [p EXCEPT !.Magic = 2019104, !.DefaultPort = 21618, !.DNSSeeds = "test",
            !.Foundation = "testNetFoundation", !.CheckPowHeaderHeight = 30000]

regNetParams(p) ==
  [p EXCEPT !.Magic = 2019204, !.DefaultPort = 22618, !.DNSSeeds = "reg",
            !.Foundation = "testNetFoundation", !.CheckPowHeaderHeight = 20000]

NetParams ==
  [n \in Nets |-> CASE n = "main" -> MainNetParams
                    [] n = "test" -> testNetParams(MainNetParams)
                    [] n = "reg"  -> regNetParams(MainNetParams)]

InstantBlock(p) == [p EXCEPT !.PowLimitBits = "0x207fffff", !.SecondsPerBlock = 1]

DefaultRPCPort == [n \in Nets |-> CASE n = "main" -> 20616 [] n = "test" -> 21616 [] n = "reg" -> 22616]

\* A name that is none of these, a misspelled one too, is the main network.
NetOf(name) ==
  CASE name \in {"testnet", "test", "t"} -> "test"
    [] name \in {"regnet", "reg", "r"}   -> "reg"
    [] OTHER                             -> "main"

\* What the genesis block of the main chain depends on (base library).
GenesisBlock(foundation) == [Foundation |-> foundation]

\* The SPV module comes with the genesis block of its default foundation.
ASSUME SpvDefaultsAssumption ==
  \A n \in Nets :
    /\ SpvDefaults[n] \in [Magic : Nat, DNSSeeds : STRING, Foundation : STRING,
                          GenesisBlock : [Foundation : STRING]]
    /\ SpvDefaults[n].GenesisBlock = GenesisBlock(SpvDefaults[n].Foundation)

-----------------------------------------------------------------------------
(* Loading.                                                                *)

defaultConfig == [f \in TextFields \cup NumberFields |-> IF f \in TextFields THEN "" ELSE 0]

\* Mutant of Unmarshal: decoding ends at the first value that does not fit.
UnmarshalStops(entries) ==
  LET before == {i \in DOMAIN entries : \A j \in 1 .. i : entries[j].value # Unreadable}
  IN  FoldLeft(LAMBDA c, e : [c EXCEPT ![e.field] = e.value], defaultConfig,
               SubSeq(entries, 1, Cardinality(before)))

\* A value that does not fit is left out and decoding goes on (encoding/json).
Unmarshal(entries) ==
  FoldLeft(LAMBDA c, e : IF e.value = Unreadable THEN c ELSE [c EXCEPT ![e.field] = e.value],
           defaultConfig, entries)

loadConfigFile(f) == IF f = NoFile THEN defaultConfig ELSE Unmarshal(f)

\* A number that replaces the default: cfg.Magic > 0.
Positive(v) == v > 0

OrDefault(v, d) == IF Positive(v) THEN v ELSE d

Seeds(listed, disabled, d) ==
  IF Positive(disabled) THEN "" ELSE IF listed # "" THEN listed ELSE d

\* The foundation of the file, if it is an address.
Foundation(c, d) == IF c.FoundationAddress \in Addresses THEN c.FoundationAddress ELSE d

ActiveParams(c) ==
  LET p == [NetParams[NetOf(c.ActiveNet)] EXCEPT
              !.Magic = OrDefault(c.Magic, @),
              !.DNSSeeds = Seeds(c.DNSSeeds, c.DisableDNS, @),
              !.DefaultPort = OrDefault(c.NodePort, @),
              !.Foundation = Foundation(c, @),
              !.ExchangeRate = OrDefault(c.ExchangeRate, @),
              !.DisableTxFilters = OrDefault(c.DisableTxFilters, @),
              !.MinCrossChainTxFee = OrDefault(c.MinCrossChainTxFee, @)]
  IN  IF Positive(c.InstantBlock) THEN InstantBlock(p) ELSE p

SpvParams(c) ==
  LET d == SpvDefaults[NetOf(c.ActiveNet)]
  IN  [d EXCEPT
         !.Foundation = Foundation(c, @),
         !.GenesisBlock = IF c.FoundationAddress \in Addresses
                          THEN GenesisBlock(c.FoundationAddress) ELSE @,
         !.Magic = OrDefault(c.SPVMagic, @),
         !.DNSSeeds = Seeds(c.SPVDNSSeeds, c.SPVDisableDNS, @)]

ConfigInit ==
  /\ file \in Files /\ cfg = defaultConfig
  /\ active = NetParams["main"] /\ spv = SpvDefaults["main"]
  /\ loaded = FALSE

loadConfig ==
  /\ ~loaded /\ loaded' = TRUE
  /\ LET c == loadConfigFile(file)
     IN  /\ cfg' = [c EXCEPT !.RPCPort = IF @ = 0 THEN DefaultRPCPort[NetOf(c.ActiveNet)] ELSE @]
         /\ active' = ActiveParams(c)
         /\ spv' = SpvParams(c)
  /\ UNCHANGED file

-----------------------------------------------------------------------------
(* Properties.                                                             *)

\* What the file says of field f: the last value of it that can be read.
Says(f) ==
  LET readable == IF file = NoFile THEN {}
                  ELSE {i \in DOMAIN file : file[i].field = f /\ file[i].value # Unreadable}
  IN  IF readable = {} THEN defaultConfig[f]
      ELSE file[CHOOSE i \in readable : \A j \in readable : j <= i].value

\* Every setting that can be read counts, whatever else is in the file, and
\* what it does not set is that of one and the same network in the side chain,
\* the SPV module and the RPC port (loadConfig).
ReadableSettingsCount ==
  loaded =>
    \E n \in Nets :
      /\ n = NetOf(Says("ActiveNet"))
      /\ active.Magic = OrDefault(Says("Magic"), NetParams[n].Magic)
      /\ active.DefaultPort = OrDefault(Says("NodePort"), NetParams[n].DefaultPort)
      /\ active.CheckPowHeaderHeight = NetParams[n].CheckPowHeaderHeight
      /\ spv.Magic = OrDefault(Says("SPVMagic"), SpvDefaults[n].Magic)
      /\ cfg.RPCPort = OrDefault(Says("RPCPort"), DefaultRPCPort[n])
      /\ Says("DisableDNS") = 1 => active.DNSSeeds = ""

\* Side chain and SPV module take over a foundation that the file names if it
\* is an address, and the SPV module starts from the genesis block of its
\* foundation in any case (loadConfig).
FoundationsAgree ==
  /\ spv.GenesisBlock = GenesisBlock(spv.Foundation)
  /\ LET named == loadConfigFile(file).FoundationAddress
     IN  loaded /\ named \in Addresses => active.Foundation = named /\ spv.Foundation = named

\* No file makes the node work with a rate, a fee or a port that is not
\* positive, which the validator and the network rely on (loadConfig).
ParamsUsable ==
  active.ExchangeRate > 0 /\ active.MinCrossChainTxFee > 0 /\ active.DefaultPort > 0

\* Whatever is in the file, the node gets what can be read of it, and never
\* parameters that do not fit together or cannot be used (loadConfig).
ConfigSound == ReadableSettingsCount /\ FoundationsAgree /\ ParamsUsable
=============================================================================
