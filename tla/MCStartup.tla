----------------------------- MODULE MCStartup -----------------------------
(***************************************************************************)
(* Files of up to two settings, good and bad ones, with and without miner  *)
(* and RPC server, and no file at all.                                     *)
(***************************************************************************)
EXTENDS Startup

Setting(fields, values) == {[field |-> f, value |-> v] : f \in fields, v \in values}

Settings ==
  Setting({"ActiveNet"}, {"testnet", "reg", "mainet", Unreadable})
  \cup Setting({"FoundationAddress"}, {"foundation", "no address"})
  \cup Setting({"DNSSeeds", "SPVDNSSeeds"}, {"listed"})
  \cup Setting({"Magic", "NodePort", "SPVMagic", "RPCPort"}, {0, 7, Unreadable})
  \cup Setting({"ExchangeRate", "MinCrossChainTxFee"}, {-1, 2})
  \cup Setting({"DisableDNS", "SPVDisableDNS", "DisableTxFilters", "InstantBlock"}, {1})

Enabled == Setting({"EnableRPC", "EnableMining"}, {1})

MCFiles ==
  {NoFile} \cup SeqOf(Settings, 2)
    \cup {<<e>> \o s : e \in Enabled, s \in SeqOf(Settings, 1)}
    \cup {<<x>> \o e : x \in Settings, e \in SetToSeqs(Enabled)}

MCAddresses == {"foundation"}

MCSpvDefaults ==
  [n \in Nets |->
     [Magic |-> 2017001, DNSSeeds |-> n, Foundation |-> n, GenesisBlock |-> GenesisBlock(n)]]
=============================================================================
