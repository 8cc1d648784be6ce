------------------------------ MODULE Startup ------------------------------
(***************************************************************************)
(* A node from its configuration file to its end: the package variables of *)
(* config.go are set before main runs, main starts what the file enables,  *)
(* and the parts work with what loadConfig made of it.                     *)
(***************************************************************************)
EXTENDS Lifecycle, NodeConfig

startupVars == <<lifeVars, configVars>>

\* What cfg.EnableMining and cfg.EnableRPC make main start.
Enables(c) ==
  {g \in {"miner", "rpc"} :
     \/ g = "miner" /\ Positive(c.EnableMining)
     \/ g = "rpc" /\ Positive(c.EnableRPC)}

StartupInit == ConfigInit /\ LifeInit /\ enabled = Enables(loadConfigFile(file))

\* Nothing of main runs before cfg has its value; a signal may come earlier.
LoadConfig == loadConfig /\ step \notin Ended /\ UNCHANGED lifeVars

StartupNext ==
  \/ LoadConfig
  \/ loaded /\ LifeNext /\ UNCHANGED configVars
  \/ ~loaded /\ Interrupt /\ UNCHANGED configVars

\* The goroutine of main, package variables first.
MainTurn == LoadConfig \/ (loaded /\ MainStep /\ UNCHANGED configVars)

StartupSpec == StartupInit /\ [][StartupNext]_startupVars /\ WF_startupVars(MainTurn)
=============================================================================
