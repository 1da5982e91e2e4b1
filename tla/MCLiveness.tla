------------------------------ MODULE MCLiveness ------------------------------
(* Three parts that have to get somewhere and share nothing with each other, *)
(* checked together: a behaviour is one of the contract server, of the       *)
(* scoped credentials or of the gateway, and the others stay as they begin.  *)
EXTENDS Contract, Credentials, Gateway

VARIABLE part  \* the part that runs

partVars == <<part, contractVars, credentialVars, gatewayVars>>

PartInit ==
  /\ part \in {"server", "credentials", "gateway"}
  /\ ContractInit /\ CredentialsInit /\ GatewayInit

OnlyServer(A) ==
  part = "server" /\ A /\ UNCHANGED <<part, credentialVars, gatewayVars>>
OnlyCredentials(A) ==
  part = "credentials" /\ A /\ UNCHANGED <<part, contractVars, gatewayVars>>
OnlyGateway(A) ==
  part = "gateway" /\ A /\ UNCHANGED <<part, contractVars, credentialVars>>

PartNext ==
  \/ OnlyServer(ContractNext) \/ OnlyCredentials(CredentialsNext)
  \/ OnlyGateway(GatewayNext)

\* ContractFairness, CredentialsFairness and GatewayFairness.
PartSpec ==
  /\ PartInit /\ [][PartNext]_partVars
  /\ WF_partVars(OnlyServer(Startup)) /\ WF_partVars(OnlyServer(Load))
  /\ WF_partVars(OnlyServer(Serve)) /\ SF_partVars(OnlyServer(Shutdown))
  /\ WF_partVars(OnlyServer(PeriodicSaveEnds))
  /\ WF_partVars(OnlyCredentials(WaitEnds \/ LoopEnds \/ Refresh \/ RefreshFails))
  /\ WF_partVars(OnlyCredentials(Tick))
  /\ \A c \in Chats : /\ WF_partVars(OnlyGateway(Proxy(c)))
                      /\ WF_partVars(OnlyGateway(Delivery(c)))
=============================================================================
