------------------------------- MODULE MCServices -------------------------------
(***************************************************************************)
(* The background services on small instances.  They share no state in these *)
(* models, so that nothing is lost when only one of them moves in a          *)
(* behaviour: the one that "focus" names.                                   *)
(***************************************************************************)
EXTENDS Webhooks, OnchainMonitor, StablecoinMonitor, ProcessorMonitor

VARIABLE focus

MCDelays == <<60, 300>>

ServicesInit ==
    /\ focus \in {"webhooks", "onchain", "stable", "processor"}
    /\ WebhooksInit /\ MonitorInit /\ StableInit /\ ProcessorInit
    /\ focus # "processor" => processor = "btcpay"

\* What stays as it is while one service moves.
Webhooks_(step) ==
    /\ focus = "webhooks" /\ step
    /\ UNCHANGED <<focus, monitorVars, stableVars, processorVars>>
Onchain_(step) ==
    /\ focus = "onchain" /\ step
    /\ UNCHANGED <<focus, webhookVars, stableVars, processorVars>>
Stable_(step) ==
    /\ focus = "stable" /\ step
    /\ UNCHANGED <<focus, webhookVars, monitorVars, processorVars>>
Processor_(step) ==
    /\ focus = "processor" /\ step
    /\ UNCHANGED <<focus, webhookVars, monitorVars, stableVars>>

ServicesNext ==
    \/ Webhooks_(WebhooksNext) \/ Onchain_(MonitorNext)
    \/ Stable_(StableNext)     \/ Processor_(ProcessorNext)

serviceVars == <<focus, webhookVars, monitorVars, stableVars, processorVars>>

\* None of the fair actions is enabled at first, so that the fairness of the services
\* that do not move asks for nothing.
ServicesFairness ==
    WebhooksFairness /\ MonitorFairness /\ StableFairness /\ WF_processorVars(ProcessorFairness)

ServicesSpec == ServicesInit /\ [][ServicesNext]_serviceVars /\ ServicesFairness
===============================================================================
