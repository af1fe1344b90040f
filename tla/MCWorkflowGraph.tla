--------------------------- MODULE MCWorkflowGraph ---------------------------
(***************************************************************************)
(* Six analyzers: the two preferred ones, two more secondary ones (one of  *)
(* which is never wired dynamically), and two without a node of their own. *)
(***************************************************************************)
EXTENDS WorkflowGraph

MCDataTypes ==
    [Hashdd_Status      |-> {"hash"},
     Virusshare         |-> {"hash", "file"},
     Abuse_Finder       |-> {"hash", "ip", "url"},
     IP_API             |-> {"ip", "domain"},
     DShield_lookup     |-> {"ip"},
     DomainMailSPFDMARC |-> {"domain", "mail"}]
MCCatalog == DOMAIN MCDataTypes
==============================================================================
