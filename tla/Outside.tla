------------------------------ MODULE Outside ------------------------------
(***************************************************************************)
(* The parts of the program that deal with the world outside a workspace:  *)
(* outreach to publishers, the connectors that collect from providers, the *)
(* writes to a content system and to IndexNow, the capture of a page in a  *)
(* browser, the observations that `monitor` compares, the sitemaps of an   *)
(* origin, the client of MCP servers, and the budget of collections.       *)
(*                                                                         *)
(* They share nothing but the run packages, so they are looked at one at a *)
(* time: `focus` says which of them is in use in a behaviour, and the      *)
(* others stay as they were.                                               *)
(***************************************************************************)
EXTENDS Outreach, Connections, Publishing, Monitoring, Journey,
        SitemapTopology, McpSession, CollectionBudget

VARIABLE focus

sourceVars  == <<topologyVars, sessionVars, budgetVars>>
outsideVars == <<focus, outreachVars, connectVars, publishVars, monitorVars, journeyVars, sourceVars>>

OutsideInit ==
  /\ focus \in {"campaign", "prospect", "link", "connectors", "content", "indexnow", "monitor", "journey",
               "sitemaps", "session", "budget"}
  /\ OutreachInit
  /\ ConnectInit /\ (focus # "connectors" => stock = CHOOSE s \in Stocks : TRUE)
  /\ PublishInit
  /\ MonitoringInit
  /\ JourneyInit /\ (focus # "journey" => plan = CHOOSE p \in JourneyPlans : TRUE)
  /\ TopologyInit /\ (focus # "sitemaps" => origin = 1)
  /\ SessionInit
  /\ BudgetInit

OutreachInUse ==
  /\ \/ focus = "campaign" /\ CampaignNext
     \/ focus = "prospect" /\ ProspectNext
     \/ focus = "link"     /\ LinkNext
  /\ UNCHANGED <<focus, connectVars, publishVars, monitorVars, journeyVars, sourceVars>>

ConnectorsInUse ==
  /\ focus = "connectors" /\ ConnectNext
  /\ UNCHANGED <<focus, outreachVars, publishVars, monitorVars, journeyVars, sourceVars>>

PublishingInUse ==
  /\ \/ focus = "content"  /\ CmsNext
     \/ focus = "indexnow" /\ IndexNowNext
  /\ UNCHANGED <<focus, outreachVars, connectVars, monitorVars, journeyVars, sourceVars>>

MonitorInUse ==
  /\ focus = "monitor" /\ MonitoringNext
  /\ UNCHANGED <<focus, outreachVars, connectVars, publishVars, journeyVars, sourceVars>>

JourneyInUse ==
  /\ focus = "journey" /\ JourneyNext
  /\ UNCHANGED <<focus, outreachVars, connectVars, publishVars, monitorVars, sourceVars>>

SourcesInUse ==
  /\ \/ focus = "sitemaps" /\ TopologyNext /\ UNCHANGED <<sessionVars, budgetVars>>
     \/ focus = "session"  /\ SessionNext  /\ UNCHANGED <<topologyVars, budgetVars>>
     \/ focus = "budget"   /\ BudgetNext   /\ UNCHANGED <<topologyVars, sessionVars>>
  /\ UNCHANGED <<focus, outreachVars, connectVars, publishVars, monitorVars, journeyVars>>

OutsideNext == OutreachInUse \/ ConnectorsInUse \/ PublishingInUse \/ MonitorInUse \/ JourneyInUse \/ SourcesInUse

OutsideSpec == OutsideInit /\ [][OutsideNext]_outsideVars
=============================================================================
