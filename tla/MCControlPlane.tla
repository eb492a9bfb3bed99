--------------------------- MODULE MCControlPlane ---------------------------
(***************************************************************************)
(* The smaller parts of the control plane on small instances.  They share  *)
(* no state and call none of each other's code, so that their interleaving *)
(* shows nothing: a behavior takes the steps of one part, chosen at its    *)
(* start, and the others rest.                                             *)
(***************************************************************************)
EXTENDS ApprovalChannel, Rollout, Outbound, KevFeed

CONSTANTS plan1  \* the plan the cards are about

VARIABLE part

vars == <<part, channelVars, rolloutVars, outboundVars, feedVars>>

(* The two buttons of a Teams card, one of an Outlook card, and one whose  *)
(* signature is that of another secret.                                    *)
ButtonOf(channel, decision, genuine) ==
  [plan |-> plan1, channel |-> channel, decision |-> decision, genuine |-> genuine]

MCButton ==
  {ButtonOf("TEAMS_BOT", "APPROVED", TRUE), ButtonOf("OUTLOOK", "REJECTED", TRUE),
   ButtonOf("TEAMS_BOT", "APPROVED", FALSE)}

(* The rollout alone starts in more than one state.                        *)
Init ==
  /\ part \in {"channel", "rollout", "outbound", "feed"}
  /\ ChannelInit /\ RolloutInit /\ OutboundInit /\ FeedInit
  /\ part # "rollout" => scanner = "live" /\ active = "A"

Next ==
  /\ UNCHANGED part
  /\ \/ part = "channel" /\ ChannelNext /\ UNCHANGED <<rolloutVars, outboundVars, feedVars>>
     \/ part = "rollout" /\ RolloutNext /\ UNCHANGED <<channelVars, outboundVars, feedVars>>
     \/ part = "outbound" /\ OutboundNext /\ UNCHANGED <<channelVars, rolloutVars, feedVars>>
     \/ part = "feed" /\ FeedNext /\ UNCHANGED <<channelVars, rolloutVars, outboundVars>>

Spec == Init /\ [][Next]_vars /\ ChannelFairness
=============================================================================
