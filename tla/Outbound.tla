------------------------------ MODULE Outbound ------------------------------
(***************************************************************************)
(* What the control plane tells others: NotificationService                *)
(* (integrations/notifier.py) with the configurations the API keeps for it *)
(* (api/v1/notifications.py), both dictionaries of the process, and the    *)
(* tickets that jira_connector.py and servicenow_connector.py open and     *)
(* record in itsm_tickets.                                                 *)
(***************************************************************************)
EXTENDS Naturals, FiniteSets

CONSTANTS
  Name,        \* names of configurations; clients may send to others too
  Url,         \* where channels lead
  None,        \* no channel
  Caller,      \* the callers of notify
  Vulnerability, \* what tickets are opened for
  MaxTickets,  \* bound: how many tickets are opened
  MaxRestarts  \* bound: how often the process dies

ASSUME OutboundAssumption ==
  None \notin Url \cup Name /\ MaxTickets \in Nat /\ MaxRestarts \in Nat

VARIABLES
  configs,     \* _notification_configs, by name
  channels,    \* NotificationService.channels
  calls,       \* the calls of notify
  delivered,   \* history: what arrived, by caller and name, and where
  syncs,       \* the sync_* calls between the ticket and its row
  tickets,     \* the tickets in Jira and ServiceNow
  rows,        \* itsm_tickets
  restarts

outboundVars == <<configs, channels, calls, delivered, syncs, tickets, rows, restarts>>

NoCall == [todo |-> {}, at |-> None, to |-> None, asked |-> {}, results |-> <<>>, busy |-> FALSE]

CallOfNotify == [todo : SUBSET Name, at : Name \cup {None}, to : Url \cup {None}, asked : SUBSET Name,
                 results : UNION {[S -> BOOLEAN] : S \in SUBSET Name}, busy : BOOLEAN]

Ticket == [id : 1..MaxTickets, of : Vulnerability]

OutboundTypeOK ==
  /\ configs \in [Name -> Url \cup {None}] /\ channels \in [Name -> Url \cup {None}]
  /\ calls \in [Caller -> CallOfNotify]
  /\ delivered \subseteq Caller \X Name \X Url
  /\ syncs \subseteq Ticket /\ rows \subseteq Ticket /\ tickets \subseteq Ticket
  /\ restarts \in 0..MaxRestarts

OutboundInit ==
  /\ configs = [n \in Name |-> None] /\ channels = [n \in Name |-> None]
  /\ calls = [c \in Caller |-> NoCall] /\ delivered = {}
  /\ syncs = {} /\ tickets = {} /\ rows = {}
  /\ restarts = 0

----------------------------------------------------------------------------
(* _get_service: configurations without a channel get theirs.              *)
WithChannels(cfgs) == [n \in Name |-> IF channels[n] = None THEN cfgs[n] ELSE channels[n]]

(* register_webhook, register_slack, register_teams: 409 for a known name. *)
RegisterConfig(n, url) ==
  /\ configs[n] = None
  /\ configs' = [configs EXCEPT ![n] = url]
  /\ channels' = WithChannels(configs')
  /\ UNCHANGED <<calls, delivered, syncs, tickets, rows, restarts>>

DeleteConfig(n) ==
  /\ configs[n] # None
  /\ configs' = [configs EXCEPT ![n] = None]
  /\ channels' = [channels EXCEPT ![n] = None]
  /\ UNCHANGED <<calls, delivered, syncs, tickets, rows, restarts>>

----------------------------------------------------------------------------
(* notify begins: it sends to the names it is given, or else to all there  *)
(* are; the names of the channels are taken now.                           *)
Notify(c, names) ==
  /\ ~calls[c].busy
  /\ channels' = WithChannels(configs)
  /\ LET all == {n \in Name : channels'[n] # None}
         targets == IF names = {} THEN all ELSE names
     IN calls' = [calls EXCEPT ![c] = [todo |-> targets, at |-> None, to |-> None, asked |-> targets,
                                      results |-> <<>>, busy |-> TRUE]]
  /\ delivered' = {d \in delivered : d[1] # c}
  /\ UNCHANGED <<configs, syncs, tickets, rows, restarts>>

Result(c, n, ok) == [m \in DOMAIN calls[c].results \cup {n} |-> IF m = n THEN ok ELSE calls[c].results[m]]

(* The loop of notify goes on with these.                                  *)
Continues(c, todo, at, to, results) ==
  calls' = [calls EXCEPT ![c] = [todo |-> todo, at |-> at, to |-> to, asked |-> @.asked,
                                 results |-> results, busy |-> @.busy]]

(* A name nobody has a channel for is a failure, without a wait.           *)
SkipMissing(c, n) ==
  /\ n \in calls[c].todo /\ calls[c].at = None /\ channels[n] = None
  /\ Continues(c, calls[c].todo \ {n}, None, None, Result(c, n, FALSE))
  /\ UNCHANGED <<configs, channels, delivered, syncs, tickets, rows, restarts>>

(* channel.send: the channel the name has now is used, whatever becomes of *)
(* the configuration while it sends.                                       *)
StartSend(c, n) ==
  /\ n \in calls[c].todo /\ calls[c].at = None /\ channels[n] # None
  /\ Continues(c, calls[c].todo \ {n}, n, channels[n], calls[c].results)
  /\ UNCHANGED <<configs, channels, delivered, syncs, tickets, rows, restarts>>

(* The answer is good, or there is none within 10 s, or a bad one: both    *)
(* after the message arrived or not.  send never raises.                   *)
Mailed(c) == delivered' = delivered \cup {<<c, calls[c].at, calls[c].to>>}

(* Mutant of SendFails: the first failure ends the call.                   *)
SendFailsForAll(c) ==
  /\ calls[c].at # None
  /\ Mailed(c) \/ UNCHANGED delivered
  /\ Continues(c, {}, None, None, Result(c, calls[c].at, FALSE))
  /\ UNCHANGED <<configs, channels, syncs, tickets, rows, restarts>>

SendFails(c) ==
  /\ calls[c].at # None
  /\ Mailed(c) \/ UNCHANGED delivered
  /\ Continues(c, calls[c].todo, None, None, Result(c, calls[c].at, FALSE))
  /\ UNCHANGED <<configs, channels, syncs, tickets, rows, restarts>>

SendSucceeds(c) ==
  /\ calls[c].at # None
  /\ Mailed(c)
  /\ Continues(c, calls[c].todo, None, None, Result(c, calls[c].at, TRUE))
  /\ UNCHANGED <<configs, channels, syncs, tickets, rows, restarts>>

(* notify returns its results.                                             *)
Returns(c) ==
  /\ calls[c].busy /\ calls[c].todo = {} /\ calls[c].at = None
  /\ calls' = [calls EXCEPT ![c].busy = FALSE]
  /\ UNCHANGED <<configs, channels, delivered, syncs, tickets, rows, restarts>>

----------------------------------------------------------------------------
(* sync_jira_ticket and sync_servicenow_change_request: the ticket is      *)
(* opened first and its row committed after it.                            *)
NextTicket(v) == [id |-> Cardinality(tickets) + 1, of |-> v]

OpenTicket(v) ==
  /\ Cardinality(tickets) < MaxTickets
  /\ tickets' = tickets \cup {NextTicket(v)} /\ syncs' = syncs \cup {NextTicket(v)}
  /\ UNCHANGED <<configs, channels, calls, delivered, rows, restarts>>

(* The answer is lost after the ticket was opened, and nothing recorded.   *)
(* (An answer that is an error changes nothing.)                           *)
OpenFails(v) ==
  /\ Cardinality(tickets) < MaxTickets
  /\ tickets' = tickets \cup {NextTicket(v)}
  /\ UNCHANGED <<configs, channels, calls, delivered, syncs, rows, restarts>>

RecordTicket(t) ==
  /\ t \in syncs
  /\ syncs' = syncs \ {t} /\ rows' = rows \cup {t}
  /\ UNCHANGED <<configs, channels, calls, delivered, tickets, restarts>>

RecordFails(t) ==
  /\ t \in syncs
  /\ syncs' = syncs \ {t}
  /\ UNCHANGED <<configs, channels, calls, delivered, tickets, rows, restarts>>

(* The process dies, and with it all but the tickets and their rows.       *)
Dies ==
  /\ restarts < MaxRestarts /\ restarts' = restarts + 1
  /\ configs' = [n \in Name |-> None] /\ channels' = [n \in Name |-> None]
  /\ calls' = [c \in Caller |-> NoCall] /\ syncs' = {}
  /\ UNCHANGED <<delivered, tickets, rows>>

OutboundStep(c) ==
  \/ \E n \in Name : SkipMissing(c, n) \/ StartSend(c, n)
  \/ SendFails(c) \/ SendSucceeds(c) \/ Returns(c)

OutboundNext ==
  \/ \E n \in Name : (\E url \in Url : RegisterConfig(n, url)) \/ DeleteConfig(n)
  \/ \E c \in Caller : (\E names \in SUBSET Name : Notify(c, names)) \/ OutboundStep(c)
  \/ \E v \in Vulnerability : OpenTicket(v) \/ OpenFails(v)
  \/ \E t \in syncs : RecordTicket(t) \/ RecordFails(t)
  \/ Dies

OutboundSpec == OutboundInit /\ [][OutboundNext]_outboundVars

----------------------------------------------------------------------------
(* However configurations come, go and come back under the same name, the  *)
(* service sends to where they lead now, and to nothing that was deleted   *)
(* (delete_notification_config, _get_service).                             *)
ChannelsFollowConfigs == channels = configs

(* notify has tried every target when it returns, the ones after a failure *)
(* too, what it reports as sent has arrived, and meanwhile nothing is sent *)
(* to a place whose configuration is gone (NotificationService.notify).    *)
EveryTargetIsTried ==
  /\ ChannelsFollowConfigs
  /\ \A c \in Caller :
       LET call == calls[c] IN
       /\ call.todo = {} /\ call.at = None => DOMAIN call.results = call.asked
       /\ \A n \in DOMAIN call.results :
            call.results[n] => \E url \in Url : <<c, n, url>> \in delivered

(* A row of itsm_tickets is about a ticket that exists, of the same        *)
(* vulnerability (sync_jira_ticket, sync_servicenow_change_request).       *)
RowsAreTickets == rows \subseteq tickets
=============================================================================
