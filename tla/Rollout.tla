------------------------------ MODULE Rollout ------------------------------
(***************************************************************************)
(* The progressive rollout of a patch: CanaryDeployment.roll_forward       *)
(* (orchestrator/canary.py) deploys one ring of hosts after the other,     *)
(* RescanVerifier.verify (ingestion/rescan_verifier.py) rescans the hosts  *)
(* of a ring before the next, and DualSlotManager                          *)
(* (execution_engine/ab_rollback.py) switches an image between two slots.  *)
(* An operator drives them as their docstrings and tests say: deploy a     *)
(* ring, verify each host of it, and pass what came of that to the next    *)
(* roll_forward; after a halt, verify again.                               *)
(***************************************************************************)
EXTENDS Integers, FiniteSets

CONSTANTS
  HostCount,  \* the hosts are numbered in the order of available_hosts
  Attempts,   \* retry_attempts of the verifier
  Tag         \* the tags images are promoted to

ASSUME RolloutAssumption ==
  HostCount \in Nat \ {0} /\ Attempts \in Nat \ {0} /\ Tag # {}

VARIABLES
  ring,       \* the start_ring of the operator's next or present roll_forward
  phase,      \* what the operator is at
  host,       \* the host being patched or verified
  attempt,    \* the scans of that host so far
  dirty,      \* verify_failed
  touched,    \* the hosts execute_patch was called for
  fixed,      \* those the patch took effect on
  scanner,    \* "live", or "stub": one that finds nothing
  slots,      \* DualSlotManager.slots
  active,     \* and its active_slot
  serving,    \* history: what served when a tag was last promoted
  undone      \* history: the last call was a rollback

canaryVars == <<ring, phase, host, attempt, dirty, touched, fixed, scanner>>
slotVars == <<slots, active, serving, undone>>
rolloutVars == <<canaryVars, slotVars>>

Host == 1..HostCount
Slot == {"A", "B"}

(* RINGS, in percent.                                                      *)
Percent == [k \in 0..3 |-> <<5, 25, 70, 100>>[k + 1]]

(* _hosts_for_ring: a prefix of the hosts, and never nobody.               *)
RingSize(k) ==
  LET count == (HostCount * Percent[k]) \div 100 IN IF count = 0 THEN 1 ELSE count

Ring(k) == 1..RingSize(k)

Phases == {"ready", "deploying", "verifying", "HALTED", "COMPLETED", "abandoned"}

RolloutTypeOK ==
  /\ ring \in 0..4 /\ phase \in Phases /\ host \in 0..HostCount /\ attempt \in 0..(Attempts - 1)
  /\ dirty \in BOOLEAN
  /\ touched \subseteq Host /\ fixed \subseteq touched
  /\ scanner \in {"live", "stub"}
  /\ slots \in [Slot -> [tag : Tag \cup {"1.0.0"}, healthy : BOOLEAN]] /\ active \in Slot
  /\ serving \in Tag \cup {"1.0.0"} /\ undone \in BOOLEAN

RolloutInit ==
  /\ ring = 0 /\ phase = "ready" /\ host = 0 /\ attempt = 0 /\ dirty = FALSE
  /\ touched = {} /\ fixed = {}
  /\ scanner \in {"live", "stub"}
  /\ slots = [s \in Slot |-> [tag |-> "1.0.0", healthy |-> TRUE]]
  /\ active \in Slot
  /\ serving = "1.0.0" /\ undone = FALSE

----------------------------------------------------------------------------
(* roll_forward(start_ring, verify_failed).                                *)
RollForward ==
  /\ phase = "ready"
  /\ phase' = IF ring = 4 THEN "COMPLETED" ELSE IF dirty THEN "HALTED" ELSE "deploying"
  /\ host' = 0
  /\ UNCHANGED <<ring, attempt, dirty, touched, fixed, scanner, slotVars>>

(* execute_patch of the next host, whose status nobody reads: it may or    *)
(* may not have taken effect.  After the last host the ring is deployed.   *)
PatchHost ==
  /\ phase = "deploying" /\ host < RingSize(ring)
  /\ host' = host + 1
  /\ touched' = touched \cup {host + 1}
  /\ fixed' \in {fixed, fixed \cup {host + 1}}
  /\ UNCHANGED <<ring, phase, attempt, dirty, scanner, slotVars>>

(* Mutant of PatchRaises: the exception only ends the loop.                *)
PatchRaisesCaught ==
  /\ phase = "deploying" /\ host < RingSize(ring)
  /\ ring' = ring + 1 /\ phase' = "verifying"
  /\ host' = 1 /\ attempt' = 0 /\ dirty' = FALSE
  /\ UNCHANGED <<touched, fixed, scanner, slotVars>>

(* It raises, before or after it took effect; the rollout ends there.      *)
PatchRaises ==
  /\ phase = "deploying" /\ host < RingSize(ring)
  /\ phase' = "abandoned"
  /\ touched' = touched \cup {host + 1}
  /\ fixed' \in {fixed, fixed \cup {host + 1}}
  /\ UNCHANGED <<ring, host, attempt, dirty, scanner, slotVars>>

RingDeployed ==
  /\ phase = "deploying" /\ host = RingSize(ring)
  /\ ring' = ring + 1 /\ phase' = "verifying"
  /\ host' = 1 /\ attempt' = 0 /\ dirty' = FALSE
  /\ UNCHANGED <<touched, fixed, scanner, slotVars>>

(* After a halt the operator has the ring before it verified again.        *)
VerifyAgain ==
  /\ phase = "HALTED"
  /\ phase' = "verifying"
  /\ host' = 1 /\ attempt' = 0 /\ dirty' = FALSE
  /\ UNCHANGED <<ring, touched, fixed, scanner, slotVars>>

----------------------------------------------------------------------------
(* What fetch_remote_scan may say of the CVE: a live scanner finds it on a *)
(* host that is not fixed, and for some time after that.                   *)
Scans == IF scanner = "stub" THEN {FALSE} ELSE IF host \in fixed THEN BOOLEAN ELSE {TRUE}

(* verify has decided about the host, and the operator goes on.            *)
Conclude(verified) ==
  /\ dirty' = (dirty \/ ~verified)
  /\ attempt' = 0
  /\ IF host = RingSize(ring - 1) THEN phase' = "ready" /\ host' = 0
                                  ELSE host' = host + 1 /\ UNCHANGED phase

(* Mutant of Rescan: whoever ran out of attempts counts as verified.       *)
RescanTolerant ==
  /\ phase = "verifying"
  /\ \E found \in Scans :
       IF found /\ attempt + 1 < Attempts THEN attempt' = attempt + 1 /\ UNCHANGED <<phase, host, dirty>>
                                          ELSE Conclude(TRUE)
  /\ UNCHANGED <<ring, touched, fixed, scanner, slotVars>>

(* One round of verify: fetch, evaluate, and try again while the CVE is    *)
(* there and attempts are left.                                            *)
Rescan ==
  /\ phase = "verifying"
  /\ \E found \in Scans :
       IF found /\ attempt + 1 < Attempts THEN attempt' = attempt + 1 /\ UNCHANGED <<phase, host, dirty>>
                                          ELSE Conclude(~found)
  /\ UNCHANGED <<ring, touched, fixed, scanner, slotVars>>

(* The fetch raises, and verify with it.                                   *)
RescanRaises ==
  /\ phase = "verifying"
  /\ phase' = "abandoned"
  /\ UNCHANGED <<ring, host, attempt, dirty, touched, fixed, scanner, slotVars>>

----------------------------------------------------------------------------
Inactive == IF active = "A" THEN "B" ELSE "A"

(* The new tag goes to the slot that serves nothing.  Traffic stays where  *)
(* it is until the slot is confirmed.                                      *)
Promote(tag) ==
  /\ slots' = [slots EXCEPT ![Inactive] = [tag |-> tag, healthy |-> FALSE]]
  /\ serving' = slots[active].tag /\ undone' = FALSE
  /\ UNCHANGED <<active, canaryVars>>

(* confirm(), or confirm(slot): traffic goes to the slot.                  *)
Confirm(slot) ==
  /\ slots' = [slots EXCEPT ![slot].healthy = TRUE]
  /\ active' = slot /\ undone' = FALSE
  /\ UNCHANGED <<serving, canaryVars>>

(* The slot that serves nothing is failed, whichever was promoted last.    *)
Rollback ==
  /\ slots' = [slots EXCEPT ![Inactive].healthy = FALSE]
  /\ undone' = TRUE
  /\ UNCHANGED <<active, serving, canaryVars>>

RolloutNext ==
  \/ RollForward \/ PatchHost \/ PatchRaises \/ RingDeployed \/ VerifyAgain
  \/ Rescan \/ RescanRaises
  \/ \E tag \in Tag : Promote(tag)
  \/ \E slot \in Slot : Confirm(slot)
  \/ Rollback

RolloutSpec == RolloutInit /\ [][RolloutNext]_rolloutVars

----------------------------------------------------------------------------
(* "Advance rings after each successful verification": with a scanner that *)
(* looks, no host outside a ring is patched before every host of the ring  *)
(* is fixed, whatever answers of execute_patch went unread                 *)
(* (roll_forward, verify).                                                 *)
AdvancesOnlyVerified ==
  [][scanner = "live" /\ touched' # touched /\ ring > 0 => Ring(ring - 1) \subseteq fixed]_rolloutVars

(* A rollout never touches a host beyond the ring it is at, not when it    *)
(* halts or a host raises either, and before it halts or goes on it has    *)
(* tried every host of the ring before (roll_forward).                     *)
BlastRadius ==
  /\ phase \in {"ready", "verifying", "HALTED"} =>
       IF ring = 0 THEN touched = {} ELSE touched = Ring(ring - 1)
  /\ touched \subseteq Ring(IF ring = 4 THEN 3 ELSE ring)

(* "Fail the promoted slot and restore traffic to the previous slot"       *)
(* (DualSlotManager.rollback): after a rollback the tag serves that served *)
(* when the last one was promoted.                                         *)
RollbackRestores == undone => slots[active].tag = serving
=============================================================================
