--------------------------- MODULE TrafficEnforcer ---------------------------
(***************************************************************************)
(* The traffic enforcer of tc_enforcer.rs and the threat feed next to it.  *)
(* A block lives in three places, two kernel maps and a set of the         *)
(* enforcer, and is written to one after the other; a quarantine lives in  *)
(* a kernel map and a set, and starts a task that waits and then tries to  *)
(* end it. Every operation takes the enforcer exclusively, so it is one    *)
(* step; what can fail half way is a write to a map.                       *)
(***************************************************************************)
EXTENDS Naturals, FiniteSets, SequencesExt

CONSTANTS
  Addresses, Domains, Ports, Cgroups,
  Slots,          (* entries each kernel map has room for                    *)
  MaxTimers       (* bound: quarantine timers of a cgroup at a time          *)

(* XDP_BLOCKED_IPS, BLOCKED_IPS and DENYLIST                                 *)
Maps == {"xdp", "tc", "deny"}

ASSUME TrafficAssumption ==
  /\ IsFiniteSet(Addresses) /\ IsFiniteSet(Cgroups)
  /\ Slots \in [Maps -> Nat] /\ MaxTimers \in Nat

VARIABLES
  loaded,       (* bpf and bpf_path are given                                *)
  defined,      (* the maps that the loaded object defines                   *)
  rules,        (* the maps and the enforcer's sets, see NoRules             *)
  timers,       (* tasks that wait to end a quarantine, per cgroup           *)
  feed,         (* ThreatIntelFeed: known_bad_ips and known_bad_domains      *)
  released      (* history: cgroups released since they were quarantined     *)

trafficVars == <<loaded, defined, rules, timers, feed, released>>

(* failed: history, the addresses of which the last thing a caller heard was *)
(* that they could not be blocked.                                           *)
NoRules == [xdp |-> {}, tc |-> {}, deny |-> {}, ips |-> {}, ports |-> {},
            domains |-> {}, cgroups |-> {}, failed |-> {}]

TrafficInit ==
  /\ loaded \in BOOLEAN
  /\ defined \in SUBSET Maps
  /\ rules = NoRules
  /\ timers = [c \in Cgroups |-> 0]
  /\ feed = [ips |-> {}, domains |-> {}]
  /\ released = {}
-----------------------------------------------------------------------------
Accepts(r, map, key) ==
  map \in defined /\ (key \in r[map] \/ Cardinality(r[map]) < Slots[map])

(* block_ip: xdp, then tc, then the set; an error leaves what was written.   *)
BlockIp(r, ip) ==
  IF ~loaded \/ ~Accepts(r, "xdp", ip) THEN [r EXCEPT !.failed = @ \union {ip}]
  ELSE IF ~Accepts(r, "tc", ip)
       THEN [r EXCEPT !.xdp = @ \union {ip}, !.failed = @ \union {ip}]
       ELSE [r EXCEPT !.xdp = @ \union {ip}, !.tc = @ \union {ip},
                      !.ips = @ \union {ip}, !.failed = @ \ {ip}]

(* Faulty: an address is taken out of the set and of xdp, and left in tc.    *)
RemoveIpsOnce(r, ips) ==
  IF ~loaded THEN [r EXCEPT !.ips = @ \ ips, !.failed = @ \ ips]
  ELSE IF "xdp" \notin defined THEN r
  ELSE [r EXCEPT !.xdp = @ \ ips, !.ips = @ \ ips, !.failed = @ \ ips]

(* What remove does once the object is loaded: a missing xdp map is an error *)
(* before anything is removed, a missing tc map one after the first removal. *)
RemoveIps(r, ips) ==
  IF ~loaded THEN [r EXCEPT !.ips = @ \ ips, !.failed = @ \ ips]
  ELSE IF "xdp" \notin defined THEN r
  ELSE IF "tc" \notin defined THEN [r EXCEPT !.xdp = @ \ ips]
       ELSE [r EXCEPT !.xdp = @ \ ips, !.tc = @ \ ips, !.ips = @ \ ips, !.failed = @ \ ips]

BlockIndicator(r, indicator) ==
  CASE indicator[1] = "ip" -> BlockIp(r, indicator[2])
    [] indicator[1] = "domain" -> [r EXCEPT !.domains = @ \union {indicator[2]}]
    [] indicator[1] = "port" -> [r EXCEPT !.ports = @ \union {indicator[2]}]

Keep == UNCHANGED <<loaded, defined>>

Block(ip) ==
  /\ rules' = BlockIp(rules, ip)
  /\ UNCHANGED <<timers, feed, released>> /\ Keep

(* The rules after each of the indicators.                                   *)
AfterIndicators(r, indicators) ==
  LET after[n \in 0 .. Len(indicators)] ==
        IF n = 0 THEN r ELSE BlockIndicator(after[n - 1], indicators[n])
  IN  after[Len(indicators)]

(* block_c2_indicators: one after the other, an error does not stop it.      *)
BlockIndicators(indicators) ==
  /\ rules' = AfterIndicators(rules, indicators)
  /\ UNCHANGED <<timers, feed, released>> /\ Keep

Unblock(ip) ==
  /\ rules' = RemoveIps(rules, {ip})
  /\ UNCHANGED <<timers, feed, released>> /\ Keep

(* flush_all: removes what the set names; ports and domains go only when    *)
(* both maps were there, and quarantines stay.                              *)
Flush ==
  /\ rules' = IF loaded /\ ~({"xdp", "tc"} \subseteq defined)
              THEN RemoveIps(rules, rules.ips)
              ELSE [RemoveIps(rules, rules.ips) EXCEPT !.ports = {}, !.domains = {}]
  /\ UNCHANGED <<timers, feed, released>> /\ Keep
-----------------------------------------------------------------------------

Quarantine(c) ==
  /\ timers[c] < MaxTimers
  /\ IF loaded /\ ~Accepts(rules, "deny", c)
     THEN UNCHANGED <<rules, timers, released>>
     ELSE /\ rules' = [rules EXCEPT !.deny = IF loaded THEN @ \union {c} ELSE @,
                                    !.cgroups = @ \union {c}]
          /\ timers' = [timers EXCEPT ![c] = @ + 1]
          /\ released' = released \ {c}
  /\ UNCHANGED feed /\ Keep

(* The task has waited. It loads the object file anew, which gives it maps   *)
(* of its own, and removes the cgroup from those; the loaded ones stay.      *)
TimerFires(c) ==
  /\ timers[c] > 0
  /\ timers' = [timers EXCEPT ![c] = @ - 1]
  /\ UNCHANGED <<rules, feed, released>> /\ Keep

(* unquarantine_workload: the denylist forgets, quarantined_cgroups does not.*)
Release(c) ==
  /\ IF loaded /\ ("deny" \notin defined \/ c \notin rules.deny)
     THEN UNCHANGED <<rules, released>>
     ELSE /\ rules' = [rules EXCEPT !.deny = @ \ {c}]
          /\ released' = released \union {c}
  /\ UNCHANGED <<timers, feed>> /\ Keep
-----------------------------------------------------------------------------
(* ThreatIntelFeed.update: what the source lists is added; a port is counted *)
(* and dropped.                                                              *)
FeedUpdate(ips, domains) ==
  /\ feed' = [ips |-> feed.ips \union ips, domains |-> feed.domains \union domains]
  /\ UNCHANGED <<rules, timers, released>> /\ Keep

(* get_indicators: the addresses, in any order, and then the domains.        *)
Indicators ==
  { l[1] \o l[2] : l \in SetToSeqs({<<"ip", a>> : a \in feed.ips})
                        \X SetToSeqs({<<"domain", d>> : d \in feed.domains}) }

TrafficNext ==
  \/ \E ip \in Addresses : Block(ip) \/ Unblock(ip)
  \/ \E indicators \in Indicators : BlockIndicators(indicators)
  \/ \E p \in Ports : BlockIndicators(<<<<"port", p>>>>)
  \/ Flush
  \/ \E c \in Cgroups : Quarantine(c) \/ TimerFires(c) \/ Release(c)
  \/ \E ip \in Addresses, d \in Domains : FeedUpdate({ip}, {d})

TrafficSpec == TrafficInit /\ [][TrafficNext]_trafficVars
-----------------------------------------------------------------------------
(* What the enforcer says of an address is true of both maps: one it lists  *)
(* is dropped by both, one whose block failed is not listed, and what a map  *)
(* drops without being listed only XDP drops, and the last caller who asked  *)
(* for that heard of a failure and nobody removed it since. Those addresses  *)
(* stay when flush_all answers that all rules are gone (tc_enforcer.rs:314). *)
(* (block_ip, unblock_ip, block_c2_indicators, flush_all)                    *)
DroppedAsListed ==
  loaded => /\ rules.tc = rules.ips
            /\ rules.ips \subseteq rules.xdp
            /\ rules.xdp \ rules.ips \subseteq rules.failed
            /\ rules.ips \intersect rules.failed = {}

(* No quarantine ends early, also when an older one of the same cgroup runs  *)
(* out first: while a timer waits the cgroup is denied, or was released. And *)
(* none is denied that was not quarantined, or was released since. What the  *)
(* last timer owes is left open: a comment has it remove the entry           *)
(* (tc_enforcer.rs:216), which it does in a map nobody uses.                 *)
(* (quarantine_workload, unquarantine_workload)                              *)
DeniedWhileQuarantined ==
  loaded => /\ \A c \in Cgroups : timers[c] > 0 => c \in rules.deny \union released
            /\ rules.deny \subseteq rules.cgroups \ released

(* The two together: the kernel does what the enforcer says it does, whatever *)
(* map filled up or failed in between.                                        *)
BlocksHold == DroppedAsListed /\ DeniedWhileQuarantined
=============================================================================
