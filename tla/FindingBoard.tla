----------------------------- MODULE FindingBoard -----------------------------
(***************************************************************************)
(* FindingStore of state.rs, a ring of the latest findings, and the two    *)
(* ways to it: the pages of the REST API (api/findings.rs) and the Slack   *)
(* commands (slack_commands.rs). Each request takes the lock by itself, so *)
(* the store moves between the pages of a listing.                         *)
(***************************************************************************)
EXTENDS Naturals, Sequences, FiniteSets

CONSTANTS
  MaxFindings,  (* of the ring: 10000 in the code                            *)
  MaxPerPage,   (* cap of per_page: 200 in the code                          *)
  PageSizes,    (* bound: the per_page values that clients ask for           *)
  MaxInserts    (* bound: findings inserted in all                           *)

ASSUME BoardAssumption ==
  MaxFindings \in Nat \ {0} /\ MaxPerPage \in Nat \ {0}
    /\ PageSizes \subseteq Nat \ {0} /\ MaxInserts \in Nat

VARIABLES
  findings,  (* the ring, oldest first: [id, priority, acknowledged]         *)
  inserted,  (* findings inserted so far; the next id                        *)
  offered,   (* ids with an "Acknowledge" button in the Slack channel        *)
  walk       (* a client that reads a listing page by page                   *)

boardVars == <<findings, inserted, offered, walk>>

(* priority: the filter. page: the next one. seen: history, ids shown.       *)
(* evicted: history, findings of the filter that the ring evicted meanwhile. *)
(* repeated: history, whether a page showed an id again. ended: the client   *)
(* got a page that was not full and stopped.                                 *)
Walk(priority, per_page) == [priority |-> priority, per_page |-> per_page, page |-> 1,
                             seen |-> {}, evicted |-> 0, repeated |-> FALSE, ended |-> FALSE]

BoardInit ==
  /\ findings = <<>> /\ inserted = 0 /\ offered = {}
  /\ walk \in {Walk(p, n) : p \in {"any", "High"}, n \in PageSizes}
-----------------------------------------------------------------------------
Matches(f, priority) == priority = "any" \/ f.priority = priority

(* The findings of a filter, and the place of one among them.                *)
Filtered(priority) == {i \in DOMAIN findings : Matches(findings[i], priority)}

Place(i, priority) == Cardinality({j \in Filtered(priority) : j <= i})

(* insert, which the pipeline does not call: the oldest makes room.          *)
InsertFinding(priority) ==
  LET full == Len(findings) >= MaxFindings
      kept == IF full THEN Tail(findings) ELSE findings
  IN
    /\ inserted < MaxInserts
    /\ inserted' = inserted + 1
    /\ findings' = Append(kept, [id |-> inserted, priority |-> priority, acknowledged |-> FALSE])
    /\ walk' = [walk EXCEPT !.evicted =
         @ + (IF full /\ Matches(findings[1], walk.priority) THEN 1 ELSE 0)]
    /\ UNCHANGED offered

PageLimit(w) == IF w.per_page < MaxPerPage THEN w.per_page ELSE MaxPerPage

Offset(w) == (w.page - 1) * PageLimit(w)

Shown(w) ==
  {findings[i].id : i \in {j \in Filtered(w.priority) :
     Offset(w) < Place(j, w.priority) /\ Place(j, w.priority) <= Offset(w) + PageLimit(w)}}

(* list_findings.                                                            *)
ListFindings ==
  /\ ~walk.ended
  /\ walk' = [priority |-> walk.priority, per_page |-> walk.per_page, page |-> walk.page + 1,
              seen |-> walk.seen \union Shown(walk), evicted |-> walk.evicted,
              repeated |-> walk.repeated \/ Shown(walk) \cap walk.seen # {},
              ended |-> Cardinality(Shown(walk)) < PageLimit(walk)]
  /\ UNCHANGED <<findings, inserted, offered>>

Acknowledged(id) ==
  [i \in 1 .. Len(findings) |->
     IF findings[i].id = id THEN [findings[i] EXCEPT !.acknowledged = TRUE] ELSE findings[i]]

(* acknowledge_finding: an id that left the ring is answered with 404.       *)
AcknowledgeFinding(id) ==
  /\ findings' = Acknowledged(id)
  /\ UNCHANGED <<inserted, offered, walk>>

(* "/scanner findings": the first five of the ring, which are the oldest.    *)
SlackList(priority) ==
  /\ offered' = {findings[i].id : i \in {j \in Filtered(priority) : Place(j, priority) <= 5}}
  /\ UNCHANGED <<findings, inserted, walk>>

(* The button of a message posted earlier; the answer is the same whether    *)
(* the finding is still there or not.                                        *)
SlackAcknowledge ==
  /\ \E id \in offered : findings' = Acknowledged(id)
  /\ UNCHANGED <<inserted, offered, walk>>

BoardNext ==
  \/ \E p \in {"Critical", "High"} : InsertFinding(p)
  \/ ListFindings
  \/ \E id \in 0 .. MaxInserts : AcknowledgeFinding(id)
  \/ \E p \in {"any", "High"} : SlackList(p)
  \/ SlackAcknowledge

BoardSpec == BoardInit /\ [][BoardNext]_boardVars
-----------------------------------------------------------------------------
(* A listing read page by page shows no finding twice, and of the findings   *)
(* still in the ring it passed over no more than the ring evicted while it   *)
(* was read: each eviction moves one finding to a page already read.         *)
(* (state.rs insert, api/models.rs offset and limit, api/findings.rs)        *)
PagesLoseOnlyToEviction ==
  LET passed == {i \in Filtered(walk.priority) :
                   Place(i, walk.priority) <= Offset(walk) /\ findings[i].id \notin walk.seen}
  IN ~walk.repeated /\ (~walk.ended => Cardinality(passed) <= walk.evicted)
=============================================================================
