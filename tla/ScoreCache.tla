------------------------------ MODULE ScoreCache ------------------------------
(***************************************************************************)
(* get_cached_score of risk_engine.rs for one CVE id: read under the read  *)
(* lock, compute from the caller's signal, insert under the write lock.    *)
(* The id is the whole key, so the callers share the entry whatever        *)
(* signals they bring.                                                     *)
(***************************************************************************)
EXTENDS Integers, SequencesExt

CONSTANTS
  Readers,      (* callers of get_cached_score                               *)
  ScoreValues,  (* bound: scores a signal may have                           *)
  TTL,          (* of an entry: one hour in the code                         *)
  MaxHistory    (* MAX_HISTORY_PER_CVE: 100 in the code                      *)

ASSUME CacheAssumption ==
  ScoreValues \subseteq Nat /\ TTL \in Nat \ {0} /\ MaxHistory \in Nat \ {0}

VARIABLES
  current,   (* the score of the signal that callers bring now               *)
  pending,   (* per caller: the score it computed and will insert, or -1     *)
  entry,     (* [score, age] in the cache, score -1 for none                 *)
  snapshots, (* history of the CVE                                           *)
  calm       (* history: time since the signal changed, since an insert of   *)
             (* another score was pending, up to TTL                         *)

cacheVars == <<current, pending, entry, snapshots, calm>>

NoEntry == [score |-> -1, age |-> 0]

CacheInit ==
  /\ current \in ScoreValues
  /\ pending = [r \in Readers |-> -1] /\ entry = NoEntry
  /\ snapshots = <<>> /\ calm = TTL
-----------------------------------------------------------------------------
(* Time is counted up to the life of an entry.                               *)
Capped(n) == IF n > TTL THEN TTL ELSE n

Fresh(e) == e.score # -1 /\ e.age < TTL

(* Faulty: a hit starts the time of the entry again.                         *)
HitRenews(r) ==
  /\ pending[r] = -1 /\ Fresh(entry)
  /\ entry' = [entry EXCEPT !.age = 0]
  /\ UNCHANGED <<current, pending, snapshots, calm>>

Hit(r) == pending[r] = -1 /\ Fresh(entry) /\ UNCHANGED cacheVars

(* The read lock is dropped before the write lock is asked for.              *)
Miss(r) ==
  /\ pending[r] = -1 /\ ~Fresh(entry)
  /\ pending' = [pending EXCEPT ![r] = current]
  /\ UNCHANGED <<current, entry, snapshots, calm>>

Insert(r) ==
  /\ pending[r] # -1
  /\ entry' = [score |-> pending[r], age |-> 0]
  /\ snapshots' = Append(IF Len(snapshots) >= MaxHistory THEN Tail(snapshots) ELSE snapshots,
                         pending[r])
  /\ pending' = [pending EXCEPT ![r] = -1]
  /\ calm' = IF pending[r] = current THEN calm ELSE 0
  /\ UNCHANGED current

ClearExpired ==
  /\ entry' = IF Fresh(entry) THEN entry ELSE NoEntry
  /\ UNCHANGED <<current, pending, snapshots, calm>>

SignalChanges ==
  /\ \E s \in ScoreValues \ {current} : current' = s
  /\ calm' = 0
  /\ UNCHANGED <<pending, entry, snapshots>>

CacheTick ==
  /\ entry' = IF entry.score = -1 THEN entry ELSE [entry EXCEPT !.age = Capped(@ + 1)]
  /\ calm' = IF \E r \in Readers : pending[r] \notin {-1, current} THEN 0 ELSE Capped(calm + 1)
  /\ UNCHANGED <<current, pending, snapshots>>

CacheNext ==
  \/ \E r \in Readers : Hit(r) \/ Miss(r) \/ Insert(r)
  \/ ClearExpired \/ SignalChanges \/ CacheTick
-----------------------------------------------------------------------------
(* Once no signal changed and no late insert came for the life of an entry,  *)
(* what a caller is served is the score of its own signal, and the history   *)
(* of the CVE ends with the score that is served.                            *)
(* (risk_engine.rs get_cached_score, clear_expired)                          *)
ScoresCatchUp ==
  Fresh(entry) =>
    /\ calm = TTL => entry.score = current
    /\ Last(snapshots) = entry.score
=============================================================================
