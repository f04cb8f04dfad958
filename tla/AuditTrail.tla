------------------------------ MODULE AuditTrail ------------------------------
(***************************************************************************)
(* AuditLogger of audit_trail.rs: a file per day, an event per line. The   *)
(* event and the end of its line are two writes, and nothing keeps two     *)
(* tasks, or the process before and after a crash, apart.                  *)
(***************************************************************************)
EXTENDS Integers, Sequences

CONSTANTS
  Loggers,     (* tasks that log                                             *)
  LastDay,     (* bound                                                      *)
  Retention,   (* retention_days                                             *)
  MaxEvents    (* bound: events logged in all                                *)

ASSUME AuditAssumption ==
  LastDay \in Nat /\ Retention \in Nat /\ MaxEvents \in Nat

Dates == 0 .. LastDay

(* What a file holds: events, which are numbered from 1, ends of lines, and   *)
(* what a failed write left of an event.                                     *)
EndOfLine == 0
Fragment  == -1

(* The file of a task that was removed while the task had it open.           *)
Nowhere == -1

VARIABLES
  today,
  trail,       (* per day: the writes of its file                            *)
  writing,     (* per task: [event, day, step]; step "idle", "event", "end"  *)
  logged,      (* events begun so far                                        *)
  complete,    (* history: <<event, day>> whose two writes succeeded         *)
  ragged,      (* history: days of which the last line lost its end          *)
  crossed,     (* history: events during which another task had the file open *)
  behind       (* history: events that were the next after a lost end        *)

auditVars == <<today, trail, writing, logged, complete, ragged, crossed, behind>>

Idle == [event |-> 0, day |-> 0, step |-> "idle"]

AuditInit ==
  /\ today = 0 /\ trail = [d \in Dates |-> <<>>]
  /\ writing = [l \in Loggers |-> Idle]
  /\ logged = 0 /\ complete = {}
  /\ ragged = {} /\ crossed = {} /\ behind = {}
-----------------------------------------------------------------------------
Holding(d) == {l \in Loggers : writing[l].step # "idle" /\ writing[l].day = d}

(* log: the day is that of the event, the file is opened for appending.      *)
LogEvent(l) ==
  /\ writing[l].step = "idle" /\ logged < MaxEvents
  /\ logged' = logged + 1
  /\ writing' = [writing EXCEPT ![l] = [event |-> logged + 1, day |-> today, step |-> "event"]]
  /\ crossed' = IF Holding(today) = {} THEN crossed
                ELSE crossed \union {logged + 1} \union {writing[o].event : o \in Holding(today)}
  /\ UNCHANGED <<today, trail, complete, ragged, behind>>

Appended(day, x) == [d \in Dates |-> IF d = day THEN Append(trail[d], x) ELSE trail[d]]

WriteEvent(l) ==
  LET w == writing[l] IN
    /\ w.step = "event"
    /\ trail' = Appended(w.day, w.event)
    /\ behind' = IF w.day \in ragged THEN behind \union {w.event} ELSE behind
    /\ ragged' = ragged \ {w.day}
    /\ writing' = [writing EXCEPT ![l] = [event |-> w.event, day |-> w.day, step |-> "end"]]
    /\ UNCHANGED <<today, logged, complete, crossed>>

(* Faulty: a write that fails is reported and nothing more is done.          *)
WriteFailsAndReturns(l) ==
  /\ writing[l].step = "event"
  /\ trail' = Appended(writing[l].day, Fragment)
  /\ ragged' = ragged \ {writing[l].day}
  /\ writing' = [writing EXCEPT ![l] = Idle]
  /\ UNCHANGED <<today, logged, complete, crossed, behind>>

(* A write that fails, with nothing or with a part of the event in the file, *)
(* is only reported; the line is ended all the same.                         *)
WriteFails(l) ==
  LET w == writing[l] IN
    /\ w.step = "event"
    /\ \E left \in {0, Fragment} :
         /\ trail' = IF left = 0 THEN trail ELSE Appended(w.day, left)
         /\ ragged' = IF left = 0 THEN ragged ELSE ragged \ {w.day}
         /\ writing' = [writing EXCEPT ![l] = [event |-> left, day |-> w.day, step |-> "end"]]
    /\ UNCHANGED <<today, logged, complete, crossed, behind>>

WriteEnd(l) ==
  LET w == writing[l] IN
    /\ w.step = "end"
    /\ trail' = Appended(w.day, EndOfLine)
    /\ ragged' = ragged \ {w.day}
    /\ complete' = IF w.event > 0 /\ w.day \in Dates
                   THEN complete \union {<<w.event, w.day>>} ELSE complete
    /\ writing' = [writing EXCEPT ![l] = Idle]
    /\ UNCHANGED <<today, logged, crossed, behind>>

(* The days of the lines that some tasks have begun and not ended.           *)
Unended(tasks) ==
  {writing[l].day : l \in {k \in tasks : writing[k].step = "end" /\ writing[k].event # 0}}

(* The end of the line could not be written, which nobody hears of.          *)
EndFails(l) ==
  /\ writing[l].step = "end"
  /\ ragged' = ragged \union Unended({l})
  /\ writing' = [writing EXCEPT ![l] = Idle]
  /\ UNCHANGED <<today, trail, logged, complete, crossed, behind>>

(* The process stops where it is; the files stay.                            *)
CrashAudit ==
  /\ ragged' = ragged \union Unended(Loggers)
  /\ writing' = [l \in Loggers |-> Idle]
  /\ UNCHANGED <<today, trail, logged, complete, crossed, behind>>

Outdated(d) == d < today - Retention

(* cleanup removes the file also of a task that has it open; what that task *)
(* still writes goes nowhere.                                                *)
Cleanup ==
  /\ trail' = [d \in Dates |-> IF Outdated(d) THEN <<>> ELSE trail[d]]
  /\ writing' = [l \in Loggers |->
                   IF writing[l].step # "idle" /\ Outdated(writing[l].day)
                   THEN [event |-> writing[l].event, day |-> Nowhere, step |-> writing[l].step]
                   ELSE writing[l]]
  /\ UNCHANGED <<today, logged, complete, ragged, crossed, behind>>

NextDay ==
  /\ today < LastDay /\ today' = today + 1
  /\ UNCHANGED <<trail, writing, logged, complete, ragged, crossed, behind>>

AuditNext ==
  \/ \E l \in Loggers : LogEvent(l) \/ WriteEvent(l) \/ WriteFails(l) \/ WriteEnd(l) \/ EndFails(l)
  \/ CrashAudit \/ Cleanup \/ NextDay

AuditSpec == AuditInit /\ [][AuditNext]_auditVars
-----------------------------------------------------------------------------
(* An event is on a line of its own: whatever precedes it in the file is an  *)
(* end of line, and an end of line follows.                                  *)
OwnLine(file, e) ==
  \E i \in 1 .. Len(file) - 1 :
    /\ file[i] = e
    /\ i > 1 => file[i - 1] = EndOfLine
    /\ file[i + 1] = EndOfLine

(* An event whose two writes succeeded can be read, from a line of its own,  *)
(* for as long as events are kept, but for two causes: another task had the  *)
(* file open at the same time, or it was the first to be written behind a    *)
(* line that lost its end, because that write failed unheard or the process  *)
(* crashed before it. So a lost end costs one event besides its own, and     *)
(* what was logged before and after those is never lost with them.           *)
(* (audit_trail.rs log, cleanup)                                             *)
LoggedEventsReadable ==
  \A p \in complete :
    today - Retention <= p[2] /\ p[1] \notin crossed \union behind => OwnLine(trail[p[2]], p[1])
=============================================================================
