----------------------------- MODULE ChainSession -----------------------------
(***************************************************************************)
(* A chain work session (project_management/wizard/kick_off_counting.py):  *)
(* a meeting goes from issue to issue, a line for each, and the time at    *)
(* each line is entered as a time log when the session is confirmed.       *)
(*                                                                         *)
(* A session is a transient record: so are its lines, and the vacuum of    *)
(* transient records deletes each of them that was not written for an      *)
(* hour.  The form of the session can be open in several tabs, of which    *)
(* each offers the buttons of the state it was loaded with.                *)
(***************************************************************************)
EXTENDS WorkLogs

CONSTANTS Chained,       (* the issues of the lines, by sequence           *)
          LogToIssue,    (* log_to_issue_id                                *)
          Chain,         (* the source "Internal Chain"                    *)
          LogUnits,      (* w, d, h, m, s in seconds                       *)
          MaxAge,        (* how long transient records are kept            *)
          Tab

ASSUME ChainAssumption ==
  /\ Chain \in Source /\ LogToIssue \in Issue
  /\ Chained \in Seq(Issue) /\ Chained # <<>>
  /\ LogUnits \in Seq(Nat \ {0}) /\ LogUnits # <<>>
  /\ LogUnits[Len(LogUnits)] = 1
  /\ MaxAge \in Nat

Line == DOMAIN Chained

VARIABLES lines,         (* the lines that are not deleted                 *)
          session,
          shown,         (* the state each tab shows, or "closed"          *)
          spent,         (* history: for how long, at each line            *)
          booked,        (* history: what the time logs were made of       *)
          revisited,     (* history: lines that were started again         *)
          stale,         (* history: clicks in a tab that showed another   *)
                         (* state than there was                           *)
          vacuumed       (* history: lines the vacuum deleted              *)

chainVars == <<lines, session, shown, spent, booked, revisited, stale, vacuumed>>

State == {"draft", "progress", "done", "logged"}

ChainInit ==
  /\ Init
  /\ lines = [l \in Line |-> [state |-> "draft", start |-> 0, end |-> 0,
                              wrote |-> now]]
  /\ session = [state |-> "draft", start |-> 0, wrote |-> now, calls |-> 0]
  /\ shown = [t \in Tab |-> "draft"]
  /\ spent = [l \in Line |-> 0]
  /\ booked = <<>>
  /\ revisited = {} /\ stale = 0 /\ vacuumed = {}
-----------------------------------------------------------------------------
(* _compute_duration                                                       *)
Duration(l) == lines[l].end - lines[l].start

(* Mutant of LogFormat: whole units of the second least kind only.         *)
LogFormatCoarse(time) ==
  LET rest[i \in 0..Len(LogUnits)] ==
        IF i = 0 THEN time ELSE rest[i - 1] % LogUnits[i]
  IN  [i \in DOMAIN LogUnits |->
        IF i = Len(LogUnits) THEN 0 ELSE rest[i - 1] \div LogUnits[i]]

(* convert_second_to_log_format: how many of each unit.                    *)
LogFormat(time) ==
  LET rest[i \in 0..Len(LogUnits)] ==
        IF i = 0 THEN time ELSE rest[i - 1] % LogUnits[i]
  IN  [i \in DOMAIN LogUnits |-> rest[i - 1] \div LogUnits[i]]

(* convert_log_format_to_second                                            *)
Seconds(format) ==
  FoldSet(LAMBDA i, sum : sum + format[i] * LogUnits[i], 0, DOMAIN format)

(* _compute_state                                                          *)
StateOf(f) ==
  LET states == {f[l].state : l \in DOMAIN f}
  IN  IF "progress" \in states THEN "progress"
      ELSE IF states # {} /\ "draft" \notin states THEN "done"
      ELSE "draft"

In(state) == {l \in DOMAIN lines : lines[l].state = state}

First(L) == {l \in L : \A m \in L : l <= m}

(* action_done of the lines in progress                                    *)
Ended(f) ==
  [l \in DOMAIN f |->
    IF f[l].state = "progress"
    THEN [state |-> "done", start |-> session.start, end |-> now, wrote |-> now]
    ELSE f[l]]

(* update_processing: the line in progress is ended before another starts, *)
(* which may be the same.                                                  *)
Processed(next) ==
  [l \in DOMAIN lines |->
    IF l \in next THEN [Ended(lines)[l] EXCEPT !.state = "progress", !.wrote = now]
    ELSE Ended(lines)[l]]

(* A click in a tab, on a button that it shows in these states, after      *)
(* which it shows `then`.                                                  *)
Click(t, states, then) ==
  /\ session.state # "deleted" /\ session.calls < scene.calls
  /\ shown[t] \in states
  /\ stale' = stale + IF shown[t] = session.state THEN 0 ELSE 1
  /\ shown' = [shown EXCEPT ![t] = then]

(* Mutant of Gone: the session keeps the time it was started at.           *)
GoneUnnoted(f) ==
  [state |-> StateOf(f), wrote |-> now, calls |-> session.calls + 1,
   start |-> IF session.start = 0 THEN now ELSE session.start]

(* The session after action_next: the line started now.                    *)
Gone(f) ==
  [state |-> StateOf(f), wrote |-> now, calls |-> session.calls + 1,
   start |-> now]

GoOn(t, next) ==
  /\ Click(t, {"draft", "progress"}, StateOf(Processed(next)))
  /\ lines' = Processed(next)
  /\ session' = Gone(Processed(next))
  /\ UNCHANGED <<vars, spent, booked, vacuumed>>

(* action_next: the buttons "Start" and "Next".                            *)
ActionNext(t) ==
  /\ DOMAIN lines # {}
  /\ GoOn(t, First(In("draft")))
  /\ UNCHANGED revisited

(* action_next_on_line: the button "Start" of a line, which a tab that was *)
(* loaded before the line was done shows, too.                             *)
ActionNextOnLine(t, l) ==
  /\ GoOn(t, {l})
  /\ revisited' = IF lines[l].state = "draft" THEN revisited ELSE revisited \cup {l}

Kept == [l \in DOMAIN lines \ In("draft") |-> lines[l]]

(* action_done, while a line is in progress: drafts are deleted, and the   *)
(* line is ended.                                                          *)
EndLast(t) ==
  /\ In("progress") # {}
  /\ Click(t, {"progress", "done"}, StateOf(Ended(Kept)))
  /\ lines' = Ended(Kept)
  /\ session' = [session EXCEPT !.state = StateOf(Ended(Kept)), !.calls = @ + 1]
  /\ UNCHANGED <<vars, spent, booked, revisited, vacuumed>>

(* The time logs of a confirmation: one for all lines, or one for each.    *)
Booking(L, time) == [of |-> L, time |-> Seconds(LogFormat(time))]

Bookings(type) ==
  LET kept == DOMAIN Kept
      nth(n) == CHOOSE l \in kept : Cardinality({m \in kept : m <= l}) = n
  IN  IF type = "issue"
      THEN <<Booking(kept, FoldSet(LAMBDA l, sum : sum + Duration(l), 0, kept))>>
      ELSE [n \in 1..Cardinality(kept) |-> Booking({nth(n)}, Duration(nth(n)))]

BookedLog(u, type, b) ==
  Entered(u, IF type = "issue" THEN LogToIssue ELSE Chained[CHOOSE l \in b.of : TRUE],
          Chain, b.time)

(* action_done, when all are done: they are logged, and the form closes.   *)
Confirm(t, u, type) ==
  LET B == Bookings(type)
      new == [n \in DOMAIN B |-> BookedLog(u, type, B[n])]
  IN
  /\ In("progress") = {}
  /\ Click(t, {"progress", "done"}, "closed")
  /\ Len(logs) + Len(B) <= scene.logs
  /\ logs' = logs \o new
  /\ booked' = booked \o [n \in DOMAIN B |->
                           [of |-> B[n].of, duration |-> new[n].duration]]
  /\ lines' = Kept
  /\ session' = [session EXCEPT !.state = "logged", !.wrote = now, !.calls = @ + 1]
  /\ UNCHANGED <<works, now, slow, slowSoFar, atWork, worked, mixed, overlapped,
                 scene, spent, revisited, vacuumed>>

(* A tab is loaded again.                                                  *)
Reload(t) ==
  /\ session.state # "deleted" /\ session.calls > 0
  /\ shown' = [shown EXCEPT ![t] = session.state]
  /\ UNCHANGED <<vars, lines, session, spent, booked, revisited, stale, vacuumed>>

Old(row) == now - row.wrote > MaxAge

(* _transient_vacuum, of the lines and of the sessions.  Bound: only of    *)
(* sessions that were used.                                                *)
VacuumLines ==
  LET old == {l \in DOMAIN lines : Old(lines[l])}
      rest == [l \in DOMAIN lines \ old |-> lines[l]]
  IN
  /\ session.state # "deleted" /\ session.calls > 0 /\ old # {}
  /\ lines' = rest
  /\ session' = [session EXCEPT !.state = StateOf(rest)]
  /\ vacuumed' = vacuumed \cup old
  /\ UNCHANGED <<vars, shown, spent, booked, revisited, stale>>

VacuumSession ==
  /\ session.state # "deleted" /\ session.calls > 0 /\ Old(session)
  /\ session' = [session EXCEPT !.state = "deleted"]
  /\ UNCHANGED <<vars, lines, shown, spent, booked, revisited, stale, vacuumed>>

(* Time passes, for the line in progress, too.                             *)
ChainTick ==
  /\ Tick
  /\ spent' = [l \in Line |-> IF l \in In("progress") THEN spent[l] + 1 ELSE spent[l]]
  /\ UNCHANGED <<lines, session, shown, booked, revisited, stale, vacuumed>>

ChainNext ==
  \/ RequestNext /\ UNCHANGED chainVars
  \/ \E t \in Tab :
       \/ ActionNext(t) \/ EndLast(t) \/ Reload(t)
       \/ \E l \in DOMAIN lines : ActionNextOnLine(t, l)
       \/ \E u \in scene.leaders, type \in {"issue", "separate"} : Confirm(t, u, type)
  \/ VacuumLines \/ VacuumSession
  \/ ChainTick

ChainSpec == ChainInit /\ [][ChainNext]_<<vars, chainVars>>
-----------------------------------------------------------------------------
ChainTypeOK ==
  /\ DOMAIN lines \subseteq Line
  /\ \A l \in DOMAIN lines :
       lines[l].state \in State /\ {lines[l].start, lines[l].end} \subseteq 0..now
  /\ session.state \in State \cup {"deleted"} /\ session.start \in 0..now
  /\ shown \in [Tab -> State \cup {"closed"}]
  /\ spent \in [Line -> Nat] /\ stale \in Nat
  /\ revisited \cup vacuumed \subseteq Line

(* A line takes all the time the meeting was at it, whatever button went   *)
(* on to the next one; only a line that was started again loses what it    *)
(* had, and no line gets time of another one.                              *)
TimeOnLine ==
  /\ ChainTypeOK
  /\ session.state # "deleted" =>
       \A l \in DOMAIN lines :
         LET time == CASE lines[l].state = "draft"    -> 0
                       [] lines[l].state = "progress" -> now - session.start
                       [] lines[l].state = "done"     -> Duration(l)
         IN  IF l \in revisited THEN time <= spent[l] ELSE time = spent[l]

BookingsOf(l) == {n \in DOMAIN booked : l \in booked[n].of}

(* A confirmed session has entered the time of each line once, to the next *)
(* multiple of the unit where rounding is exact: not at all if the vacuum  *)
(* deleted the line before, and more than once only after a click in a tab *)
(* that was outdated, or after the vacuum deleted a line, by which a logged*)
(* session is done again.                                                  *)
ChainBilled ==
  /\ stale = 0 =>
       \A n \in DOMAIN booked :
         LET time == FoldSet(LAMBDA l, sum : sum + spent[l], 0, booked[n].of)
         IN  /\ booked[n].duration <= time + Unit - 1
             /\ booked[n].of \cap revisited = {} => booked[n].duration >= time
             /\ Exact(time) => booked[n].duration % Unit = 0
  /\ session.state = "logged" =>
       \A l \in Line :
         /\ spent[l] > 0 => BookingsOf(l) # {} \/ l \in vacuumed
         /\ Cardinality(BookingsOf(l)) <= 1 + stale + Cardinality(vacuumed)
=============================================================================
