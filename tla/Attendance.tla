----------------------------- MODULE Attendance -----------------------------
(***************************************************************************)
(* The attendance of one date: check-in, check-out, adjustments and their  *)
(* verdicts (attendance.service.ts), the employees they are about          *)
(* (hrm.service.ts).  Saving a loaded row writes every column in which the *)
(* loaded copy differs from the row as it is then.                         *)
(***************************************************************************)
EXTENDS Naturals

CONSTANTS
  Clerks,       \* requests in progress
  Staff, Rows, Adjustments,
  NewStatuses,  \* what an adjustment may ask for
  Nought,
  MaxHits       \* bound on requests; a check is dated by its request's number

VARIABLES
  employees, policy,  \* policy: one is in force
  row, log, adjustment,
  stop, card, hits,
  meant,      \* history: the rows as the requests' own columns made them
  mingled,    \* history: rows saved from a copy another save had outdated
  rushed,     \* history: employees two overlapping check-ins found without a row
  applied,    \* history: adjustments whose status was written
  contested   \* history: adjustments two verdicts found pending at once, or whose
              \* approval broke off after the row was saved

attendanceVars == <<employees, policy, row, log, adjustment, stop, card, hits,
                    meant, mingled, rushed, applied, contested>>

ASSUME HitsAssumption == MaxHits \in Nat
(* The mark for nobody and nothing is no employee, row or adjustment. *)
ASSUME NoughtApart == Nought \notin Staff \cup Rows \cup Adjustments

Statuses == {"none", "present", "half_day"} \cup NewStatuses
Row == [who : Staff \cup {Nought}, in : 0..MaxHits, out : 0..MaxHits,
        status : Statuses, policy : BOOLEAN]
NoRow == [who |-> Nought, in |-> 0, out |-> 0, status |-> "none", policy |-> FALSE]
(* times: the adjustment asks for a new check-in or check-out. *)
Adjustment == [row : Rows \cup {Nought}, status : Statuses, times : BOOLEAN,
               state : {"none", "pending", "approved", "rejected"}]
NoAdjustment == [row |-> Nought, status |-> "none", times |-> FALSE, state |-> "none"]
Card == [kind : {"none", "check_in", "check_out", "verdict"}, who : Staff \cup {Nought},
         row : Rows \cup {Nought}, copy : Row, adjustment : Adjustments \cup {Nought},
         verdict : {"none", "approved", "rejected"}, number : 0..MaxHits, outdated : BOOLEAN]
NoCard == [kind |-> "none", who |-> Nought, row |-> Nought, copy |-> NoRow,
           adjustment |-> Nought, verdict |-> "none", number |-> 0, outdated |-> FALSE]
Stops == {"idle", "employee", "find", "policy", "insert", "save", "log", "pending", "apply",
          "settle"}

AttendanceTypeOK ==
  /\ employees \subseteq Staff /\ policy \in BOOLEAN
  /\ row \in [Rows -> Row] /\ log \subseteq {"check_in", "check_out"} \X Staff \X (1..MaxHits)
  /\ adjustment \in [Adjustments -> Adjustment]
  /\ stop \in [Clerks -> Stops] /\ card \in [Clerks -> Card] /\ hits \in 0..MaxHits
  /\ meant \in [Rows -> Row] /\ mingled \subseteq Rows /\ rushed \subseteq Staff
  /\ applied \subseteq Adjustments /\ contested \subseteq Adjustments

AttendanceInit ==
  /\ employees = Staff /\ policy \in BOOLEAN
  /\ row = [r \in Rows |-> NoRow] /\ log = {}
  /\ adjustment = [a \in Adjustments |-> NoAdjustment]
  /\ stop = [c \in Clerks |-> "idle"] /\ card = [c \in Clerks |-> NoCard] /\ hits = 0
  /\ meant = row /\ mingled = {} /\ rushed = {} /\ applied = {} /\ contested = {}
-----------------------------------------------------------------------------
tables == <<employees, policy, row, log, adjustment>>
history == <<meant, mingled, rushed, applied, contested>>
Hit(c, k, s) ==
  /\ stop[c] = "idle" /\ hits < MaxHits /\ hits' = hits + 1
  /\ stop' = [stop EXCEPT ![c] = s]
  /\ card' = [card EXCEPT ![c] = [k EXCEPT !.number = hits + 1]]
  /\ UNCHANGED <<tables, history>>
Turn(c, s, k) == stop' = [stop EXCEPT ![c] = s] /\ card' = [card EXCEPT ![c] = k]
Done(c) == Turn(c, "idle", NoCard)
Quiet == UNCHANGED <<tables, history, hits>>
RowsOf(s) == {r \in Rows : row[r].who = s}
Spare == {r \in Rows : row[r] = NoRow}

(* checkIn, for oneself or by HR: employee, row of the date, policy, row, log. *)
BeginCheckIn(c) ==
  \E s \in Staff : Hit(c, [NoCard EXCEPT !.kind = "check_in", !.who = s], "employee")
FindEmployee(c) ==
  /\ stop[c] = "employee"
  /\ IF card[c].who \in employees THEN Turn(c, "find", card[c]) ELSE Done(c)
  /\ Quiet
CheckedIn(s) == \E r \in RowsOf(s) : row[r].in # 0
FindNoRow(c) ==
  /\ stop[c] = "find" /\ card[c].kind = "check_in"
  /\ IF CheckedIn(card[c].who) THEN Done(c) ELSE Turn(c, "policy", card[c])
  /\ Quiet
(* Lateness is never found: the standard hours are text, and no date is later than
   a text. *)
FindPolicy(c) ==
  /\ stop[c] = "policy"
  /\ Turn(c, "insert",
          [card[c] EXCEPT !.copy = [who |-> card[c].who, in |-> card[c].number, out |-> 0,
                                    status |-> "present", policy |-> policy]])
  /\ Quiet
(* The row refers to its employee, who may have been removed. *)
InsertRow(c) ==
  /\ stop[c] = "insert"
  /\ LET s == card[c].who IN
     IF s \in employees
     THEN \E r \in Spare :
            /\ row' = [row EXCEPT ![r] = card[c].copy] /\ meant' = [meant EXCEPT ![r] = row'[r]]
            /\ rushed' = rushed \cup
                 {x \in {s} : \E d \in Clerks \ {c} :
                                card[d].who = s /\ stop[d] \in {"policy", "insert"}}
            /\ Turn(c, "log", card[c])
     ELSE Done(c) /\ UNCHANGED <<row, meant, rushed>>
  /\ UNCHANGED <<employees, policy, log, adjustment, hits, mingled, applied, contested>>
WriteLog(c) ==
  /\ stop[c] = "log"
  /\ log' = log \cup {<<card[c].kind, card[c].who, card[c].number>>}
  /\ Done(c) /\ UNCHANGED <<employees, policy, row, adjustment, hits, history>>
-----------------------------------------------------------------------------
(* checkOut: a row of the date that was checked in and not out; a short day under a
   policy makes it half a day. *)
BeginCheckOut(c) ==
  \E s \in Staff : Hit(c, [NoCard EXCEPT !.kind = "check_out", !.who = s], "find")
MayCheckOut(r) == row[r].in # 0 /\ row[r].out = 0
CheckedOut(r, n, short) ==
  [row[r] EXCEPT !.out = n, !.status = IF short /\ row[r].policy THEN "half_day" ELSE @]
FindRow(c) ==
  /\ stop[c] = "find" /\ card[c].kind = "check_out"
  /\ \/ RowsOf(card[c].who) = {} /\ Done(c)
     \/ \E r \in RowsOf(card[c].who) :
          \/ ~MayCheckOut(r) /\ Done(c)
          \/ MayCheckOut(r) /\ \E short \in BOOLEAN :
               Turn(c, "save", [card[c] EXCEPT !.row = r, !.outdated = FALSE,
                                               !.copy = CheckedOut(r, card[c].number, short)])
  /\ Quiet
(* Every column of the copy is written; who holds another copy holds an old one. *)
SaveCopy(c, r, new, s) ==
  /\ row' = [row EXCEPT ![r] = card[c].copy] /\ meant' = [meant EXCEPT ![r] = new]
  /\ mingled' = IF card[c].outdated THEN mingled \cup {r} ELSE mingled
  /\ stop' = [stop EXCEPT ![c] = s]
  /\ card' = [d \in Clerks |->
       IF d = c THEN card[c]
       ELSE [card[d] EXCEPT !.outdated = (@ \/ (card[d].row = r /\ stop[d] \in {"save", "apply"}))]]
SaveCheckOut(c) ==
  /\ stop[c] = "save"
  /\ LET k == card[c].copy IN
     SaveCopy(c, card[c].row,
              [meant[card[c].row] EXCEPT !.out = k.out,
                 !.status = IF k.status = "half_day" THEN "half_day" ELSE @], "log")
  /\ UNCHANGED <<employees, policy, log, adjustment, hits, rushed, applied, contested>>
-----------------------------------------------------------------------------
(* requestAdjustment: for a row of the employee. *)
RequestAdjustment ==
  /\ hits < MaxHits /\ hits' = hits + 1
  /\ \E a \in Adjustments, r \in Rows \ Spare, x \in NewStatuses, t \in BOOLEAN :
       /\ adjustment[a] = NoAdjustment
       /\ adjustment' = [adjustment EXCEPT
            ![a] = [row |-> r, status |-> x, times |-> t, state |-> "pending"]]
  /\ UNCHANGED <<employees, policy, row, log, stop, card, history>>
(* approveAdjustment: the row is loaded with the adjustment, saved first, and the
   adjustment after it. *)
BeginVerdict(c) ==
  \E a \in Adjustments, v \in {"approved", "rejected"} :
    /\ adjustment[a] # NoAdjustment
    /\ Hit(c, [NoCard EXCEPT !.kind = "verdict", !.adjustment = a, !.verdict = v], "pending")
UndecidedAlways(a) == TRUE  \* slip: a processed adjustment is processed again
Undecided(a) == adjustment[a].state = "pending"
FindAdjustment(c) ==
  /\ stop[c] = "pending"
  /\ LET a == card[c].adjustment  r == adjustment[a].row IN
     IF ~Undecided(a) THEN Done(c)
     ELSE Turn(c, IF card[c].verdict = "approved" THEN "apply" ELSE "settle",
               [card[c] EXCEPT !.row = r, !.outdated = FALSE,
                               !.copy = [row[r] EXCEPT !.status = adjustment[a].status]])
  /\ Quiet
(* The new times come back from the database as times of day, which are no dates:
   the row cannot be saved. *)
ApplyAdjustment(c) ==
  /\ stop[c] = "apply"
  /\ LET a == card[c].adjustment IN
     IF adjustment[a].times THEN Done(c) /\ UNCHANGED <<row, meant, mingled, applied>>
     ELSE /\ SaveCopy(c, card[c].row,
                      [meant[card[c].row] EXCEPT !.status = card[c].copy.status], "settle")
          /\ applied' = applied \cup {a}
  /\ UNCHANGED <<employees, policy, log, adjustment, hits, rushed, contested>>
SettleAdjustment(c) ==
  /\ stop[c] = "settle"
  /\ LET a == card[c].adjustment IN
     /\ adjustment' = [adjustment EXCEPT ![a].state = card[c].verdict]
     /\ contested' = contested \cup
          {x \in {a} : \E d \in Clerks \ {c} :
                         card[d].adjustment = a /\ stop[d] \in {"apply", "settle"}}
  /\ Done(c) /\ UNCHANGED <<employees, policy, row, log, hits, meant, mingled, rushed, applied>>
-----------------------------------------------------------------------------
(* remove of an employee: refused while a row, a log or an adjustment refers to it. *)
RemoveEmployee ==
  /\ \E s \in employees :
       /\ RowsOf(s) = {} /\ \A l \in log : l[2] # s
       /\ employees' = employees \ {s}
  /\ UNCHANGED <<policy, row, log, adjustment, stop, card, hits, history>>
CreatePolicy ==
  /\ ~policy /\ policy' = TRUE
  /\ UNCHANGED <<employees, row, log, adjustment, stop, card, hits, history>>
(* A statement fails, or the process stops. *)
Break(c) ==
  /\ stop[c] # "idle" /\ Done(c)
  /\ contested' = contested \cup
       {a \in {card[c].adjustment} : stop[c] = "settle" /\ card[c].verdict = "approved"}
  /\ UNCHANGED <<tables, hits, meant, mingled, rushed, applied>>

AttendanceNext ==
  \/ RequestAdjustment \/ RemoveEmployee \/ CreatePolicy
  \/ \E c \in Clerks :
       \/ BeginCheckIn(c) \/ FindEmployee(c) \/ FindNoRow(c) \/ FindPolicy(c) \/ InsertRow(c)
       \/ WriteLog(c) \/ BeginCheckOut(c) \/ FindRow(c) \/ SaveCheckOut(c) \/ BeginVerdict(c)
       \/ FindAdjustment(c) \/ ApplyAdjustment(c) \/ SettleAdjustment(c) \/ Break(c)
AttendanceSpec == AttendanceInit /\ [][AttendanceNext]_attendanceVars
-----------------------------------------------------------------------------
(* An employee has two rows for a date only when two check-ins overlapped
   (attendance.service.ts:47-100). *)
TwinRowsHaveCause ==
  \A q, r \in Rows \ Spare : q # r /\ row[q].who = row[r].who => row[r].who \in rushed
(* A row says what the check-in, the check-outs and the approved adjustments made of
   it, unless one of them saved a copy that another had outdated: only then may a
   logged check-out be missing (attendance.service.ts:112-179, 328-371). *)
RowLossHasCause ==
  /\ \A r \in Rows : row[r] # meant[r] => r \in mingled
  /\ \A l \in log :
       IF l[1] = "check_in" THEN \E r \in RowsOf(l[2]) : row[r].in = l[3]
       ELSE \E r \in RowsOf(l[2]) : row[r].out = l[3] \/ r \in mingled
(* The status of an approved adjustment was written; that of a rejected one only
   after an earlier approval broke off, or when two verdicts overlapped
   (attendance.service.ts:344-371). *)
VerdictMatchesRow ==
  \A a \in Adjustments :
    /\ adjustment[a].state = "approved" => a \in applied /\ ~adjustment[a].times
    /\ adjustment[a].state = "rejected" /\ a \in applied => a \in contested
(* Attendance keeps its types and the three statements above. *)
AttendanceHolds ==
  AttendanceTypeOK /\ TwinRowsHaveCause /\ RowLossHasCause /\ VerdictMatchesRow
=============================================================================
