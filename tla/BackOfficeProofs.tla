------------------------- MODULE BackOfficeProofs -------------------------
(***************************************************************************)
(* Proofs about attendance, the product images and the books.  The three   *)
(* share no table.  The books need what a sum over a finite set is, whatever*)
(* order it takes its terms in: the part on sums shows it from the fold    *)
(* the model is built from.                                                *)
(***************************************************************************)
EXTENDS Attendance, Ledger, ProductImages, FiniteSetTheorems, WellFoundedInduction, TLAPS

(* A logged check is in a row; a check-out may also be lost in a mingled one. *)
LogFits(l, rw, mg) ==
  IF l[1] = "check_in" THEN \E r \in Rows : rw[r].who = l[2] /\ rw[r].in = l[3]
  ELSE \E r \in Rows : rw[r].who = l[2] /\ (rw[r].out = l[3] \/ r \in mg)
RowFits(x) == x = NoRow \/ (x.who \in Staff /\ x.in # 0)
(* A copy whose row nobody saved since it was loaded. *)
CopyFits(s, k, rw) ==
  /\ k.row \in Rows /\ rw[k.row].in # 0
  /\ rw[k.row].who = k.copy.who /\ rw[k.row].in = k.copy.in
  /\ s = "save" => /\ k.copy.out = k.number /\ k.copy.who = k.who
                   /\ ~k.outdated => /\ rw[k.row].out = 0
                                     /\ k.copy = [rw[k.row] EXCEPT !.out = k.number, !.status = k.copy.status]
                                     /\ k.copy.status \in {rw[k.row].status, "half_day"}
  /\ s = "apply" /\ ~k.outdated => k.copy = [rw[k.row] EXCEPT !.status = k.copy.status]
KindFits(s, k) ==
  /\ s = "idle" => k = NoCard
  /\ s # "idle" => k.number # 0
  /\ s \in {"employee", "find", "policy", "insert", "save", "log"} => k.who \in Staff
  /\ s \in {"employee", "policy", "insert"} => k.kind = "check_in"
  /\ s \in {"find", "log"} => k.kind \in {"check_in", "check_out"}
  /\ s = "save" => k.kind = "check_out"
  /\ s \in {"pending", "apply", "settle"} => k.adjustment \in Adjustments /\ k.verdict # "none"
  /\ s = "apply" => k.verdict = "approved"
  /\ s = "insert" => k.copy.who = k.who /\ k.copy.in = k.number
CardFits(s, k, rw, mg) ==
  /\ KindFits(s, k)
  /\ s \in {"save", "apply"} => CopyFits(s, k, rw)
  /\ s = "log" => LogFits(<<k.kind, k.who, k.number>>, rw, mg)
RowsFit ==
  /\ \A r \in Rows : RowFits(row[r]) /\ (row[r] # meant[r] => r \in mingled)
  /\ \A l \in log : LogFits(l, row, mingled)
  /\ \A a \in Adjustments : adjustment[a] = NoAdjustment \/
       (adjustment[a].row \in Rows /\ row[adjustment[a].row].in # 0 /\ adjustment[a].state # "none")
CardsFit == \A c \in Clerks : CardFits(stop[c], card[c], row, mingled)
LooksFit ==
  \A c \in Clerks : stop[c] \in {"policy", "insert"} /\ card[c].who \notin rushed => RowsOf(card[c].who) = {}
Deciding(c, a) == stop[c] \in {"apply", "settle"} /\ card[c].adjustment = a
Settling(c, a) == stop[c] = "settle" /\ card[c].adjustment = a /\ card[c].verdict = "approved"
VerdictsFit ==
  /\ \A c \in Clerks : stop[c] \in {"pending", "apply", "settle"} => adjustment[card[c].adjustment] # NoAdjustment
  /\ \A a \in Adjustments : 
      /\ \A c \in Clerks : Deciding(c, a) => adjustment[a].state = "pending" \/ a \in contested
      /\ \A c \in Clerks : Settling(c, a) => a \in applied /\ ~adjustment[a].times
      /\ a \in applied \ contested => 
           \/ adjustment[a].state = "approved" 
           \/ adjustment[a].state = "pending" /\ \E c \in Clerks : Settling(c, a)
      /\ adjustment[a].state = "approved" => a \in applied /\ ~adjustment[a].times
AttendanceInv ==
  AttendanceTypeOK /\ RowsFit /\ CardsFit /\ LooksFit /\ TwinRowsHaveCause /\ VerdictsFit
-----------------------------------------------------------------------------
LEMMA NothingTyped == NoRow \in Row /\ NoCard \in Card /\ NoAdjustment \in Adjustment
  BY HitsAssumption DEF NoRow, Row, NoCard, Card, NoAdjustment, Adjustment, Statuses

LEMMA IdleFits ==
  ASSUME NEW rw, NEW mg
  PROVE  CardFits("idle", NoCard, rw, mg)
  BY DEF CardFits, KindFits

LEMMA AttendanceInitInv == AttendanceInit => AttendanceInv
<1> SUFFICES ASSUME AttendanceInit PROVE AttendanceInv
  OBVIOUS
<1>1. AttendanceTypeOK
  BY NothingTyped, HitsAssumption DEF AttendanceInit, AttendanceTypeOK, Stops
<1>2. RowsFit
  BY DEF AttendanceInit, RowsFit, RowFits
<1>3. CardsFit
  BY IdleFits DEF AttendanceInit, CardsFit
<1>4. LooksFit /\ TwinRowsHaveCause
  BY DEF AttendanceInit, LooksFit, TwinRowsHaveCause, Spare
<1>5. VerdictsFit
  BY DEF AttendanceInit, VerdictsFit, Deciding, Settling, NoAdjustment
<1> QED
  BY <1>1, <1>2, <1>3, <1>4, <1>5 DEF AttendanceInv
-----------------------------------------------------------------------------
LEMMA TurnTyped ==
  ASSUME AttendanceInv, NEW c \in Clerks, NEW s \in Stops, NEW k \in Card, Turn(c, s, k)
  PROVE  /\ stop' \in [Clerks -> Stops] /\ card' \in [Clerks -> Card]
         /\ stop'[c] = s /\ card'[c] = k
         /\ \A d \in Clerks : d # c => stop'[d] = stop[d] /\ card'[d] = card[d]
  BY DEF AttendanceInv, AttendanceTypeOK, Turn

LEMMA CardsTurn ==
  ASSUME AttendanceInv, NEW c \in Clerks, NEW s \in Stops, NEW k \in Card, Turn(c, s, k),
         row' = row, mingled' = mingled, CardFits(s, k, row, mingled)
  PROVE  CardsFit'
<1>1. \A d \in Clerks : CardFits(stop[d], card[d], row, mingled)
  BY DEF AttendanceInv, CardsFit
<1>2. \A d \in Clerks : CardFits(stop'[d], card'[d], row', mingled')
  BY <1>1, TurnTyped
<1> QED
  BY <1>2 DEF CardsFit

LEMMA LooksTurn ==
  ASSUME AttendanceInv, NEW c \in Clerks, NEW s \in Stops, NEW k \in Card, Turn(c, s, k),
         row' = row, rushed' = rushed,
         s \in {"policy", "insert"} /\ k.who \notin rushed => RowsOf(k.who) = {}
  PROVE  LooksFit' /\ TwinRowsHaveCause'
<1>1. \A d \in Clerks : stop'[d] \in {"policy", "insert"} /\ card'[d].who \notin rushed =>
                          {r \in Rows : row[r].who = card'[d].who} = {}
  BY TurnTyped DEF AttendanceInv, LooksFit, RowsOf
<1> QED
  BY <1>1 DEF AttendanceInv, LooksFit, RowsOf, TwinRowsHaveCause, Spare

LEMMA VerdictsTurn ==
  ASSUME AttendanceInv, NEW c \in Clerks, NEW s \in Stops, NEW k \in Card, Turn(c, s, k),
         adjustment' = adjustment, applied' = applied, contested \subseteq contested',
         stop[c] = "settle" /\ card[c].verdict = "approved" => card[c].adjustment \in contested',
         s \in {"pending", "apply", "settle"} =>
           k.adjustment \in Adjustments /\ adjustment[k.adjustment] # NoAdjustment,
         s \in {"apply", "settle"} => adjustment[k.adjustment].state = "pending",
         s = "settle" => k.verdict # "approved"
  PROVE  VerdictsFit'
<1>1. /\ stop'[c] = s /\ card'[c] = k
      /\ \A d \in Clerks : d # c => stop'[d] = stop[d] /\ card'[d] = card[d]
  BY TurnTyped
<1>2. \A d \in Clerks : stop'[d] \in {"pending", "apply", "settle"} =>
                          adjustment'[card'[d].adjustment] # NoAdjustment
  BY <1>1 DEF AttendanceInv, VerdictsFit
<1>3. ASSUME NEW a \in Adjustments
      PROVE  /\ \A d \in Clerks : Deciding(d, a)' => adjustment'[a].state = "pending" \/ a \in contested'
             /\ \A d \in Clerks : Settling(d, a)' => a \in applied' /\ ~adjustment'[a].times
             /\ a \in applied' \ contested' =>
                  \/ adjustment'[a].state = "approved"
                  \/ adjustment'[a].state = "pending" /\ \E d \in Clerks : Settling(d, a)'
             /\ adjustment'[a].state = "approved" => a \in applied' /\ ~adjustment'[a].times
  <2>1. \A d \in Clerks : d # c => (Deciding(d, a)' <=> Deciding(d, a)) /\ (Settling(d, a)' <=> Settling(d, a))
    BY <1>1 DEF Deciding, Settling
  <2>2. ~Settling(c, a)' /\ (Deciding(c, a)' => adjustment[a].state = "pending")
    BY <1>1 DEF Deciding, Settling
  <2>3. Settling(c, a) => a \in contested'
    BY DEF Settling
  <2> QED
    BY <2>1, <2>2, <2>3 DEF AttendanceInv, VerdictsFit
<1> QED
  BY <1>2, <1>3 DEF VerdictsFit

(* A request goes on, or ends, and no table changes. *)
LEMMA TurnStep ==
  ASSUME AttendanceInv, NEW c \in Clerks, NEW s \in Stops, NEW k \in Card, Turn(c, s, k),
         UNCHANGED <<employees, row, log, adjustment, meant, mingled, rushed, applied>>,
         policy' \in BOOLEAN, hits' \in 0..MaxHits,
         contested \subseteq contested', contested' \subseteq Adjustments,
         stop[c] = "settle" /\ card[c].verdict = "approved" => card[c].adjustment \in contested',
         CardFits(s, k, row, mingled),
         s \in {"policy", "insert"} /\ k.who \notin rushed => RowsOf(k.who) = {},
         s \in {"pending", "apply", "settle"} =>
           k.adjustment \in Adjustments /\ adjustment[k.adjustment] # NoAdjustment,
         s \in {"apply", "settle"} => adjustment[k.adjustment].state = "pending",
         s = "settle" => k.verdict # "approved"
  PROVE  AttendanceInv'
<1>1. AttendanceTypeOK'
  BY TurnTyped DEF AttendanceInv, AttendanceTypeOK
<1>2. RowsFit'
  BY DEF AttendanceInv, RowsFit
<1>3. CardsFit'
  BY CardsTurn
<1>4. LooksFit' /\ TwinRowsHaveCause'
  BY LooksTurn
<1>5. VerdictsFit'
  BY VerdictsTurn
<1> QED
  BY <1>1, <1>2, <1>3, <1>4, <1>5 DEF AttendanceInv

LEMMA CardKnown ==
  ASSUME AttendanceInv, NEW c \in Clerks
  PROVE  /\ card[c] \in Card /\ stop[c] \in Stops
         /\ CardFits(stop[c], card[c], row, mingled) /\ KindFits(stop[c], card[c])
  BY DEF AttendanceInv, AttendanceTypeOK, CardsFit, CardFits

(* A request ends without having changed a table. *)
LEMMA DoneStep ==
  ASSUME AttendanceInv, NEW c \in Clerks, Done(c), Quiet, stop[c] # "settle"
  PROVE  AttendanceInv'
<1>1. Turn(c, "idle", NoCard) /\ "idle" \in Stops
  BY DEF Done, Stops
<1>2. /\ UNCHANGED <<employees, row, log, adjustment, meant, mingled, rushed, applied>>
      /\ policy' \in BOOLEAN /\ hits' \in 0..MaxHits
      /\ contested \subseteq contested' /\ contested' \subseteq Adjustments
  BY DEF Quiet, tables, history, AttendanceInv, AttendanceTypeOK
<1> QED
  BY <1>1, <1>2, NothingTyped, IdleFits, TurnStep

LEMMA HitStep ==
  ASSUME AttendanceInv, NEW c \in Clerks, NEW s \in {"employee", "find", "pending"}, NEW k \in Card,
         Hit(c, k, s),
         s \in {"employee", "find"} => k.who \in Staff /\ k.kind \in {"check_in", "check_out"},
         s = "employee" => k.kind = "check_in",
         s = "pending" => /\ k.adjustment \in Adjustments /\ adjustment[k.adjustment] # NoAdjustment
                          /\ k.verdict # "none"
  PROVE  AttendanceInv'
<1> DEFINE j == [k EXCEPT !.number = hits + 1]
<1>1. hits \in 0..MaxHits /\ hits < MaxHits
  BY DEF AttendanceInv, AttendanceTypeOK, Hit
<1>2. hits + 1 \in 0..MaxHits /\ hits + 1 # 0 /\ hits' \in 0..MaxHits
  BY <1>1, HitsAssumption DEF Hit
<1>3. /\ j \in Card /\ j.number = hits + 1 /\ j.who = k.who /\ j.kind = k.kind
      /\ j.adjustment = k.adjustment /\ j.verdict = k.verdict
  BY <1>2 DEF Card
<1>4. Turn(c, s, j) /\ s \in Stops /\ stop[c] = "idle"
  BY DEF Hit, Turn, Stops
<1>5. /\ UNCHANGED <<employees, row, log, adjustment, meant, mingled, rushed, applied>>
      /\ policy' \in BOOLEAN /\ contested \subseteq contested' /\ contested' \subseteq Adjustments
  BY DEF Hit, tables, history, AttendanceInv, AttendanceTypeOK
<1> HIDE DEF j
<1>6. CardFits(s, j, row, mingled)
  BY <1>2, <1>3 DEF CardFits, KindFits
<1> QED
  BY <1>2, <1>3, <1>4, <1>5, <1>6, TurnStep

LEMMA BeginTurnStep ==
  ASSUME AttendanceInv, NEW c \in Clerks, BeginCheckIn(c) \/ BeginCheckOut(c) \/ BeginVerdict(c)
  PROVE  AttendanceInv'
<1>1. ASSUME NEW w \in Staff, Hit(c, [NoCard EXCEPT !.kind = "check_in", !.who = w], "employee")
      PROVE  AttendanceInv'
  <2> DEFINE k == [NoCard EXCEPT !.kind = "check_in", !.who = w]
  <2>1. k \in Card /\ k.who = w /\ k.kind = "check_in"
    BY NothingTyped DEF Card, NoCard
  <2>2. Hit(c, k, "employee")
    BY <1>1
  <2> HIDE DEF k
  <2> QED
    BY <2>1, <2>2, HitStep
<1>2. ASSUME NEW w \in Staff, Hit(c, [NoCard EXCEPT !.kind = "check_out", !.who = w], "find")
      PROVE  AttendanceInv'
  <2> DEFINE k == [NoCard EXCEPT !.kind = "check_out", !.who = w]
  <2>1. k \in Card /\ k.who = w /\ k.kind = "check_out"
    BY NothingTyped DEF Card, NoCard
  <2>2. Hit(c, k, "find")
    BY <1>2
  <2> HIDE DEF k
  <2> QED
    BY <2>1, <2>2, HitStep
<1>3. ASSUME NEW a \in Adjustments, NEW v \in {"approved", "rejected"}, adjustment[a] # NoAdjustment,
             Hit(c, [NoCard EXCEPT !.kind = "verdict", !.adjustment = a, !.verdict = v], "pending")
      PROVE  AttendanceInv'
  <2> DEFINE k == [NoCard EXCEPT !.kind = "verdict", !.adjustment = a, !.verdict = v]
  <2>1. k \in Card /\ k.adjustment = a /\ k.verdict # "none"
    BY NothingTyped DEF Card, NoCard
  <2>2. Hit(c, k, "pending")
    BY <1>3
  <2> HIDE DEF k
  <2> QED
    BY <1>3, <2>1, <2>2, HitStep
<1> QED
  BY <1>1, <1>2, <1>3 DEF BeginCheckIn, BeginCheckOut, BeginVerdict

(* Between two stops of a check-in the card is the same. *)
LEMMA FindEmployeeStep ==
  ASSUME AttendanceInv, NEW c \in Clerks, FindEmployee(c)
  PROVE  AttendanceInv'
<1>1. CASE card[c].who \in employees
  <2>1. /\ Turn(c, "find", card[c]) /\ Quiet /\ stop[c] = "employee" /\ "find" \in Stops
        /\ card[c] \in Card /\ KindFits(stop[c], card[c])
    BY <1>1, CardKnown DEF FindEmployee, Stops
  <2>2. CardFits("find", card[c], row, mingled)
    BY <2>1 DEF CardFits, KindFits
  <2>3. /\ UNCHANGED <<employees, row, log, adjustment, meant, mingled, rushed, applied>>
        /\ policy' \in BOOLEAN /\ hits' \in 0..MaxHits
        /\ contested \subseteq contested' /\ contested' \subseteq Adjustments
    BY <2>1 DEF Quiet, tables, history, AttendanceInv, AttendanceTypeOK
  <2> QED
    BY <2>1, <2>2, <2>3, TurnStep
<1>2. CASE card[c].who \notin employees
  BY <1>2, DoneStep DEF FindEmployee
<1> QED
  BY <1>1, <1>2

LEMMA FindNoRowStep ==
  ASSUME AttendanceInv, NEW c \in Clerks, FindNoRow(c)
  PROVE  AttendanceInv'
<1>1. CASE ~CheckedIn(card[c].who)
  <2>1. /\ Turn(c, "policy", card[c]) /\ Quiet /\ stop[c] = "find" /\ "policy" \in Stops
        /\ card[c] \in Card /\ KindFits(stop[c], card[c]) /\ card[c].kind = "check_in"
    BY <1>1, CardKnown DEF FindNoRow, Stops
  <2>2. CardFits("policy", card[c], row, mingled) /\ card[c].who \in Staff
    BY <2>1 DEF CardFits, KindFits
  <2>3. /\ UNCHANGED <<employees, row, log, adjustment, meant, mingled, rushed, applied>>
        /\ policy' \in BOOLEAN /\ hits' \in 0..MaxHits
        /\ contested \subseteq contested' /\ contested' \subseteq Adjustments
    BY <2>1 DEF Quiet, tables, history, AttendanceInv, AttendanceTypeOK
  <2>4. RowsOf(card[c].who) = {}
    BY <1>1, <2>2, NoughtApart DEF CheckedIn, RowsOf, AttendanceInv, RowsFit, RowFits, NoRow
  <2> QED
    BY <2>1, <2>2, <2>3, <2>4, TurnStep
<1>2. CASE CheckedIn(card[c].who)
  BY <1>2, DoneStep DEF FindNoRow
<1> QED
  BY <1>1, <1>2

LEMMA FindPolicyStep ==
  ASSUME AttendanceInv, NEW c \in Clerks, FindPolicy(c)
  PROVE  AttendanceInv'
<1> DEFINE x == [who |-> card[c].who, in |-> card[c].number, out |-> 0, status |-> "present", policy |-> policy]
           k == [card[c] EXCEPT !.copy = x]
<1>1. /\ Turn(c, "insert", k) /\ Quiet /\ stop[c] = "policy" /\ "insert" \in Stops
      /\ card[c] \in Card /\ KindFits(stop[c], card[c])
  BY CardKnown DEF FindPolicy, Stops
<1>2. x \in Row /\ x.who = card[c].who /\ x.in = card[c].number
  BY <1>1, HitsAssumption DEF Row, Card, Statuses, AttendanceInv, AttendanceTypeOK
<1> HIDE DEF x
<1>3. /\ k \in Card /\ k.copy = x /\ k.who = card[c].who /\ k.number = card[c].number
      /\ k.kind = card[c].kind
  BY <1>1, <1>2 DEF Card
<1> HIDE DEF k
<1>4. CardFits("insert", k, row, mingled)
  BY <1>1, <1>2, <1>3 DEF CardFits, KindFits
<1>5. /\ UNCHANGED <<employees, row, log, adjustment, meant, mingled, rushed, applied>>
      /\ policy' \in BOOLEAN /\ hits' \in 0..MaxHits
      /\ contested \subseteq contested' /\ contested' \subseteq Adjustments
  BY <1>1 DEF Quiet, tables, history, AttendanceInv, AttendanceTypeOK
<1>6. k.who \notin rushed => RowsOf(k.who) = {}
  BY <1>1, <1>3 DEF AttendanceInv, LooksFit
<1> QED
  BY <1>1, <1>3, <1>4, <1>5, <1>6, TurnStep

(* A check-out takes a copy of a row that was not checked out. *)
LEMMA FindRowStep ==
  ASSUME AttendanceInv, NEW c \in Clerks, FindRow(c)
  PROVE  AttendanceInv'
<1>1. ASSUME NEW r \in RowsOf(card[c].who), MayCheckOut(r), NEW short \in BOOLEAN,
             Turn(c, "save", [card[c] EXCEPT !.row = r, !.outdated = FALSE,
                                             !.copy = CheckedOut(r, card[c].number, short)])
      PROVE  AttendanceInv'
  <2> DEFINE x == CheckedOut(r, card[c].number, short)
             k == [card[c] EXCEPT !.row = r, !.outdated = FALSE, !.copy = x]
  <2>1. /\ Turn(c, "save", k) /\ Quiet /\ stop[c] = "find" /\ "save" \in Stops /\ r \in Rows
        /\ card[c] \in Card /\ KindFits(stop[c], card[c]) /\ card[c].kind = "check_out"
        /\ row[r].who = card[c].who /\ row[r].in # 0 /\ row[r].out = 0
    BY <1>1, CardKnown DEF FindRow, Stops, RowsOf, MayCheckOut
  <2>2. /\ x \in Row /\ x.who = row[r].who /\ x.in = row[r].in /\ x.out = card[c].number
        /\ x.status \in {row[r].status, "half_day"}
        /\ x = [row[r] EXCEPT !.out = card[c].number, !.status = x.status]
    <3>1. row[r] \in Row /\ card[c].number \in 0..MaxHits
      BY <2>1 DEF AttendanceInv, AttendanceTypeOK, Card
    <3> QED
      BY <3>1 DEF CheckedOut, Row, Statuses
  <2> HIDE DEF x
  <2>3. /\ k \in Card /\ k.copy = x /\ k.who = card[c].who /\ k.number = card[c].number
        /\ k.kind = card[c].kind /\ k.row = r /\ k.outdated = FALSE
    BY <2>1, <2>2 DEF Card
  <2> HIDE DEF k
  <2>4. CardFits("save", k, row, mingled)
    <3>1. KindFits("save", k)
      BY <2>1, <2>3 DEF KindFits
    <3>2. CopyFits("save", k, row)
      BY <2>1, <2>2, <2>3 DEF CopyFits
    <3> QED
      BY <3>1, <3>2 DEF CardFits
  <2>5. /\ UNCHANGED <<employees, row, log, adjustment, meant, mingled, rushed, applied>>
        /\ policy' \in BOOLEAN /\ hits' \in 0..MaxHits
        /\ contested \subseteq contested' /\ contested' \subseteq Adjustments
    BY <2>1 DEF Quiet, tables, history, AttendanceInv, AttendanceTypeOK
  <2> QED
    BY <2>1, <2>3, <2>4, <2>5, TurnStep
<1>2. CASE Done(c)
  BY <1>2, DoneStep DEF FindRow
<1> QED
  BY <1>1, <1>2 DEF FindRow

LEMMA FindAdjustmentStep ==
  ASSUME AttendanceInv, NEW c \in Clerks, FindAdjustment(c)
  PROVE  AttendanceInv'
<1> DEFINE a == card[c].adjustment
           r == adjustment[a].row
<1>1. CASE Undecided(a)
  <2> DEFINE x == [row[r] EXCEPT !.status = adjustment[a].status]
             k == [card[c] EXCEPT !.row = r, !.outdated = FALSE, !.copy = x]
             s == IF card[c].verdict = "approved" THEN "apply" ELSE "settle"
  <2>1. /\ Turn(c, s, k) /\ Quiet /\ stop[c] = "pending" /\ s \in Stops
        /\ card[c] \in Card /\ KindFits(stop[c], card[c])
    BY <1>1, CardKnown DEF FindAdjustment, Stops
  <2>2. /\ a \in Adjustments /\ adjustment[a] # NoAdjustment /\ adjustment[a] \in Adjustment
        /\ r \in Rows /\ row[r].in # 0 /\ row[r] \in Row
    BY <2>1 DEF KindFits, AttendanceInv, VerdictsFit, RowsFit, AttendanceTypeOK
  <2>3. /\ x \in Row /\ x.who = row[r].who /\ x.in = row[r].in
        /\ x = [row[r] EXCEPT !.status = x.status]
    BY <2>2 DEF Row, Adjustment
  <2>4. adjustment[a].state = "pending"
    BY <1>1 DEF Undecided
  <2> HIDE DEF x
  <2>5. /\ k \in Card /\ k.copy = x /\ k.who = card[c].who /\ k.number = card[c].number
        /\ k.adjustment = a /\ k.verdict = card[c].verdict /\ k.row = r /\ k.outdated = FALSE
    BY <2>1, <2>2, <2>3 DEF Card
  <2>6. \/ s = "apply" /\ card[c].verdict = "approved"
        \/ s = "settle" /\ card[c].verdict # "approved"
    OBVIOUS
  <2> HIDE DEF k, s, r
  <2>7. CardFits(s, k, row, mingled)
    <3>1. KindFits(s, k)
      BY <2>1, <2>2, <2>5, <2>6 DEF KindFits
    <3>2. CopyFits(s, k, row)
      BY <2>2, <2>3, <2>5, <2>6 DEF CopyFits
    <3> QED
      BY <2>6, <3>1, <3>2 DEF CardFits
  <2>8. /\ UNCHANGED <<employees, row, log, adjustment, meant, mingled, rushed, applied>>
        /\ policy' \in BOOLEAN /\ hits' \in 0..MaxHits
        /\ contested \subseteq contested' /\ contested' \subseteq Adjustments
    BY <2>1 DEF Quiet, tables, history, AttendanceInv, AttendanceTypeOK
  <2> HIDE DEF a
  <2>9. stop[c] # "settle"
    BY <2>1
  <2>10. k.adjustment \in Adjustments /\ adjustment[k.adjustment] # NoAdjustment
         /\ adjustment[k.adjustment].state = "pending" /\ (s = "settle" => k.verdict # "approved")
    BY <2>2, <2>4, <2>5, <2>6
  <2> QED
    BY <2>1, <2>5, <2>6, <2>7, <2>8, <2>9, <2>10, TurnStep
<1>2. CASE ~Undecided(a)
  BY <1>2, DoneStep DEF FindAdjustment
<1> QED
  BY <1>1, <1>2

LEMMA BreakStep ==
  ASSUME AttendanceInv, NEW c \in Clerks, Break(c)
  PROVE  AttendanceInv'
<1>1. Turn(c, "idle", NoCard) /\ "idle" \in Stops /\ KindFits(stop[c], card[c])
  BY CardKnown DEF Break, Done, Stops
<1>2. /\ UNCHANGED <<employees, row, log, adjustment, meant, mingled, rushed, applied>>
      /\ policy' \in BOOLEAN /\ hits' \in 0..MaxHits
  BY DEF Break, tables, AttendanceInv, AttendanceTypeOK
<1>3. /\ contested \subseteq contested' /\ contested' \subseteq Adjustments
      /\ stop[c] = "settle" /\ card[c].verdict = "approved" => card[c].adjustment \in contested'
  BY <1>1 DEF Break, AttendanceInv, AttendanceTypeOK, KindFits
<1> QED
  BY <1>1, <1>2, <1>3, NothingTyped, IdleFits, TurnStep

(* The log names the check whose row was written. *)
LEMMA WriteLogStep ==
  ASSUME AttendanceInv, NEW c \in Clerks, WriteLog(c)
  PROVE  AttendanceInv'
<1> DEFINE l == <<card[c].kind, card[c].who, card[c].number>>
<1>1. /\ Turn(c, "idle", NoCard) /\ "idle" \in Stops /\ stop[c] = "log" /\ log' = log \cup {l}
      /\ UNCHANGED <<employees, policy, row, adjustment, hits, meant, mingled, rushed, applied, contested>>
      /\ card[c] \in Card /\ KindFits(stop[c], card[c]) /\ LogFits(l, row, mingled)
  BY CardKnown DEF WriteLog, Done, Stops, history, CardFits
<1>2. l \in {"check_in", "check_out"} \X Staff \X (1..MaxHits)
  <2>1. /\ card[c].kind \in {"check_in", "check_out"} /\ card[c].who \in Staff
        /\ card[c].number \in 0..MaxHits /\ card[c].number # 0
    BY <1>1 DEF KindFits, Card
  <2> QED
    BY <2>1, HitsAssumption
<1> HIDE DEF l
<1>3. AttendanceTypeOK'
  BY <1>1, <1>2, NothingTyped, TurnTyped DEF AttendanceInv, AttendanceTypeOK
<1>4. RowsFit'
  BY <1>1 DEF AttendanceInv, RowsFit
<1>5. CardsFit'
  BY <1>1, NothingTyped, IdleFits, CardsTurn
<1>6. LooksFit' /\ TwinRowsHaveCause'
  BY <1>1, NothingTyped, LooksTurn
<1>7. VerdictsFit'
  BY <1>1, NothingTyped, VerdictsTurn
<1> QED
  BY <1>3, <1>4, <1>5, <1>6, <1>7 DEF AttendanceInv

LEMMA PlainStep ==
  ASSUME AttendanceInv, RemoveEmployee \/ CreatePolicy
  PROVE  AttendanceInv'
<1>1. /\ UNCHANGED <<row, log, adjustment, stop, card, hits, meant, mingled, rushed, applied, contested>>
      /\ employees' \subseteq Staff /\ policy' \in BOOLEAN
  BY DEF RemoveEmployee, CreatePolicy, history, AttendanceInv, AttendanceTypeOK
<1>2. AttendanceTypeOK'
  BY <1>1 DEF AttendanceInv, AttendanceTypeOK
<1>3. RowsFit' /\ CardsFit' /\ LooksFit' /\ TwinRowsHaveCause'
  BY <1>1 DEF AttendanceInv, RowsFit, CardsFit, LooksFit, RowsOf, TwinRowsHaveCause, Spare
<1>4. VerdictsFit'
  BY <1>1 DEF AttendanceInv, VerdictsFit, Deciding, Settling
<1> QED
  BY <1>2, <1>3, <1>4 DEF AttendanceInv
-----------------------------------------------------------------------------
LEMMA RequestAdjustmentStep ==
  ASSUME AttendanceInv, RequestAdjustment
  PROVE  AttendanceInv'
<1>1. PICK a \in Adjustments, r \in Rows \ Spare, x \in NewStatuses, t \in BOOLEAN :
        /\ adjustment[a] = NoAdjustment
        /\ adjustment' = [adjustment EXCEPT
             ![a] = [row |-> r, status |-> x, times |-> t, state |-> "pending"]]
  BY DEF RequestAdjustment
<1> DEFINE n == [row |-> r, status |-> x, times |-> t, state |-> "pending"]
<1>2. /\ n \in Adjustment /\ n.row = r /\ n.state = "pending" /\ n # NoAdjustment
      /\ r \in Rows /\ row[r].in # 0
  BY <1>1 DEF Adjustment, NoAdjustment, Statuses, Spare, AttendanceInv, RowsFit, RowFits
<1>3. adjustment' = [adjustment EXCEPT ![a] = n]
  BY <1>1
<1> HIDE DEF n
<1>4. /\ UNCHANGED <<employees, policy, row, log, stop, card, meant, mingled, rushed, applied, contested>>
      /\ hits' \in 0..MaxHits
  BY HitsAssumption DEF RequestAdjustment, history, AttendanceInv, AttendanceTypeOK
<1>5. /\ adjustment' \in [Adjustments -> Adjustment] /\ adjustment'[a] = n
      /\ \A b \in Adjustments : b # a => adjustment'[b] = adjustment[b]
  BY <1>2, <1>3 DEF AttendanceInv, AttendanceTypeOK
<1>6. AttendanceTypeOK'
  BY <1>4, <1>5 DEF AttendanceInv, AttendanceTypeOK
<1>7. RowsFit'
  BY <1>2, <1>4, <1>5 DEF AttendanceInv, RowsFit
<1>8. CardsFit' /\ LooksFit' /\ TwinRowsHaveCause'
  BY <1>4 DEF AttendanceInv, CardsFit, LooksFit, RowsOf, TwinRowsHaveCause, Spare
<1>9. VerdictsFit'
  <2>1. \A c \in Clerks : stop[c] \in {"pending", "apply", "settle"} =>
          /\ card[c].adjustment \in Adjustments /\ adjustment[card[c].adjustment] # NoAdjustment
          /\ card[c].adjustment # a
    BY <1>1, CardKnown DEF AttendanceInv, VerdictsFit, KindFits
  <2>2. \A c \in Clerks : ~Deciding(c, a) /\ ~Settling(c, a)
    BY <2>1 DEF Deciding, Settling
  <2>3. a \notin applied \ contested
    BY <1>1, <2>2 DEF AttendanceInv, VerdictsFit, NoAdjustment
  <2>4. \A c \in Clerks, b \in Adjustments : (Deciding(c, b)' <=> Deciding(c, b)) /\ (Settling(c, b)' <=> Settling(c, b))
    BY <1>4 DEF Deciding, Settling
  <2>5. \A c \in Clerks : stop'[c] \in {"pending", "apply", "settle"} =>
                            adjustment'[card'[c].adjustment] # NoAdjustment
    BY <1>4, <1>5, <2>1
  <2> QED
    BY <1>2, <1>4, <1>5, <2>2, <2>3, <2>4, <2>5 DEF AttendanceInv, VerdictsFit
<1> QED
  BY <1>6, <1>7, <1>8, <1>9 DEF AttendanceInv

(* The verdict is written last: whoever still decides the same adjustment is late. *)
LEMMA SettleStep ==
  ASSUME AttendanceInv, NEW c \in Clerks, SettleAdjustment(c),
         NEW a \in Adjustments, a = card[c].adjustment, NEW v, v = card[c].verdict
  PROVE  AttendanceInv'
<1> DEFINE n == [adjustment[a] EXCEPT !.state = v]
<1>1. /\ Turn(c, "idle", NoCard) /\ "idle" \in Stops /\ stop[c] = "settle"
      /\ card[c] \in Card /\ KindFits(stop[c], card[c])
      /\ v \in {"approved", "rejected"} /\ adjustment[a] \in Adjustment /\ adjustment[a] # NoAdjustment
  <2>1. card[c] \in Card /\ KindFits(stop[c], card[c]) /\ stop[c] = "settle"
    BY CardKnown DEF SettleAdjustment
  <2>2. v \in {"approved", "rejected"}
    BY <2>1 DEF KindFits, Card
  <2> QED
    BY <2>1, <2>2 DEF SettleAdjustment, Done, Stops, AttendanceInv, AttendanceTypeOK, VerdictsFit
<1>2. /\ UNCHANGED <<employees, policy, row, log, hits, meant, mingled, rushed, applied>>
      /\ adjustment' = [adjustment EXCEPT ![a] = n]
      /\ contested \subseteq contested' /\ contested' \subseteq contested \cup {a}
      /\ (\E d \in Clerks \ {c} : Deciding(d, a)) => a \in contested'
  BY <1>1 DEF SettleAdjustment, Deciding, AttendanceInv, AttendanceTypeOK
<1>3. /\ n \in Adjustment /\ n.state = v /\ n.row = adjustment[a].row /\ n.times = adjustment[a].times
      /\ n # NoAdjustment
  BY <1>1 DEF Adjustment, NoAdjustment
<1> HIDE DEF n
<1>4. /\ adjustment' \in [Adjustments -> Adjustment] /\ adjustment'[a] = n
      /\ \A b \in Adjustments : b # a => adjustment'[b] = adjustment[b]
  BY <1>1, <1>2, <1>3 DEF AttendanceInv, AttendanceTypeOK
<1>5. AttendanceTypeOK'
  BY <1>1, <1>2, <1>4, NothingTyped, TurnTyped DEF AttendanceInv, AttendanceTypeOK
<1>6. RowsFit'
  BY <1>1, <1>2, <1>3, <1>4 DEF AttendanceInv, RowsFit
<1>7. CardsFit'
  BY <1>1, <1>2, NothingTyped, IdleFits, CardsTurn
<1>8. LooksFit' /\ TwinRowsHaveCause'
  BY <1>1, <1>2, NothingTyped, LooksTurn
<1>9. VerdictsFit'
  <2>1. /\ stop'[c] = "idle" /\ card'[c] = NoCard
        /\ \A d \in Clerks : d # c => stop'[d] = stop[d] /\ card'[d] = card[d]
    BY <1>1, NothingTyped, TurnTyped
  <2>2. \A d \in Clerks : stop[d] \in {"pending", "apply", "settle"} =>
          card[d].adjustment \in Adjustments /\ adjustment[card[d].adjustment] # NoAdjustment
    BY CardKnown DEF AttendanceInv, VerdictsFit, KindFits
  <2>3. \A d \in Clerks : stop'[d] \in {"pending", "apply", "settle"} =>
                            adjustment'[card'[d].adjustment] # NoAdjustment
    BY <1>3, <1>4, <2>1, <2>2
  <2>4. \A d \in Clerks, b \in Adjustments :
          /\ d # c => (Deciding(d, b)' <=> Deciding(d, b)) /\ (Settling(d, b)' <=> Settling(d, b))
          /\ ~Deciding(c, b)' /\ ~Settling(c, b)'
          /\ b # a => ~Settling(c, b)
    BY <2>1 DEF Deciding, Settling
  <2>5. Deciding(c, a) /\ (Settling(c, a) <=> v = "approved")
    BY <1>1 DEF Deciding, Settling
  <2>6. \A d \in Clerks : Settling(d, a) => Deciding(d, a)
    BY DEF Deciding, Settling
  <2>7. ASSUME NEW b \in Adjustments
        PROVE  /\ \A d \in Clerks : Deciding(d, b)' => adjustment'[b].state = "pending" \/ b \in contested'
               /\ \A d \in Clerks : Settling(d, b)' => b \in applied' /\ ~adjustment'[b].times
               /\ b \in applied' \ contested' =>
                    \/ adjustment'[b].state = "approved"
                    \/ adjustment'[b].state = "pending" /\ \E d \in Clerks : Settling(d, b)'
               /\ adjustment'[b].state = "approved" => b \in applied' /\ ~adjustment'[b].times
    <3>1. CASE b # a
      BY <1>2, <1>4, <2>4, <3>1 DEF AttendanceInv, VerdictsFit
    <3>2. CASE b = a
      <4>1. \A d \in Clerks : Deciding(d, a)' => a \in contested'
        BY <1>2, <2>4
      <4>2. \A d \in Clerks : Settling(d, a) => a \in applied /\ ~adjustment[a].times
        BY <1>1 DEF AttendanceInv, VerdictsFit
      <4>3. a \in applied \ contested' => v = "approved"
        BY <1>1, <1>2, <2>4, <2>5, <2>6 DEF AttendanceInv, VerdictsFit
      <4> QED
        BY <1>2, <1>3, <1>4, <2>4, <2>5, <3>2, <4>1, <4>2, <4>3
    <3> QED
      BY <3>1, <3>2
  <2> QED
    BY <2>3, <2>7 DEF VerdictsFit
<1> QED
  BY <1>5, <1>6, <1>7, <1>8, <1>9 DEF AttendanceInv
-----------------------------------------------------------------------------
(* A logged check stays in its row: no save changes who a row is about and when he
   came, and one that changes when he left fills an empty column or mingles. *)
RowsMove(rw, to, mg, mgTo) ==
  /\ mg \subseteq mgTo
  /\ \A r \in Rows : rw[r].in # 0 =>
       /\ to[r].who = rw[r].who /\ to[r].in = rw[r].in
       /\ r \in mgTo \/ to[r].out = rw[r].out \/ rw[r].out = 0

LEMMA LogMoves ==
  ASSUME NEW rw, NEW to, NEW mg, NEW mgTo, RowsMove(rw, to, mg, mgTo),
         \A r \in Rows : RowFits(rw[r]), NEW l, l[2] \in Staff, l[3] # 0, LogFits(l, rw, mg)
  PROVE  LogFits(l, to, mgTo)
<1>1. \A r \in Rows : rw[r].who = l[2] => rw[r].in # 0
  BY NoughtApart DEF RowFits, NoRow
<1> QED
  BY <1>1 DEF LogFits, RowsMove

LEMMA CardMoves ==
  ASSUME NEW s \in Stops, NEW k \in Card, NEW rw, NEW to, NEW mg, NEW mgTo,
         RowsMove(rw, to, mg, mgTo), \A r \in Rows : RowFits(rw[r]),
         CardFits(s, k, rw, mg),
         s \in {"save", "apply"} => to[k.row] = rw[k.row]
  PROVE  CardFits(s, k, to, mgTo)
<1>1. CASE s = "log"
  <2> DEFINE l == <<k.kind, k.who, k.number>>
  <2>1. l[2] \in Staff /\ l[3] # 0 /\ LogFits(l, rw, mg) /\ KindFits(s, k)
    BY <1>1 DEF CardFits, KindFits
  <2> HIDE DEF l
  <2>2. LogFits(l, to, mgTo)
    BY <2>1, LogMoves
  <2> QED
    BY <1>1, <2>1, <2>2 DEF CardFits, l
<1>2. CASE s \in {"save", "apply"}
  BY <1>2 DEF CardFits, CopyFits
<1>3. CASE s \notin {"log", "save", "apply"}
  BY <1>3 DEF CardFits
<1> QED
  BY <1>1, <1>2, <1>3

LEMMA RowsMoved ==
  ASSUME AttendanceInv, RowsMove(row, row', mingled, mingled'), log' = log, adjustment' = adjustment,
         \A r \in Rows : RowFits(row'[r]) /\ (row'[r] # meant'[r] => r \in mingled')
  PROVE  RowsFit'
<1>1. \A l \in log : LogFits(l, row', mingled')
  <2> SUFFICES ASSUME NEW l \in log PROVE LogFits(l, row', mingled')
    OBVIOUS
  <2>1. l[2] \in Staff /\ l[3] # 0
    BY DEF AttendanceInv, AttendanceTypeOK
  <2>2. LogFits(l, row, mingled) /\ \A r \in Rows : RowFits(row[r])
    BY DEF AttendanceInv, RowsFit
  <2> QED
    BY <2>1, <2>2, LogMoves
<1>2. \A a \in Adjustments : adjustment[a] = NoAdjustment \/
        (adjustment[a].row \in Rows /\ row'[adjustment[a].row].in # 0 /\ adjustment[a].state # "none")
  BY DEF AttendanceInv, RowsFit, RowsMove
<1> QED
  BY <1>1, <1>2 DEF RowsFit

LEMMA KindStays ==
  ASSUME NEW s, NEW k, NEW q, KindFits(s, k), s # "idle", q.kind = k.kind, q.who = k.who,
         q.adjustment = k.adjustment, q.verdict = k.verdict, q.number = k.number, q.copy = k.copy
  PROVE  KindFits(s, q)
  BY DEF KindFits

(* The first of two overlapping check-ins inserts, and so may the second. *)
LEMMA InsertStep ==
  ASSUME AttendanceInv, NEW c \in Clerks, InsertRow(c)
  PROVE  AttendanceInv'
<1> DEFINE s == card[c].who
           x == card[c].copy
<1>1. /\ stop[c] = "insert" /\ card[c] \in Card /\ KindFits(stop[c], card[c])
      /\ CardFits(stop[c], card[c], row, mingled)
  BY CardKnown DEF InsertRow
<1>2. /\ s \in Staff /\ x \in Row /\ x.who = s /\ x.in = card[c].number /\ x.in # 0
      /\ card[c].kind = "check_in"
  BY <1>1 DEF KindFits, Card
<1>3. CASE s \notin employees
  <2>1. Done(c) /\ Quiet
    BY <1>3 DEF InsertRow, Quiet, tables, history
  <2> QED
    BY <1>1, <2>1, DoneStep
<1>4. ASSUME NEW r \in Spare,
             row' = [row EXCEPT ![r] = x], meant' = [meant EXCEPT ![r] = row'[r]],
             rushed' = rushed \cup
               {w \in {s} : \E d \in Clerks \ {c} : card[d].who = s /\ stop[d] \in {"policy", "insert"}},
             Turn(c, "log", card[c])
      PROVE  AttendanceInv'
  <2>1. UNCHANGED <<employees, policy, log, adjustment, hits, mingled, applied, contested>>
    BY DEF InsertRow
  <2>2. /\ r \in Rows /\ row[r] = NoRow /\ row' \in [Rows -> Row] /\ row'[r] = x
        /\ meant' \in [Rows -> Row] /\ meant'[r] = x
        /\ \A q \in Rows : q # r => row'[q] = row[q] /\ meant'[q] = meant[q]
    BY <1>2, <1>4 DEF Spare, AttendanceInv, AttendanceTypeOK
  <2>3. /\ stop' \in [Clerks -> Stops] /\ card' \in [Clerks -> Card]
        /\ stop'[c] = "log" /\ card'[c] = card[c]
        /\ \A d \in Clerks : d # c => stop'[d] = stop[d] /\ card'[d] = card[d]
    <3>1. "log" \in Stops
      BY DEF Stops
    <3> QED
      BY <1>1, <1>4, <3>1, TurnTyped
  <2>4. /\ rushed \subseteq rushed' /\ rushed' \subseteq rushed \cup {s}
        /\ \A d \in Clerks : d # c /\ card[d].who = s /\ stop[d] \in {"policy", "insert"} => s \in rushed'
    BY <1>4
  <2>5. /\ \A q \in Rows : RowFits(row[q]) /\ (row[q] # meant[q] => q \in mingled)
        /\ row[r].in = 0 /\ row[r].who = Nought
    BY <2>2 DEF AttendanceInv, RowsFit, NoRow
  <2>6. s \notin rushed => RowsOf(s) = {}
    BY <1>1 DEF AttendanceInv, LooksFit
  <2> HIDE DEF s, x
  <2>7. AttendanceTypeOK'
    BY <1>2, <2>1, <2>2, <2>3, <2>4 DEF AttendanceInv, AttendanceTypeOK
  <2>8. RowsMove(row, row', mingled, mingled')
    BY <2>1, <2>2, <2>5 DEF RowsMove
  <2>9. RowsFit'
    <3>1. \A q \in Rows : RowFits(row'[q]) /\ (row'[q] # meant'[q] => q \in mingled')
      BY <1>2, <2>1, <2>2, <2>5 DEF RowFits
    <3> QED
      BY <2>1, <2>8, <3>1, RowsMoved
  <2>10. CardsFit'
    <3>1. CardFits("log", card[c], row', mingled')
      <4>1. LogFits(<<card[c].kind, card[c].who, card[c].number>>, row', mingled')
        BY <1>2, <2>2 DEF LogFits, s, x
      <4>2. KindFits("log", card[c])
        BY <1>1 DEF KindFits
      <4> QED
        BY <4>1, <4>2 DEF CardFits
    <3>2. ASSUME NEW d \in Clerks, d # c PROVE CardFits(stop[d], card[d], row', mingled')
      <4>1. /\ card[d] \in Card /\ stop[d] \in Stops /\ CardFits(stop[d], card[d], row, mingled)
        BY CardKnown
      <4>2. stop[d] \in {"save", "apply"} => card[d].row \in Rows /\ row[card[d].row].in # 0
        BY <4>1 DEF CardFits, CopyFits
      <4>3. stop[d] \in {"save", "apply"} => row'[card[d].row] = row[card[d].row]
        BY <2>2, <2>5, <4>2
      <4> QED
        BY <2>5, <2>8, <4>1, <4>3, CardMoves
    <3>3. \A d \in Clerks : CardFits(stop'[d], card'[d], row', mingled')
      BY <2>3, <3>1, <3>2
    <3> QED
      BY <3>3 DEF CardsFit
  <2>11. LooksFit'
    <3>1. ASSUME NEW d \in Clerks, stop'[d] \in {"policy", "insert"}, card'[d].who \notin rushed'
          PROVE  {q \in Rows : row'[q].who = card'[d].who} = {}
      <4>1. d # c /\ stop[d] = stop'[d] /\ card'[d] = card[d]
        BY <2>3, <3>1
      <4>2. card[d].who # s /\ card[d].who \notin rushed
        BY <2>4, <3>1, <4>1
      <4>3. {q \in Rows : row[q].who = card[d].who} = {}
        BY <3>1, <4>1, <4>2 DEF AttendanceInv, LooksFit, RowsOf
      <4> QED
        BY <1>2, <2>2, <4>1, <4>2, <4>3
    <3> QED
      BY <3>1 DEF LooksFit, RowsOf
  <2>12. TwinRowsHaveCause'
    <3>1. \A q \in Rows : q # r /\ row[q].who = s => s \in rushed'
      BY <2>4, <2>6 DEF RowsOf
    <3>2. \A q, t \in Rows : q # t /\ row'[q] # NoRow /\ row'[t] # NoRow /\ row'[q].who = row'[t].who =>
                               row'[q].who \in rushed'
      BY <1>2, <2>2, <2>4, <3>1 DEF AttendanceInv, TwinRowsHaveCause, Spare
    <3> QED
      BY <3>2 DEF TwinRowsHaveCause, Spare
  <2>13. VerdictsFit'
    <3>1. "log" \in Stops
      BY DEF Stops
    <3>2. contested \subseteq contested' /\ stop[c] # "settle"
      BY <1>1, <2>1
    <3> QED
      BY <1>1, <1>4, <2>1, <3>1, <3>2, VerdictsTurn
  <2> QED
    BY <2>7, <2>9, <2>10, <2>11, <2>12, <2>13 DEF AttendanceInv
<1> QED
  BY <1>3, <1>4 DEF InsertRow
-----------------------------------------------------------------------------
(* A saved copy: everyone else who holds a copy of that row holds an old one. *)
LEMMA SaveCards ==
  ASSUME AttendanceInv, NEW c \in Clerks, NEW r \in Rows, r = card[c].row, NEW new, NEW s \in Stops,
         SaveCopy(c, r, new, s)
  PROVE  /\ stop' \in [Clerks -> Stops] /\ card' \in [Clerks -> Card]
         /\ stop'[c] = s /\ card'[c] = card[c]
         /\ \A d \in Clerks : d # c =>
              /\ stop'[d] = stop[d]
              /\ card'[d].kind = card[d].kind /\ card'[d].who = card[d].who /\ card'[d].row = card[d].row
              /\ card'[d].copy = card[d].copy /\ card'[d].adjustment = card[d].adjustment
              /\ card'[d].verdict = card[d].verdict /\ card'[d].number = card[d].number
              /\ card[d].row = r /\ stop[d] \in {"save", "apply"} => card'[d].outdated
              /\ ~(card[d].row = r /\ stop[d] \in {"save", "apply"}) => card'[d] = card[d]
<1>1. card \in [Clerks -> Card] /\ stop \in [Clerks -> Stops]
  BY DEF AttendanceInv, AttendanceTypeOK
<1>2. stop' \in [Clerks -> Stops] /\ stop'[c] = s /\ \A d \in Clerks : d # c => stop'[d] = stop[d]
  BY <1>1 DEF SaveCopy
<1>3. card'[c] = card[c] /\ card'[c] \in Card
  BY <1>1 DEF SaveCopy
<1>4. ASSUME NEW d \in Clerks, d # c
      PROVE  /\ card'[d] \in Card
             /\ card'[d].kind = card[d].kind /\ card'[d].who = card[d].who /\ card'[d].row = card[d].row
             /\ card'[d].copy = card[d].copy /\ card'[d].adjustment = card[d].adjustment
             /\ card'[d].verdict = card[d].verdict /\ card'[d].number = card[d].number
             /\ card[d].row = r /\ stop[d] \in {"save", "apply"} => card'[d].outdated
             /\ ~(card[d].row = r /\ stop[d] \in {"save", "apply"}) => card'[d] = card[d]
  <2>1. card[d] \in Card
    BY <1>1
  <2>2. card'[d] = [card[d] EXCEPT !.outdated = (@ \/ (card[d].row = r /\ stop[d] \in {"save", "apply"}))]
    BY <1>4 DEF SaveCopy
  <2>3. CASE card[d].row = r /\ stop[d] \in {"save", "apply"}
    <3>1. card'[d] = [card[d] EXCEPT !.outdated = TRUE]
      BY <2>2, <2>3
    <3> QED
      BY <2>1, <2>3, <3>1 DEF Card
  <2>4. CASE ~(card[d].row = r /\ stop[d] \in {"save", "apply"})
    <3>1. card'[d] = [card[d] EXCEPT !.outdated = @]
      BY <2>1, <2>2, <2>4 DEF Card
    <3>2. card'[d] = card[d]
      BY <2>1, <3>1 DEF Card
    <3> QED
      BY <2>1, <2>4, <3>2
  <2> QED
    BY <2>3, <2>4
<1>5. card' \in [Clerks -> Card]
  <2>1. \A d \in Clerks : card'[d] \in Card
    BY <1>3, <1>4
  <2>2. DOMAIN card' = Clerks /\ card' = [d \in Clerks |-> card'[d]]
    BY DEF SaveCopy
  <2> QED
    BY <2>1, <2>2
<1> QED
  BY <1>2, <1>3, <1>4, <1>5

LEMMA SaveStep ==
  ASSUME AttendanceInv, NEW c \in Clerks, NEW r \in Rows, r = card[c].row, NEW new \in Row,
         NEW s \in {"log", "settle"}, stop[c] \in {"save", "apply"}, SaveCopy(c, r, new, s),
         ~card[c].outdated /\ row[r] = meant[r] => new = card[c].copy,
         s = "log" <=> stop[c] = "save",
         UNCHANGED <<employees, policy, log, adjustment, hits, rushed, contested>>,
         applied' \subseteq Adjustments
  PROVE  AttendanceTypeOK' /\ RowsFit' /\ CardsFit' /\ LooksFit' /\ TwinRowsHaveCause'
<1> DEFINE x == card[c].copy
<1>1. /\ card[c] \in Card /\ KindFits(stop[c], card[c]) /\ CopyFits(stop[c], card[c], row)
      /\ x \in Row /\ s \in Stops
  BY CardKnown DEF Card, CardFits, Stops
<1>2. /\ row' \in [Rows -> Row] /\ row'[r] = x /\ meant' \in [Rows -> Row] /\ meant'[r] = new
      /\ \A q \in Rows : q # r => row'[q] = row[q] /\ meant'[q] = meant[q]
      /\ mingled' = IF card[c].outdated THEN mingled \cup {r} ELSE mingled
  BY <1>1 DEF SaveCopy, AttendanceInv, AttendanceTypeOK
<1>3. /\ stop' \in [Clerks -> Stops] /\ card' \in [Clerks -> Card]
      /\ stop'[c] = s /\ card'[c] = card[c]
      /\ \A d \in Clerks : d # c =>
           /\ stop'[d] = stop[d]
           /\ card'[d].kind = card[d].kind /\ card'[d].who = card[d].who /\ card'[d].row = card[d].row
           /\ card'[d].copy = card[d].copy /\ card'[d].adjustment = card[d].adjustment
           /\ card'[d].verdict = card[d].verdict /\ card'[d].number = card[d].number
           /\ card[d].row = r /\ stop[d] \in {"save", "apply"} => card'[d].outdated
           /\ ~(card[d].row = r /\ stop[d] \in {"save", "apply"}) => card'[d] = card[d]
  BY <1>1, SaveCards
<1>4. /\ row[r].in # 0 /\ x.who = row[r].who /\ x.in = row[r].in
      /\ stop[c] = "save" => x.out = card[c].number /\ x.who = card[c].who
      /\ ~card[c].outdated => x.out = row[r].out \/ row[r].out = 0
  <2>1. row[r] \in Row
    BY DEF AttendanceInv, AttendanceTypeOK
  <2>2. CASE stop[c] = "save"
    BY <1>1, <2>2 DEF CopyFits
  <2>3. CASE stop[c] = "apply"
    <3>1. ~card[c].outdated => x = [row[r] EXCEPT !.status = x.status]
      BY <1>1, <2>3 DEF CopyFits
    <3>2. ~card[c].outdated => x.out = row[r].out
      BY <2>1, <3>1 DEF Row
    <3> QED
      BY <1>1, <2>3, <3>2 DEF CopyFits
  <2> QED
    BY <2>2, <2>3
<1> HIDE DEF x
<1>5. \A q \in Rows : RowFits(row[q]) /\ (row[q] # meant[q] => q \in mingled)
  BY DEF AttendanceInv, RowsFit
<1>6. RowsMove(row, row', mingled, mingled')
  BY <1>2, <1>4 DEF RowsMove
<1>7. AttendanceTypeOK'
  BY <1>2, <1>3 DEF AttendanceInv, AttendanceTypeOK
<1>8. RowsFit'
  <2>1. RowFits(x)
    BY <1>4, <1>5 DEF RowFits, NoRow
  <2>2. \A q \in Rows : RowFits(row'[q]) /\ (row'[q] # meant'[q] => q \in mingled')
    BY <1>2, <1>5, <2>1 DEF x
  <2> QED
    BY <1>6, <2>2, RowsMoved
<1>9. CardsFit'
  <2>1. CardFits(s, card[c], row', mingled')
    <3>1. KindFits(s, card[c])
      BY <1>1 DEF KindFits
    <3>2. CASE s = "log"
      <4>1. card[c].kind = "check_out"
        BY <1>1, <3>2 DEF KindFits
      <4>2. LogFits(<<card[c].kind, card[c].who, card[c].number>>, row', mingled')
        BY <1>2, <1>4, <3>2, <4>1 DEF LogFits
      <4> QED
        BY <3>1, <3>2, <4>2 DEF CardFits
    <3> QED
      BY <3>1, <3>2 DEF CardFits
  <2>2. ASSUME NEW d \in Clerks, d # c PROVE CardFits(stop'[d], card'[d], row', mingled')
    <3>1. /\ card[d] \in Card /\ stop[d] \in Stops /\ CardFits(stop[d], card[d], row, mingled)
      BY CardKnown
    <3>2. CASE card[d].row = r /\ stop[d] \in {"save", "apply"}
      <4>1. KindFits(stop'[d], card'[d])
        <5>1. stop[d] # "idle" /\ KindFits(stop[d], card[d])
          BY <3>1, <3>2 DEF CardFits
        <5>2. /\ stop'[d] = stop[d] /\ card'[d].kind = card[d].kind /\ card'[d].who = card[d].who
              /\ card'[d].adjustment = card[d].adjustment
              /\ card'[d].verdict = card[d].verdict /\ card'[d].number = card[d].number
              /\ card'[d].copy = card[d].copy
          BY <1>3, <2>2
        <5> QED
          BY <5>1, <5>2, KindStays
      <4>2. CopyFits(stop'[d], card'[d], row')
        <5>1. /\ stop'[d] = stop[d] /\ card'[d].row = r /\ card'[d].copy = card[d].copy
              /\ card'[d].kind = card[d].kind /\ card'[d].who = card[d].who
              /\ card'[d].number = card[d].number /\ card'[d].outdated
          BY <1>3, <2>2, <3>2
        <5>2. CopyFits(stop[d], card[d], row) /\ card[d].row = r
          BY <3>1, <3>2 DEF CardFits
        <5>3. row'[r].in # 0 /\ row'[r].who = row[r].who /\ row'[r].in = row[r].in
          BY <1>2, <1>4
        <5> QED
          BY <5>1, <5>2, <5>3 DEF CopyFits
      <4> QED
        BY <1>3, <2>2, <3>2, <4>1, <4>2 DEF CardFits
    <3>3. CASE ~(card[d].row = r /\ stop[d] \in {"save", "apply"})
      <4>1. stop[d] \in {"save", "apply"} => card[d].row \in Rows /\ card[d].row # r
        BY <3>1, <3>3 DEF CardFits, CopyFits
      <4>2. stop[d] \in {"save", "apply"} => row'[card[d].row] = row[card[d].row]
        BY <1>2, <4>1
      <4>3. CardFits(stop[d], card[d], row', mingled')
        BY <1>5, <1>6, <3>1, <4>2, CardMoves
      <4> QED
        BY <1>3, <2>2, <3>3, <4>3
    <3> QED
      BY <3>2, <3>3
  <2>3. \A d \in Clerks : CardFits(stop'[d], card'[d], row', mingled')
    BY <1>3, <2>1, <2>2
  <2> QED
    BY <2>3 DEF CardsFit
<1>10. \A q \in Rows : row'[q].who = row[q].who
  BY <1>2, <1>4
<1>11. \A d \in Clerks : stop'[d] \in {"policy", "insert"} =>
          /\ stop[d] = stop'[d] /\ card'[d].who = card[d].who
  BY <1>3
<1>12. LooksFit'
  <2>1. \A d \in Clerks : stop[d] \in {"policy", "insert"} /\ card[d].who \notin rushed =>
                            {q \in Rows : row[q].who = card[d].who} = {}
    BY DEF AttendanceInv, LooksFit, RowsOf
  <2>2. \A d \in Clerks : stop'[d] \in {"policy", "insert"} /\ card'[d].who \notin rushed' =>
                            {q \in Rows : row'[q].who = card'[d].who} = {}
    BY <1>10, <1>11, <2>1
  <2> QED
    BY <2>2 DEF LooksFit, RowsOf
<1>13. TwinRowsHaveCause'
  <2>1. \A q \in Rows : row'[q] # NoRow => row[q] # NoRow
    BY <1>2, <1>4 DEF NoRow
  <2> QED
    BY <1>10, <2>1 DEF AttendanceInv, TwinRowsHaveCause, Spare
<1> QED
  BY <1>7, <1>8, <1>9, <1>12, <1>13

LEMMA SaveCheckOutStep ==
  ASSUME AttendanceInv, NEW c \in Clerks, SaveCheckOut(c)
  PROVE  AttendanceInv'
<1> DEFINE x == card[c].copy
           new == [meant[card[c].row] EXCEPT !.out = x.out,
                     !.status = IF x.status = "half_day" THEN "half_day" ELSE @]
<1>1. /\ stop[c] = "save" /\ card[c] \in Card /\ KindFits(stop[c], card[c])
      /\ CopyFits(stop[c], card[c], row) /\ x \in Row /\ card[c].row \in Rows
  BY CardKnown DEF SaveCheckOut, CardFits, CopyFits, Card
<1>2. PICK r \in Rows : r = card[c].row
  BY <1>1
<1>3. SaveCopy(c, r, new, "log")
  BY <1>2 DEF SaveCheckOut
<1>4. UNCHANGED <<employees, policy, log, adjustment, hits, rushed, applied, contested>>
  BY DEF SaveCheckOut
<1>5. row[r] \in Row /\ meant[r] \in Row
  BY DEF AttendanceInv, AttendanceTypeOK
<1>6. new \in Row
  BY <1>1, <1>2, <1>5 DEF Row, Statuses
<1>7. ~card[c].outdated /\ row[r] = meant[r] => new = x
  <2> SUFFICES ASSUME ~card[c].outdated, row[r] = meant[r] PROVE new = x
    OBVIOUS
  <2>1. /\ x = [row[r] EXCEPT !.out = card[c].number, !.status = x.status] /\ x.out = card[c].number
        /\ x.status \in {row[r].status, "half_day"}
    BY <1>1, <1>2 DEF CopyFits
  <2>2. new = [row[r] EXCEPT !.out = x.out,
                 !.status = IF x.status = "half_day" THEN "half_day" ELSE row[r].status]
    BY <1>2, <1>5 DEF Row
  <2>3. (IF x.status = "half_day" THEN "half_day" ELSE row[r].status) = x.status
    BY <2>1
  <2> HIDE DEF new, x
  <2> QED
    BY <2>1, <2>2, <2>3
<1> HIDE DEF new
<1>8. AttendanceTypeOK' /\ RowsFit' /\ CardsFit' /\ LooksFit' /\ TwinRowsHaveCause'
  <2>1. applied' \subseteq Adjustments
    BY <1>4 DEF AttendanceInv, AttendanceTypeOK
  <2> QED
    BY <1>1, <1>2, <1>3, <1>4, <1>6, <1>7, <2>1, SaveStep
<1>9. VerdictsFit'
  <2>1. "log" \in Stops
    BY DEF Stops
  <2>2. /\ stop'[c] = "log"
        /\ \A d \in Clerks : d # c => /\ stop'[d] = stop[d] /\ card'[d].adjustment = card[d].adjustment
                                      /\ card'[d].verdict = card[d].verdict
    BY <1>2, <1>3, <2>1, SaveCards
  <2>3. \A d \in Clerks, a \in Adjustments :
          (Deciding(d, a)' <=> Deciding(d, a)) /\ (Settling(d, a)' <=> Settling(d, a))
    BY <1>1, <2>2 DEF Deciding, Settling
  <2>4. \A d \in Clerks : stop'[d] \in {"pending", "apply", "settle"} =>
                            adjustment'[card'[d].adjustment] # NoAdjustment
    BY <1>4, <2>2 DEF AttendanceInv, VerdictsFit
  <2> QED
    BY <1>4, <2>3, <2>4 DEF AttendanceInv, VerdictsFit
<1> QED
  BY <1>8, <1>9 DEF AttendanceInv

(* An approval writes the row, unless the adjustment asks for new times. *)
LEMMA ApplyStep ==
  ASSUME AttendanceInv, NEW c \in Clerks, ApplyAdjustment(c),
         NEW a \in Adjustments, a = card[c].adjustment
  PROVE  AttendanceInv'
<1> DEFINE x == card[c].copy
           new == [meant[card[c].row] EXCEPT !.status = x.status]
<1>1. /\ stop[c] = "apply" /\ card[c] \in Card /\ KindFits(stop[c], card[c])
      /\ CopyFits(stop[c], card[c], row) /\ x \in Row /\ card[c].row \in Rows
      /\ card[c].verdict = "approved"
  BY CardKnown DEF ApplyAdjustment, CardFits, CopyFits, Card, KindFits
<1>2. CASE adjustment[a].times
  <2>1. Done(c) /\ Quiet
    BY <1>2 DEF ApplyAdjustment, Quiet, tables, history
  <2> QED
    BY <1>1, <2>1, DoneStep
<1>3. CASE ~adjustment[a].times
  <2>1. PICK r \in Rows : r = card[c].row
    BY <1>1
  <2>2. SaveCopy(c, r, new, "settle") /\ applied' = applied \cup {a}
    BY <1>3, <2>1 DEF ApplyAdjustment
  <2>3. UNCHANGED <<employees, policy, log, adjustment, hits, rushed, contested>>
    BY DEF ApplyAdjustment
  <2>4. row[r] \in Row /\ meant[r] \in Row
    BY DEF AttendanceInv, AttendanceTypeOK
  <2>5. new \in Row
    BY <1>1, <2>1, <2>4 DEF Row
  <2>6. ~card[c].outdated /\ row[r] = meant[r] => new = x
    BY <1>1, <2>1 DEF CopyFits
  <2> HIDE DEF new
  <2>7. AttendanceTypeOK' /\ RowsFit' /\ CardsFit' /\ LooksFit' /\ TwinRowsHaveCause'
    <3>1. applied' \subseteq Adjustments
      BY <2>2 DEF AttendanceInv, AttendanceTypeOK
    <3> QED
      BY <1>1, <2>1, <2>2, <2>3, <2>5, <2>6, <3>1, SaveStep
  <2>8. VerdictsFit'
    <3>1. "settle" \in Stops
      BY DEF Stops
    <3>2. /\ stop'[c] = "settle" /\ card'[c] = card[c]
          /\ \A d \in Clerks : d # c => /\ stop'[d] = stop[d] /\ card'[d].adjustment = card[d].adjustment
                                        /\ card'[d].verdict = card[d].verdict
      <4>1. SaveCopy(c, r, new, "settle")
        BY <2>2
      <4> QED
        BY <2>1, <3>1, <4>1, SaveCards
    <3>3. \A d \in Clerks, b \in Adjustments :
            /\ Deciding(d, b)' <=> Deciding(d, b)
            /\ d # c \/ b # a => (Settling(d, b)' <=> Settling(d, b))
      BY <1>1, <3>2 DEF Deciding, Settling
    <3>4. \A d \in Clerks : stop'[d] \in {"pending", "apply", "settle"} =>
                              adjustment'[card'[d].adjustment] # NoAdjustment
      BY <1>1, <2>3, <3>2 DEF AttendanceInv, VerdictsFit
    <3>5. Settling(c, a)' /\ ~Settling(c, a) /\ Deciding(c, a)
      BY <1>1, <3>2 DEF Deciding, Settling
    <3>6. ASSUME NEW b \in Adjustments
          PROVE  /\ \A d \in Clerks : Deciding(d, b)' => adjustment'[b].state = "pending" \/ b \in contested'
                 /\ \A d \in Clerks : Settling(d, b)' => b \in applied' /\ ~adjustment'[b].times
                 /\ b \in applied' \ contested' =>
                      \/ adjustment'[b].state = "approved"
                      \/ adjustment'[b].state = "pending" /\ \E d \in Clerks : Settling(d, b)'
                 /\ adjustment'[b].state = "approved" => b \in applied' /\ ~adjustment'[b].times
      <4>1. CASE b = a
        BY <1>3, <2>2, <2>3, <3>3, <3>5, <4>1 DEF AttendanceInv, VerdictsFit
      <4>2. CASE b # a
        BY <2>2, <2>3, <3>3, <4>2 DEF AttendanceInv, VerdictsFit
      <4> QED
        BY <4>1, <4>2
    <3> QED
      BY <3>4, <3>6 DEF VerdictsFit
  <2> QED
    BY <2>7, <2>8 DEF AttendanceInv
<1> QED
  BY <1>2, <1>3
-----------------------------------------------------------------------------
LEMMA AttendanceNextInv == AttendanceInv /\ [AttendanceNext]_attendanceVars => AttendanceInv'
<1> SUFFICES ASSUME AttendanceInv, [AttendanceNext]_attendanceVars PROVE AttendanceInv'
  OBVIOUS
<1>1. CASE UNCHANGED attendanceVars
  BY <1>1 DEF attendanceVars, AttendanceInv, AttendanceTypeOK, RowsFit, CardsFit, LooksFit, RowsOf,
              TwinRowsHaveCause, Spare, VerdictsFit, Deciding, Settling
<1>2. CASE RequestAdjustment \/ RemoveEmployee \/ CreatePolicy
  BY <1>2, RequestAdjustmentStep, PlainStep
<1>3. ASSUME NEW c \in Clerks,
             \/ BeginCheckIn(c) \/ FindEmployee(c) \/ FindNoRow(c) \/ FindPolicy(c) \/ InsertRow(c)
             \/ WriteLog(c) \/ BeginCheckOut(c) \/ FindRow(c) \/ SaveCheckOut(c) \/ BeginVerdict(c)
             \/ FindAdjustment(c) \/ Break(c)
      PROVE  AttendanceInv'
  BY <1>3, BeginTurnStep, FindEmployeeStep, FindNoRowStep, FindPolicyStep, InsertStep, WriteLogStep,
     FindRowStep, SaveCheckOutStep, FindAdjustmentStep, BreakStep
<1>4. ASSUME NEW c \in Clerks, ApplyAdjustment(c) \/ SettleAdjustment(c) PROVE AttendanceInv'
  <2>1. KindFits(stop[c], card[c]) /\ stop[c] \in {"apply", "settle"}
    BY <1>4, CardKnown DEF ApplyAdjustment, SettleAdjustment
  <2>2. PICK a \in Adjustments : a = card[c].adjustment
    BY <2>1 DEF KindFits
  <2> QED
    BY <1>4, <2>2, ApplyStep, SettleStep
<1> QED
  BY <1>1, <1>2, <1>3, <1>4 DEF AttendanceNext

LEMMA AttendanceInvHolds == AttendanceSpec => []AttendanceInv
  BY AttendanceInitInv, AttendanceNextInv, PTL DEF AttendanceSpec

LEMMA AttendanceInvSuffices == AttendanceInv => AttendanceHolds
<1> SUFFICES ASSUME AttendanceInv PROVE AttendanceHolds
  OBVIOUS
<1>1. RowLossHasCause
  <2>1. ASSUME NEW l \in log
        PROVE  IF l[1] = "check_in" THEN \E r \in RowsOf(l[2]) : row[r].in = l[3]
               ELSE \E r \in RowsOf(l[2]) : row[r].out = l[3] \/ r \in mingled
    BY DEF AttendanceInv, RowsFit, LogFits, RowsOf
  <2> QED
    BY <2>1 DEF RowLossHasCause, AttendanceInv, RowsFit
<1>2. VerdictMatchesRow
  BY DEF VerdictMatchesRow, AttendanceInv, VerdictsFit
<1> QED
  BY <1>1, <1>2 DEF AttendanceHolds, AttendanceInv

(* Whatever the requests do, two rows of one employee need overlapping check-ins, a
   lost check a mingled row, and a verdict and its row agree unless it was contested
   (attendance.service.ts:47-179, 328-371). *)
THEOREM AttendanceKept == AttendanceSpec => []AttendanceHolds
  BY AttendanceInvHolds, AttendanceInvSuffices, PTL
-----------------------------------------------------------------------------
(* A request that has touched the files, or read the row, and not yet the row. *)
Half == {"find_again", "save", "clear", "delete"}
FilesIn(im, p) == im \cap FilesOf(p)
(* The file a product has at rest, and what a request half-way leaves it. *)
KeptOf(p, pa, re) == IF p \in re THEN {} ELSE pa[p]
Owed(at, e, kept) == IF e.kind = "upload" THEN e.path ELSE IF at = "save" THEN kept ELSE {}
HalfWay(at, e, p, im, li, pa, re) ==
  /\ FilesIn(im, p) = Owed(at, e, KeptOf(p, pa, re)) /\ p \in li
  /\ e.kind = "upload" => p \notin re
  /\ at = "save" /\ e.kind = "update" /\ ~e.hand => e.path = pa[p]
ErrandFits(at, e) ==
  /\ at = "idle" => e = NoErrand
  /\ at # "idle" => e.product \in ProductIds /\ e.row \in ProductIds /\ (~e.hand => e.row = e.product)
  /\ at # "idle" /\ e.kind # "update" => ~e.hand
  /\ at # "idle" /\ e.kind = "upload" => e.path \subseteq FilesOf(e.product)
  /\ at = "find" => e.kind # "none" /\ ~e.hand
  /\ at = "find_again" => e.kind \in {"upload", "remove"}
  /\ at = "save" => e.kind \in {"upload", "update"}
  /\ at \in {"clear", "delete"} => e.kind \in {"remove_image", "remove"}
InTurn ==
  \A p \in ProductIds \ (strained \cup handmade) :
    /\ \A r, s \in Sellers : Here(r) = p /\ Here(s) = p /\ place[r] \in Half /\ place[s] \in Half => r = s
    /\ \A s \in Sellers : Here(s) = p /\ place[s] \in Half =>
         HalfWay(place[s], errand[s], p, images, listed, path, refused)
    /\ (\A s \in Sellers : Here(s) = p => place[s] \notin Half) =>
         FilesIn(images, p) = KeptOf(p, path, refused)
(* A path names its own product's file, or one that a body's path has named. *)
Safe(p, f, h) == f \subseteq FilesOf(p) \/ \A q \in ProductIds : f \cap FilesOf(q) # {} => q \in h
PathsSafe ==
  /\ \A p \in ProductIds : Safe(p, path[p], handmade) /\ (p \notin listed => path[p] = {})
  /\ \A s \in Sellers : place[s] = "save" /\ ~errand[s].hand => Safe(Here(s), errand[s].path, handmade)
ImagesInv ==
  /\ ImagesTypeOK /\ InTurn /\ PathsSafe /\ \A s \in Sellers : ErrandFits(place[s], errand[s])
-----------------------------------------------------------------------------
Places == {"idle", "find", "find_again", "save", "clear", "delete"}

LEMMA NoErrandTyped == NoErrand \in Errand /\ ErrandFits("idle", NoErrand)
  BY DEF NoErrand, Errand, Paths, ErrandFits

LEMMA PathsTyped ==
  ASSUME NEW f \in Paths PROVE f \subseteq ProductIds \X Types
  BY DEF Paths

LEMMA ApartFiles ==
  ASSUME NEW p, NEW q, p # q PROVE FilesOf(p) \cap FilesOf(q) = {}
  BY DEF FilesOf

LEMMA SafeGrows ==
  ASSUME NEW p, NEW f, NEW h, NEW k, Safe(p, f, h), h \subseteq k PROVE Safe(p, f, k)
  BY DEF Safe

LEMMA ImagesInitInv == ImagesInit => ImagesInv
<1> SUFFICES ASSUME ImagesInit PROVE ImagesInv
  OBVIOUS
<1>1. ImagesTypeOK
  BY NoErrandTyped, ErrandsAssumption DEF ImagesInit, ImagesTypeOK, Paths
<1>2. InTurn
  BY DEF ImagesInit, InTurn, Half, FilesIn, KeptOf
<1>3. PathsSafe
  BY DEF ImagesInit, PathsSafe, Safe
<1>4. \A s \in Sellers : ErrandFits(place[s], errand[s])
  BY NoErrandTyped DEF ImagesInit
<1> QED
  BY <1>1, <1>2, <1>3, <1>4 DEF ImagesInv

(* One step of a request about p: the files and the rows of other products stay, but
   for those a body's path has named. *)
LEMMA StayStep ==
  ASSUME ImagesInv, NEW s \in Sellers, NEW p \in ProductIds, p = Here(s), place[s] # "idle",
         NEW at \in Half \cup {"idle"}, NEW e \in Errand, Stay(s, at, e), ErrandFits(at, e),
         at # "idle" => e.product = p,
         strained \subseteq strained', strained' \subseteq strained \cup {p},
         handmade \subseteq handmade', handmade' \subseteq ProductIds,
         refused' \subseteq refused \cup {p}, refused \ {p} \subseteq refused',
         listed' \subseteq ProductIds, path' \in [ProductIds -> Paths],
         images' \subseteq ProductIds \X Types,
         \A q \in ProductIds : q # p /\ q \notin handmade' =>
           path'[q] = path[q] /\ (q \in listed' <=> q \in listed) /\ FilesIn(images', q) = FilesIn(images, q),
         \A q \in ProductIds : Safe(q, path'[q], handmade') /\ (q \notin listed' => path'[q] = {}),
         at = "save" /\ ~e.hand => Safe(p, e.path, handmade'),
         p \notin strained' \cup handmade' =>
           \/ place[s] = "find" /\ at = "idle" /\ UNCHANGED <<images, listed, path, refused>>
           \/ /\ Others(s) = {}
              /\ at = "idle" => FilesIn(images', p) = KeptOf(p, path', refused')
              /\ at # "idle" => HalfWay(at, e, p, images', listed', path', refused'),
         errands' = errands
  PROVE  ImagesInv'
<1>1. /\ place' \in [Sellers -> Places] /\ errand' \in [Sellers -> Errand]
      /\ place'[s] = at /\ errand'[s] = e
      /\ \A r \in Sellers : r # s => place'[r] = place[r] /\ errand'[r] = errand[r]
  BY DEF ImagesInv, ImagesTypeOK, Stay, Half, Places
<1>2. ImagesTypeOK'
  BY <1>1 DEF ImagesInv, ImagesTypeOK, Places
<1>3. \A r \in Sellers : ErrandFits(place'[r], errand'[r])
  BY <1>1 DEF ImagesInv
<1>4. \A r \in Sellers : r # s => errand'[r].product = Here(r)
  BY <1>1 DEF Here
<1>5. at = "idle" => e.product \notin ProductIds
  BY NoProductApart DEF ErrandFits, NoErrand
<1>6. ASSUME NEW q \in ProductIds \ (strained' \cup handmade')
      PROVE  /\ \A r, t \in Sellers : errand'[r].product = q /\ errand'[t].product = q
                                        /\ place'[r] \in Half /\ place'[t] \in Half => r = t
             /\ \A r \in Sellers : errand'[r].product = q /\ place'[r] \in Half =>
                  HalfWay(place'[r], errand'[r], q, images', listed', path', refused')
             /\ (\A r \in Sellers : errand'[r].product = q => place'[r] \notin Half) =>
                  FilesIn(images', q) = KeptOf(q, path', refused')
  <2>0. /\ \A r, t \in Sellers : Here(r) = q /\ Here(t) = q /\ place[r] \in Half /\ place[t] \in Half => r = t
        /\ \A r \in Sellers : Here(r) = q /\ place[r] \in Half =>
             HalfWay(place[r], errand[r], q, images, listed, path, refused)
        /\ (\A r \in Sellers : Here(r) = q => place[r] \notin Half) =>
             FilesIn(images, q) = KeptOf(q, path, refused)
    BY DEF ImagesInv, InTurn
  <2>1. CASE q # p
    <3>1. errand'[s].product # q
      BY <1>1, <1>5, <2>1
    <3>2. /\ path'[q] = path[q] /\ (q \in listed' <=> q \in listed) /\ (q \in refused' <=> q \in refused)
          /\ FilesIn(images', q) = FilesIn(images, q)
      BY <2>1
    <3>3. KeptOf(q, path', refused') = KeptOf(q, path, refused)
      BY <3>2 DEF KeptOf
    <3>4. \A b, d : HalfWay(b, d, q, images, listed, path, refused) =>
                    HalfWay(b, d, q, images', listed', path', refused')
      BY <3>2, <3>3 DEF HalfWay
    <3>5. \A r \in Sellers : errand'[r].product = q =>
            Here(r) = q /\ place'[r] = place[r] /\ errand'[r] = errand[r]
      BY <1>1, <1>4, <3>1
    <3>6. \A r \in Sellers : Here(r) = q => errand'[r].product = q /\ place'[r] = place[r]
      BY <1>1, <1>4, <2>1
    <3>7. \A r, t \in Sellers : errand'[r].product = q /\ errand'[t].product = q
                                /\ place'[r] \in Half /\ place'[t] \in Half => r = t
      BY ONLY <2>0, <3>5
    <3>8. \A r \in Sellers : errand'[r].product = q /\ place'[r] \in Half =>
            HalfWay(place'[r], errand'[r], q, images', listed', path', refused')
      <4> SUFFICES ASSUME NEW r \in Sellers, errand'[r].product = q, place'[r] \in Half
                   PROVE  HalfWay(place'[r], errand'[r], q, images', listed', path', refused')
        OBVIOUS
      <4>1. HalfWay(place[r], errand[r], q, images, listed, path, refused)
        BY <2>0, <3>5
      <4> QED
        BY <3>4, <3>5, <4>1
    <3>9. (\A r \in Sellers : errand'[r].product = q => place'[r] \notin Half) =>
            FilesIn(images', q) = KeptOf(q, path', refused')
      BY <2>0, <3>2, <3>3, <3>6
    <3> QED
      BY <3>7, <3>8, <3>9
  <2>2. CASE /\ q = p /\ Others(s) = {}
             /\ at = "idle" => FilesIn(images', p) = KeptOf(p, path', refused')
             /\ at # "idle" => HalfWay(at, e, p, images', listed', path', refused')
    <3>1. \A r \in Sellers : r # s /\ Here(r) = p => place'[r] = "idle"
      BY <1>1, <2>2 DEF Others
    <3>2. \A r \in Sellers : errand'[r].product = p /\ place'[r] \in Half => r = s /\ at # "idle"
      BY <1>1, <1>4, <1>5, <3>1 DEF Half
    <3>3. at # "idle" => errand'[s].product = p /\ place'[s] \in Half
      BY <1>1
    <3> QED
      BY <1>1, <2>2, <3>2, <3>3
  <2>3. CASE q = p /\ at = "idle" /\ place[s] = "find" /\ UNCHANGED <<images, listed, path, refused>>
    <3>1. \A r \in Sellers : errand'[r].product = q => r # s
      BY <1>1, <1>5, <2>3
    <3>2. place[s] \notin Half
      BY <2>3 DEF Half
    <3>3. \A r \in Sellers : Here(r) = q /\ place[r] \in Half => r # s
      BY <3>2
    <3> QED
      BY <1>1, <1>4, <2>0, <2>3, <3>1, <3>3
  <2> QED
    BY <2>1, <2>2, <2>3
<1>7. InTurn'
  BY <1>6 DEF InTurn, Here
<1>8. PathsSafe'
  <2>1. ASSUME NEW r \in Sellers, place'[r] = "save", ~errand'[r].hand
        PROVE  Safe(errand'[r].product, errand'[r].path, handmade')
    <3>1. CASE r = s
      BY <1>1, <2>1, <3>1
    <3>2. CASE r # s
      <4>1. Safe(Here(r), errand[r].path, handmade)
        BY <1>1, <2>1, <3>2 DEF ImagesInv, PathsSafe
      <4> QED
        BY <1>1, <1>4, <3>2, <4>1, SafeGrows
    <3> QED
      BY <3>1, <3>2
  <2> QED
    BY <2>1 DEF PathsSafe, Here
<1> QED
  BY <1>2, <1>3, <1>7, <1>8 DEF ImagesInv

LEMMA StepStrained ==
  ASSUME ImagesInv, NEW s \in Sellers, place[s] # "idle"
  PROVE  /\ errand[s] \in Errand /\ Here(s) \in ProductIds /\ ErrandFits(place[s], errand[s])
         /\ errand[s].product = Here(s) /\ path[Here(s)] \in Paths
         /\ Strain(s) => /\ strained \subseteq strained' /\ strained' \subseteq strained \cup {Here(s)}
                         /\ Here(s) \notin strained' => Others(s) = {} /\ Here(s) \notin strained
  BY DEF ImagesInv, ImagesTypeOK, ErrandFits, Here, Strain

(* What a request finds when no other one about its product is under way. *)
LEMMA AloneFinds ==
  ASSUME ImagesInv, NEW s \in Sellers, place[s] # "idle", Others(s) = {},
         Here(s) \notin strained \cup handmade
  PROVE  /\ place[s] \in Half => HalfWay(place[s], errand[s], Here(s), images, listed, path, refused)
         /\ place[s] \notin Half => FilesIn(images, Here(s)) = KeptOf(Here(s), path, refused)
<1>1. Here(s) \in ProductIds \ (strained \cup handmade)
  BY StepStrained
<1>2. \A r \in Sellers : r # s /\ Here(r) = Here(s) => place[r] \notin Half
  BY DEF Others, Half
<1> QED
  BY <1>1, <1>2 DEF ImagesInv, InTurn

(* What a removal takes from other products is a file that a body's path has named. *)
LEMMA RemovalIsOwn ==
  ASSUME ImagesInv, NEW p \in ProductIds
  PROVE  /\ Removed(p) \subseteq ProductIds \X Types
         /\ \A q \in ProductIds : q # p /\ q \notin handmade => FilesIn(Removed(p), q) = FilesIn(images, q)
<1>1. images \subseteq ProductIds \X Types /\ Safe(p, path[p], handmade)
  BY DEF ImagesInv, ImagesTypeOK, PathsSafe
<1>2. ASSUME NEW q \in ProductIds, q # p, q \notin handmade PROVE path[p] \cap FilesOf(q) = {}
  BY <1>1, <1>2, ApartFiles DEF Safe
<1> QED
  BY <1>1, <1>2 DEF Removed, FilesIn

LEMMA FindsStep ==
  ASSUME ImagesInv, NEW s \in Sellers, NEW kinds, Finds(s, kinds)
  PROVE  /\ place[s] = "find" /\ place[s] # "idle" /\ errand[s] \in Errand /\ Here(s) \in ProductIds
         /\ ErrandFits(place[s], errand[s]) /\ errand[s].product = Here(s) /\ errand[s].kind \in kinds
         /\ strained \subseteq strained' /\ strained' \subseteq strained \cup {Here(s)}
         /\ UNCHANGED <<listed, path, errands, handmade>> /\ Here(s) \in listed
         /\ handmade \subseteq ProductIds /\ listed \subseteq ProductIds /\ path \in [ProductIds -> Paths]
         /\ refused \subseteq ProductIds
         /\ \A q \in ProductIds : Safe(q, path[q], handmade) /\ (q \notin listed => path[q] = {})
         /\ Here(s) \notin strained' \cup handmade =>
              Others(s) = {} /\ FilesIn(images, Here(s)) = KeptOf(Here(s), path, refused)
<1>1. place[s] = "find" /\ place[s] # "idle" /\ place[s] \notin Half
  BY DEF Finds, Half
<1>2. Here(s) \notin strained' => Others(s) = {} /\ Here(s) \notin strained
  BY <1>1, StepStrained DEF Finds
<1>3. Here(s) \notin strained' \cup handmade => FilesIn(images, Here(s)) = KeptOf(Here(s), path, refused)
  BY <1>1, <1>2, AloneFinds
<1> QED
  BY <1>1, <1>2, <1>3, StepStrained DEF Finds, ImagesInv, ImagesTypeOK, PathsSafe

LEMMA FindNothingStep ==
  ASSUME ImagesInv, NEW s \in Sellers, FindNothing(s)
  PROVE  ImagesInv'
<1>1. /\ place[s] = "find" /\ place[s] # "idle" /\ Here(s) \in ProductIds
      /\ strained \subseteq strained' /\ strained' \subseteq strained \cup {Here(s)}
      /\ Stay(s, "idle", NoErrand)
      /\ UNCHANGED <<listed, path, images, errands, handmade, refused>>
  BY StepStrained DEF FindNothing, Leave
<1>2. /\ handmade \subseteq ProductIds /\ listed \subseteq ProductIds /\ path \in [ProductIds -> Paths]
      /\ images \subseteq ProductIds \X Types
      /\ \A q \in ProductIds : Safe(q, path[q], handmade) /\ (q \notin listed => path[q] = {})
  BY DEF ImagesInv, ImagesTypeOK, PathsSafe
<1> QED
  BY <1>1, <1>2, NoErrandTyped, StayStep

LEMMA FindForUploadStep ==
  ASSUME ImagesInv, NEW s \in Sellers, FindForUpload(s)
  PROVE  ImagesInv'
<1> DEFINE p == Here(s)
           e == errand[s]
<1>0. Finds(s, {"upload"})
  BY DEF FindForUpload
<1>1. /\ place[s] = "find" /\ place[s] # "idle" /\ e \in Errand /\ p \in ProductIds
      /\ ErrandFits("find", e) /\ e.product = p /\ e.kind = "upload" /\ p \in listed
      /\ strained \subseteq strained' /\ strained' \subseteq strained \cup {p}
      /\ UNCHANGED <<listed, path, errands, handmade>>
      /\ handmade \subseteq ProductIds /\ listed \subseteq ProductIds /\ path \in [ProductIds -> Paths]
      /\ \A q \in ProductIds : Safe(q, path[q], handmade) /\ (q \notin listed => path[q] = {})
      /\ p \notin strained' \cup handmade =>
           Others(s) = {} /\ FilesIn(images, p) = KeptOf(p, path, refused)
  BY <1>0, FindsStep
<1>2. e.path \subseteq FilesOf(p) /\ e.path \subseteq ProductIds \X Types /\ ~e.hand
  BY <1>1 DEF ErrandFits, FilesOf
<1>3. p \notin strained' \cup handmade => FilesIn(Removed(p), p) = {}
  BY <1>1 DEF FilesIn, Removed, KeptOf
<1>4. /\ Removed(p) \subseteq ProductIds \X Types
      /\ \A q \in ProductIds : q # p /\ q \notin handmade => FilesIn(Removed(p), q) = FilesIn(images, q)
  BY <1>1, RemovalIsOwn
<1>5. CASE images' = Replaced(p, e.path) /\ Stay(s, "find_again", e) /\ refused' = refused \ {p}
  <2>1. images' \subseteq ProductIds \X Types
    BY <1>2, <1>4, <1>5 DEF Replaced
  <2>2. \A q \in ProductIds : q # p /\ q \notin handmade => FilesIn(images', q) = FilesIn(images, q)
    <3>1. \A q \in ProductIds : q # p => e.path \cap FilesOf(q) = {}
      BY <1>2, ApartFiles
    <3> HIDE DEF e, p
    <3> QED
      BY <1>4, <1>5, <3>1 DEF Replaced, FilesIn
  <2>3. p \notin strained' \cup handmade => FilesIn(images', p) = e.path
    <3> HIDE DEF e, p
    <3> QED
      BY <1>2, <1>3, <1>5 DEF Replaced, FilesIn
  <2>4. p \notin strained' \cup handmade =>
          HalfWay("find_again", e, p, images', listed', path', refused')
    BY <1>1, <1>5, <2>3 DEF HalfWay, Owed
  <2>5. ErrandFits("find_again", e) /\ "find_again" \in Half
    BY <1>1 DEF ErrandFits, Half
  <2> HIDE DEF e, p
  <2> QED
    BY <1>1, <1>5, <2>1, <2>2, <2>4, <2>5, StayStep DEF p
<1>6. CASE images' = Removed(p) /\ Leave(s) /\ refused' = refused \cup {p}
  <2>1. Stay(s, "idle", NoErrand)
    BY <1>6 DEF Leave
  <2>2. p \notin strained' \cup handmade => FilesIn(images', p) = KeptOf(p, path', refused')
    BY <1>3, <1>6 DEF KeptOf
  <2> HIDE DEF e, p
  <2> QED
    BY <1>1, <1>4, <1>6, <2>1, <2>2, NoErrandTyped, StayStep DEF p
<1> QED
  BY <1>5, <1>6 DEF FindForUpload

LEMMA FindForRemovalStep ==
  ASSUME ImagesInv, NEW s \in Sellers, FindForRemoval(s)
  PROVE  ImagesInv'
<1> DEFINE p == Here(s)
           e == errand[s]
           at == IF e.kind = "remove" THEN "find_again" ELSE "clear"
<1>0. Finds(s, {"remove_image", "remove"})
  BY DEF FindForRemoval
<1>1. /\ place[s] = "find" /\ place[s] # "idle" /\ e \in Errand /\ p \in ProductIds
      /\ ErrandFits("find", e) /\ e.product = p /\ e.kind \in {"remove_image", "remove"} /\ p \in listed
      /\ strained \subseteq strained' /\ strained' \subseteq strained \cup {p}
      /\ UNCHANGED <<listed, path, errands, handmade>>
      /\ handmade \subseteq ProductIds /\ listed \subseteq ProductIds /\ path \in [ProductIds -> Paths]
      /\ \A q \in ProductIds : Safe(q, path[q], handmade) /\ (q \notin listed => path[q] = {})
      /\ p \notin strained' \cup handmade =>
           Others(s) = {} /\ FilesIn(images, p) = KeptOf(p, path, refused)
  BY <1>0, FindsStep
<1>2. images' = Removed(p) /\ Stay(s, at, e) /\ refused' = refused
  BY DEF FindForRemoval
<1>3. p \notin strained' \cup handmade => FilesIn(images', p) = {}
  BY <1>1, <1>2 DEF FilesIn, Removed, KeptOf
<1>4. /\ images' \subseteq ProductIds \X Types
      /\ \A q \in ProductIds : q # p /\ q \notin handmade => FilesIn(images', q) = FilesIn(images, q)
  BY <1>1, <1>2, RemovalIsOwn
<1>5. ErrandFits(at, e) /\ at \in Half /\ at # "idle" /\ at # "save"
  BY <1>1 DEF ErrandFits, Half
<1>6. p \notin strained' \cup handmade => HalfWay(at, e, p, images', listed', path', refused')
  BY <1>1, <1>3, <1>5 DEF HalfWay, Owed
<1> HIDE DEF e, p, at
<1> QED
  BY <1>1, <1>2, <1>4, <1>5, <1>6, StayStep DEF p

LEMMA FindForUpdateStep ==
  ASSUME ImagesInv, NEW s \in Sellers, FindForUpdate(s)
  PROVE  ImagesInv'
<1> DEFINE p == Here(s)
<1>0. Finds(s, {"update"}) /\ UNCHANGED <<images, refused>>
  BY DEF FindForUpdate
<1>1. /\ place[s] = "find" /\ place[s] # "idle" /\ errand[s] \in Errand /\ p \in ProductIds
      /\ ErrandFits("find", errand[s]) /\ errand[s].product = p /\ errand[s].kind = "update" /\ p \in listed
      /\ strained \subseteq strained' /\ strained' \subseteq strained \cup {p}
      /\ UNCHANGED <<listed, path, errands, handmade>>
      /\ handmade \subseteq ProductIds /\ listed \subseteq ProductIds /\ path \in [ProductIds -> Paths]
      /\ \A q \in ProductIds : Safe(q, path[q], handmade) /\ (q \notin listed => path[q] = {})
      /\ p \notin strained' \cup handmade =>
           Others(s) = {} /\ FilesIn(images, p) = KeptOf(p, path, refused)
  BY <1>0, FindsStep
<1>2. images \subseteq ProductIds \X Types
  BY DEF ImagesInv, ImagesTypeOK
<1>3. ASSUME NEW e \in Errand, Stay(s, "save", e), e.kind = "update", e.product = p, e.row \in ProductIds,
             ~e.hand => e.row = p /\ e.path = path[p]
      PROVE  ImagesInv'
  <2>1. ErrandFits("save", e) /\ "save" \in Half
    BY <1>1, <1>3 DEF ErrandFits, Half
  <2>2. p \notin strained' \cup handmade => HalfWay("save", e, p, images', listed', path', refused')
    BY <1>0, <1>1, <1>3 DEF HalfWay, Owed
  <2>3. ~e.hand => Safe(p, e.path, handmade)
    BY <1>1, <1>3
  <2> HIDE DEF p
  <2> QED
    BY <1>0, <1>1, <1>2, <1>3, <2>1, <2>2, <2>3, StayStep DEF p
<1>4. CASE Stay(s, "save", [errand[s] EXCEPT !.path = path[Here(s)]])
  <2> DEFINE e == [errand[s] EXCEPT !.path = path[p]]
  <2>1. path[p] \in Paths /\ ~errand[s].hand /\ errand[s].row = p
    BY <1>1 DEF ErrandFits
  <2>2. e \in Errand /\ e.kind = "update" /\ e.product = p /\ e.row = p /\ e.path = path[p]
    BY <1>1, <2>1 DEF Errand
  <2> QED
    BY <1>1, <1>3, <1>4, <2>2
<1>5. ASSUME NEW q \in ProductIds, NEW f \in Paths,
             Stay(s, "save", [errand[s] EXCEPT !.row = q, !.path = f, !.hand = TRUE])
      PROVE  ImagesInv'
  <2> DEFINE e == [errand[s] EXCEPT !.row = q, !.path = f, !.hand = TRUE]
  <2>1. e \in Errand /\ e.kind = "update" /\ e.product = p /\ e.row = q /\ e.hand
    BY <1>1 DEF Errand
  <2> QED
    BY <1>3, <1>5, <2>1
<1> QED
  BY <1>4, <1>5 DEF FindForUpdate

LEMMA FindAgainStep ==
  ASSUME ImagesInv, NEW s \in Sellers, FindAgain(s)
  PROVE  ImagesInv'
<1> DEFINE p == Here(s)
<1>1. /\ place[s] = "find_again" /\ place[s] # "idle" /\ errand[s] \in Errand /\ p \in ProductIds
      /\ ErrandFits(place[s], errand[s]) /\ errand[s].product = p
      /\ strained \subseteq strained' /\ strained' \subseteq strained \cup {p}
      /\ p \notin strained' => Others(s) = {} /\ p \notin strained
      /\ UNCHANGED <<listed, path, images, errands, handmade, refused>>
  BY StepStrained DEF FindAgain
<1>2. /\ handmade \subseteq ProductIds /\ listed \subseteq ProductIds /\ path \in [ProductIds -> Paths]
      /\ images \subseteq ProductIds \X Types
      /\ \A q \in ProductIds : Safe(q, path[q], handmade) /\ (q \notin listed => path[q] = {})
  BY DEF ImagesInv, ImagesTypeOK, PathsSafe
<1>3. p \notin strained' \cup handmade => HalfWay("find_again", errand[s], p, images, listed, path, refused)
  BY <1>1, AloneFinds DEF Half
<1>4. CASE p \notin listed
  <2>1. Stay(s, "idle", NoErrand)
    BY <1>4 DEF FindAgain, Leave
  <2>2. p \in strained' \cup handmade
    BY <1>3, <1>4 DEF HalfWay
  <2> HIDE DEF p
  <2> QED
    BY <1>1, <1>2, <2>1, <2>2, NoErrandTyped, StayStep DEF p
<1>5. CASE p \in listed
  <2> DEFINE at == IF errand[s].kind = "remove" THEN "delete" ELSE "save"
  <2>1. Stay(s, at, errand[s]) /\ at \in Half /\ at # "idle" /\ ErrandFits(at, errand[s])
    BY <1>1, <1>5 DEF FindAgain, ErrandFits, Half
  <2>2. p \notin strained' \cup handmade => HalfWay(at, errand[s], p, images, listed, path, refused)
    BY <1>1, <1>3 DEF HalfWay, Owed, ErrandFits
  <2>3. at = "save" => Safe(p, errand[s].path, handmade)
    BY <1>1 DEF ErrandFits, Safe
  <2> HIDE DEF p, at
  <2> QED
    BY <1>1, <1>2, <2>1, <2>2, <2>3, StayStep DEF p
<1> QED
  BY <1>4, <1>5

(* A path written by hand is safe: whoever's file it names is noted. *)
LEMMA ByHandIsSafe ==
  ASSUME NEW p \in ProductIds, NEW f \in Paths, ByHand(p, f), handmade \subseteq ProductIds
  PROVE  /\ handmade \subseteq handmade' /\ handmade' \subseteq ProductIds /\ p \in handmade'
         /\ \A q : Safe(q, f, handmade')
  BY DEF ByHand, Safe

LEMMA SaveProductStep ==
  ASSUME ImagesInv, NEW s \in Sellers, SaveProduct(s)
  PROVE  ImagesInv'
<1> DEFINE p == Here(s)
           e == errand[s]
<1>1. /\ place[s] = "save" /\ place[s] # "idle" /\ e \in Errand /\ p \in ProductIds
      /\ ErrandFits("save", e) /\ e.product = p
      /\ strained \subseteq strained' /\ strained' \subseteq strained \cup {p}
      /\ p \notin strained' => Others(s) = {} /\ p \notin strained
      /\ UNCHANGED <<images, errands, refused>> /\ Stay(s, "idle", NoErrand)
      /\ listed' = listed \cup {e.row} /\ path' = [path EXCEPT ![e.row] = e.path]
      /\ IF e.hand THEN ByHand(e.row, e.path) ELSE UNCHANGED handmade
  BY StepStrained DEF SaveProduct, Leave
<1>2. /\ handmade \subseteq ProductIds /\ listed \subseteq ProductIds /\ path \in [ProductIds -> Paths]
      /\ images \subseteq ProductIds \X Types
      /\ \A q \in ProductIds : Safe(q, path[q], handmade) /\ (q \notin listed => path[q] = {})
      /\ ~e.hand => Safe(p, e.path, handmade)
  BY <1>1 DEF ImagesInv, ImagesTypeOK, PathsSafe
<1>3. e.row \in ProductIds /\ e.path \in Paths /\ (~e.hand => e.row = p)
  BY <1>1 DEF ErrandFits, Errand
<1> HIDE DEF e
<1>4. /\ path' \in [ProductIds -> Paths] /\ path'[e.row] = e.path /\ listed' \subseteq ProductIds
      /\ \A q \in ProductIds : q # e.row => path'[q] = path[q] /\ (q \in listed' <=> q \in listed)
  BY <1>1, <1>2, <1>3
<1>5. /\ handmade \subseteq handmade' /\ handmade' \subseteq ProductIds
      /\ e.hand => e.row \in handmade'
      /\ Safe(e.row, e.path, handmade')
  BY <1>1, <1>2, <1>3, ByHandIsSafe
<1>6. \A q \in ProductIds : Safe(q, path'[q], handmade') /\ (q \notin listed' => path'[q] = {})
  BY <1>1, <1>2, <1>4, <1>5, SafeGrows
<1>7. ASSUME p \notin strained' \cup handmade'
      PROVE  FilesIn(images', p) = KeptOf(p, path', refused')
  <2>1. HalfWay("save", e, p, images, listed, path, refused)
    BY <1>1, <1>5, <1>7, AloneFinds DEF Half, e
  <2>2. FilesIn(images, p) = Owed("save", e, KeptOf(p, path, refused))
    BY <2>1 DEF HalfWay
  <2>3. CASE e.kind = "upload"
    BY <1>1, <1>3, <1>4, <2>1, <2>2, <2>3 DEF HalfWay, Owed, KeptOf, ErrandFits
  <2>4. CASE e.kind = "update"
    <3>1. path'[p] = path[p]
      <4>1. CASE e.hand
        BY <1>1, <1>4, <1>5, <1>7, <4>1
      <4>2. CASE ~e.hand
        <5>1. e.path = path[p]
          BY <2>1, <2>4, <4>2 DEF HalfWay
        <5> QED
          BY <1>3, <1>4, <4>2, <5>1
      <4> QED
        BY <4>1, <4>2
    <3> QED
      BY <1>1, <2>2, <2>4, <3>1 DEF Owed, KeptOf
  <2> QED
    BY <1>1, <2>3, <2>4 DEF ErrandFits
<1>8. \A q \in ProductIds : q # p /\ q \notin handmade' =>
        path'[q] = path[q] /\ (q \in listed' <=> q \in listed) /\ FilesIn(images', q) = FilesIn(images, q)
  BY <1>1, <1>3, <1>4, <1>5
<1> HIDE DEF p
<1> QED
  BY <1>1, <1>2, <1>4, <1>5, <1>6, <1>7, <1>8, NoErrandTyped, StayStep DEF p

(* The path cleared and the row removed. *)
LEMMA ClearOrDeleteStep ==
  ASSUME ImagesInv, NEW s \in Sellers, ClearPath(s) \/ DeleteProduct(s)
  PROVE  ImagesInv'
<1> DEFINE p == Here(s)
<1>1. /\ place[s] \in {"clear", "delete"} /\ place[s] # "idle" /\ place[s] \in Half
      /\ p \in ProductIds /\ ErrandFits(place[s], errand[s])
      /\ strained \subseteq strained' /\ strained' \subseteq strained \cup {p}
      /\ p \notin strained' => Others(s) = {} /\ p \notin strained
      /\ UNCHANGED <<images, errands, handmade, refused>> /\ Stay(s, "idle", NoErrand)
      /\ listed' \in {listed, listed \ {p}} /\ path' = [path EXCEPT ![p] = {}]
  BY StepStrained DEF ClearPath, DeleteProduct, Leave, Half
<1>2. /\ handmade \subseteq ProductIds /\ listed \subseteq ProductIds /\ path \in [ProductIds -> Paths]
      /\ images \subseteq ProductIds \X Types
      /\ \A q \in ProductIds : Safe(q, path[q], handmade) /\ (q \notin listed => path[q] = {})
  BY DEF ImagesInv, ImagesTypeOK, PathsSafe
<1>3. /\ path' \in [ProductIds -> Paths] /\ path'[p] = {} /\ listed' \subseteq ProductIds
      /\ \A q \in ProductIds : q # p => path'[q] = path[q] /\ (q \in listed' <=> q \in listed)
  BY <1>1, <1>2 DEF Paths
<1>4. \A q \in ProductIds : Safe(q, path'[q], handmade) /\ (q \notin listed' => path'[q] = {})
  <2>1. Safe(p, {}, handmade)
    BY DEF Safe
  <2> QED
    BY <1>2, <1>3, <2>1
<1>5. p \notin strained' \cup handmade => FilesIn(images', p) = KeptOf(p, path', refused')
  <2>1. p \notin strained' \cup handmade => FilesIn(images, p) = Owed(place[s], errand[s], KeptOf(p, path, refused))
    BY <1>1, AloneFinds DEF HalfWay
  <2>2. Owed(place[s], errand[s], KeptOf(p, path, refused)) = {}
    BY <1>1 DEF Owed, ErrandFits
  <2> QED
    BY <1>1, <1>3, <2>1, <2>2 DEF KeptOf
<1> HIDE DEF p
<1> QED
  BY <1>1, <1>2, <1>3, <1>4, <1>5, NoErrandTyped, StayStep DEF p

LEMMA BreakOffStep ==
  ASSUME ImagesInv, NEW s \in Sellers, BreakOff(s)
  PROVE  ImagesInv'
<1> DEFINE p == Here(s)
<1>1. /\ place[s] # "idle" /\ p \in ProductIds
      /\ UNCHANGED <<listed, path, images, errands, handmade, refused>>
      /\ strained \subseteq strained' /\ strained' \subseteq strained \cup {p}
      /\ Stay(s, "idle", NoErrand)
  BY StepStrained DEF BreakOff, Leave
<1>2. p \notin strained' => place[s] = "find"
  BY DEF BreakOff, ImagesInv, ImagesTypeOK
<1>3. /\ handmade \subseteq ProductIds /\ listed \subseteq ProductIds /\ path \in [ProductIds -> Paths]
      /\ images \subseteq ProductIds \X Types
      /\ \A q \in ProductIds : Safe(q, path[q], handmade) /\ (q \notin listed => path[q] = {})
  BY DEF ImagesInv, ImagesTypeOK, PathsSafe
<1> HIDE DEF p
<1> QED
  BY <1>1, <1>2, <1>3, NoErrandTyped, StayStep DEF p

LEMMA BeginErrandStep ==
  ASSUME ImagesInv, NEW s \in Sellers, Begin(s)
  PROVE  ImagesInv'
<1>1. PICK k \in {"upload", "remove_image", "update", "remove"}, p \in ProductIds, t \in Types :
        Stay(s, "find", [kind |-> k, product |-> p, row |-> p, hand |-> FALSE,
                         path |-> IF k = "upload" THEN {<<p, t>>} ELSE {}])
  BY DEF Begin
<1> DEFINE f == IF k = "upload" THEN {<<p, t>>} ELSE {}
           e == [kind |-> k, product |-> p, row |-> p, hand |-> FALSE, path |-> f]
<1>2. f \in Paths /\ f \subseteq FilesOf(p)
  BY DEF Paths, FilesOf
<1>3. Stay(s, "find", e)
  BY <1>1
<1> HIDE DEF f
<1>4. e \in Errand /\ ErrandFits("find", e)
  BY <1>2 DEF Errand, ErrandFits
<1> HIDE DEF e
<1>5. /\ place' \in [Sellers -> Places] /\ errand' \in [Sellers -> Errand]
      /\ place'[s] = "find" /\ errand'[s] = e
      /\ \A r \in Sellers : r # s => place'[r] = place[r] /\ errand'[r] = errand[r]
  BY <1>3, <1>4 DEF ImagesInv, ImagesTypeOK, Stay, Places
<1>6. /\ place[s] = "idle" /\ UNCHANGED <<listed, path, images, strained, handmade, refused>>
      /\ errands' \in 0..MaxErrands
  BY ErrandsAssumption DEF Begin, ImagesInv, ImagesTypeOK
<1>7. ImagesTypeOK'
  BY <1>5, <1>6 DEF ImagesInv, ImagesTypeOK, Places
<1>8. InTurn'
  <2>1. \A r \in Sellers : place'[r] \in Half <=> place[r] \in Half
    BY <1>5, <1>6 DEF Half
  <2>2. \A r \in Sellers : place[r] \in Half => place'[r] = place[r] /\ errand'[r] = errand[r]
    BY <1>5, <1>6 DEF Half
  <2> QED
    BY <1>6, <2>1, <2>2 DEF ImagesInv, InTurn, Here
<1>9. PathsSafe'
  <2>1. \A r \in Sellers : place'[r] = "save" => r # s
    BY <1>5
  <2> QED
    BY <1>5, <1>6, <2>1 DEF ImagesInv, PathsSafe, Here
<1> QED
  BY <1>4, <1>5, <1>7, <1>8, <1>9 DEF ImagesInv

LEMMA CreateStep ==
  ASSUME ImagesInv, Create
  PROVE  ImagesInv'
<1>1. PICK p \in ProductIds :
        /\ listed' = listed \cup {p}
        /\ \/ /\ p \notin listed \cup strained \cup handmade /\ \A s \in Sellers : Here(s) # p
              /\ path' = [path EXCEPT ![p] = {}] /\ UNCHANGED handmade
           \/ \E f \in Paths : path' = [path EXCEPT ![p] = f] /\ ByHand(p, f)
  BY DEF Create
<1>2. UNCHANGED <<images, place, errand, strained, refused>> /\ errands' \in 0..MaxErrands
  BY ErrandsAssumption DEF Create, ImagesInv, ImagesTypeOK
<1>3. /\ handmade \subseteq ProductIds /\ listed \subseteq ProductIds /\ path \in [ProductIds -> Paths]
      /\ \A q \in ProductIds : Safe(q, path[q], handmade) /\ (q \notin listed => path[q] = {})
  BY DEF ImagesInv, ImagesTypeOK, PathsSafe
<1>4. PICK f \in Paths : /\ path' = [path EXCEPT ![p] = f]
                         /\ \/ f = {} /\ handmade' = handmade
                            \/ ByHand(p, f)
  BY <1>1 DEF Paths
<1>5. /\ path' \in [ProductIds -> Paths] /\ path'[p] = f
      /\ \A q \in ProductIds : q # p => path'[q] = path[q] /\ (q \in listed' <=> q \in listed)
  BY <1>1, <1>3, <1>4
<1>6. handmade \subseteq handmade' /\ handmade' \subseteq ProductIds /\ Safe(p, f, handmade')
  <2>1. Safe(p, {}, handmade)
    BY DEF Safe
  <2> QED
    BY <1>3, <1>4, <2>1, ByHandIsSafe
<1>7. ImagesTypeOK' /\ \A s \in Sellers : ErrandFits(place'[s], errand'[s])
  BY <1>1, <1>2, <1>3, <1>5, <1>6 DEF ImagesInv, ImagesTypeOK
<1>8. PathsSafe'
  <2>1. \A q \in ProductIds : Safe(q, path'[q], handmade') /\ (q \notin listed' => path'[q] = {})
    BY <1>1, <1>3, <1>5, <1>6, SafeGrows
  <2>2. \A s \in Sellers : place[s] = "save" /\ ~errand[s].hand => Safe(Here(s), errand[s].path, handmade')
    BY <1>6, SafeGrows DEF ImagesInv, PathsSafe
  <2> QED
    BY <1>2, <2>1, <2>2 DEF PathsSafe, Here
<1>9. InTurn'
  <2> SUFFICES ASSUME NEW q \in ProductIds, q \notin strained, q \notin handmade'
               PROVE  /\ \A r, s \in Sellers :
                           Here(r) = q /\ Here(s) = q /\ place[r] \in Half /\ place[s] \in Half => r = s
                      /\ \A s \in Sellers : Here(s) = q /\ place[s] \in Half =>
                           HalfWay(place[s], errand[s], q, images, listed', path', refused)
                      /\ (\A s \in Sellers : Here(s) = q => place[s] \notin Half) =>
                           FilesIn(images, q) = KeptOf(q, path', refused)
    BY <1>2 DEF InTurn, Here
  <2>0. /\ \A r, s \in Sellers :
             Here(r) = q /\ Here(s) = q /\ place[r] \in Half /\ place[s] \in Half => r = s
        /\ \A s \in Sellers : Here(s) = q /\ place[s] \in Half =>
             HalfWay(place[s], errand[s], q, images, listed, path, refused)
        /\ (\A s \in Sellers : Here(s) = q => place[s] \notin Half) =>
             FilesIn(images, q) = KeptOf(q, path, refused)
    BY <1>6 DEF ImagesInv, InTurn
  <2>1. CASE q # p
    BY <1>5, <2>0, <2>1 DEF HalfWay, KeptOf
  <2>2. CASE q = p
    <3>1. p \notin listed /\ (\A s \in Sellers : Here(s) # p) /\ path' = [path EXCEPT ![p] = {}]
      BY <1>1, <1>3, <2>2, ByHandIsSafe
    <3>2. path[p] = {} /\ path'[p] = {}
      BY <1>3, <3>1
    <3>3. KeptOf(p, path', refused) = KeptOf(p, path, refused)
      BY <3>2 DEF KeptOf
    <3> QED
      BY <2>0, <2>2, <3>1, <3>3
  <2> QED
    BY <2>1, <2>2
<1> QED
  BY <1>7, <1>8, <1>9 DEF ImagesInv
-----------------------------------------------------------------------------
LEMMA ImagesNextInv == ImagesInv /\ [ImagesNext]_imageVars => ImagesInv'
<1> SUFFICES ASSUME ImagesInv, [ImagesNext]_imageVars PROVE ImagesInv'
  OBVIOUS
<1>1. CASE UNCHANGED imageVars
  BY <1>1 DEF ImagesInv, imageVars, ImagesTypeOK, InTurn, PathsSafe, Here
<1> QED
  BY <1>1, CreateStep, BeginErrandStep, FindNothingStep, FindForUploadStep, FindForRemovalStep,
     FindForUpdateStep, FindAgainStep, SaveProductStep, ClearOrDeleteStep, BreakOffStep DEF ImagesNext

LEMMA ImagesInvariance == ImagesSpec => []ImagesInv
  BY ImagesInitInv, ImagesNextInv, PTL DEF ImagesSpec

LEMMA RestIsSettled == ImagesInv => ImageLossHasCause
  BY DEF ImagesInv, InTurn, ImageLossHasCause, FilesIn, KeptOf

(* For any products, image types and requests, every path, file and request in
   progress has its type (products.service.ts, product-image-storage.service.ts). *)
THEOREM ImagesTyped == ImagesSpec => []ImagesTypeOK
<1>1. ImagesInv => ImagesTypeOK
  BY DEF ImagesInv
<1> QED
  BY <1>1, ImagesInvariance, PTL

(* Whenever no request about a product is under way, its path names the one file it
   has, or it has none since an upload was refused, unless two requests about it
   overlapped, one broke off between the file and the row, or a body wrote its row or
   named its file (products.controller.ts:75-130, products.service.ts:28-37). *)
THEOREM ImageLossesHaveCause == ImagesSpec => []ImageLossHasCause
  BY RestIsSettled, ImagesInvariance, PTL

(* Types and files together, as they are checked. *)
THEOREM ImagesCorrect == ImagesSpec => []ImagesHold
  BY ImagesTyped, ImageLossesHaveCause, PTL DEF ImagesHold
-----------------------------------------------------------------------------
PaperFits(d, p) ==
  /\ d = "idle" => p = NoPaper
  /\ d \in {"find", "insert"} => p.code \in Codes
SameCode(x) == \A a, b \in AccountIds : account[a] = x /\ account[b] = x => a = b
FreeCode(x) == \A a \in AccountIds : account[a] # x
LedgerInv ==
  /\ LedgerTypeOK
  /\ \A k \in Keepers : PaperFits(desk[k], paper[k])
  /\ \A x \in Codes \ coupled : SameCode(x)
  /\ \A k \in Keepers : desk[k] = "insert" /\ paper[k].code \notin coupled => FreeCode(paper[k].code)
-----------------------------------------------------------------------------
LEMMA NoPaperTyped == NoPaper \in Paper
  BY DEF NoPaper, Paper

LEMMA LedgerInitInv == LedgerInit => LedgerInv
  BY NoPaperTyped, CodesAssumption, EntriesAssumption
  DEF LedgerInit, LedgerInv, LedgerTypeOK, PaperFits, SameCode, FreeCode

LEMMA SitTyped ==
  ASSUME LedgerInv, NEW k \in Keepers, NEW d \in {"idle", "seed", "find", "insert"}, NEW p \in Paper,
         Sit(k, d, p), PaperFits(d, p)
  PROVE  /\ desk' \in [Keepers -> {"idle", "seed", "find", "insert"}] /\ paper' \in [Keepers -> Paper]
         /\ desk'[k] = d /\ paper'[k] = p
         /\ \A j \in Keepers : j # k => desk'[j] = desk[j] /\ paper'[j] = paper[j]
         /\ \A j \in Keepers : PaperFits(desk'[j], paper'[j])
  BY DEF LedgerInv, LedgerTypeOK, Sit

LEMMA SitStep ==
  ASSUME LedgerInv, NEW k \in Keepers, NEW d \in {"idle", "seed", "find", "insert"}, NEW p \in Paper,
         Sit(k, d, p), PaperFits(d, p), d = "insert" => FreeCode(p.code),
         UNCHANGED <<account, entries, enabled, coupled>>, acts' \in 0..MaxEntries
  PROVE  LedgerInv'
<1>1. LedgerTypeOK' /\ \A j \in Keepers : PaperFits(desk'[j], paper'[j])
  BY SitTyped DEF LedgerInv, LedgerTypeOK
<1>2. \A x \in Codes \ coupled' : SameCode(x)'
  BY DEF LedgerInv, SameCode
<1>3. \A j \in Keepers : desk'[j] = "insert" /\ paper'[j].code \notin coupled' =>
                           \A a \in AccountIds : account'[a] # paper'[j].code
  BY SitTyped DEF LedgerInv, FreeCode
<1> QED
  BY <1>1, <1>2, <1>3 DEF LedgerInv, SameCode, FreeCode

LEMMA PaperKnown ==
  ASSUME LedgerInv, NEW k \in Keepers
  PROVE  paper[k] \in Paper /\ PaperFits(desk[k], paper[k])
  BY DEF LedgerInv, LedgerTypeOK

LEMMA BeginPaperStep ==
  ASSUME LedgerInv, NEW k \in Keepers, BeginCreateAccount(k) \/ BeginSeed(k)
  PROVE  LedgerInv'
<1>1. UNCHANGED <<account, entries, enabled, coupled>> /\ acts' \in 0..MaxEntries
  <2>1. Act /\ UNCHANGED <<account, entries, enabled, coupled>>
    BY DEF BeginCreateAccount, BeginSeed
  <2>2. acts \in 0..MaxEntries
    BY DEF LedgerInv, LedgerTypeOK
  <2> QED
    BY <2>1, <2>2, EntriesAssumption DEF Act
<1>2. ASSUME NEW x \in Codes, Sit(k, "find", [NoPaper EXCEPT !.kind = "account", !.code = x])
      PROVE  LedgerInv'
  <2> DEFINE p == [NoPaper EXCEPT !.kind = "account", !.code = x]
  <2>1. p \in Paper /\ PaperFits("find", p) /\ Sit(k, "find", p)
    BY <1>2 DEF NoPaper, Paper, PaperFits
  <2> HIDE DEF p
  <2> QED
    BY <1>1, <2>1, SitStep
<1>3. ASSUME Sit(k, "seed", [NoPaper EXCEPT !.kind = "seed", !.todo = SeedCodes])
      PROVE  LedgerInv'
  <2> DEFINE p == [NoPaper EXCEPT !.kind = "seed", !.todo = SeedCodes]
  <2>1. p \in Paper /\ PaperFits("seed", p) /\ Sit(k, "seed", p)
    BY <1>3 DEF NoPaper, Paper, PaperFits
  <2> HIDE DEF p
  <2> QED
    BY <1>1, <2>1, SitStep
<1> QED
  BY <1>2, <1>3 DEF BeginCreateAccount, BeginSeed

LEMMA RiseStep ==
  ASSUME LedgerInv, NEW k \in Keepers, Rise(k), UNCHANGED <<account, entries, acts, enabled, coupled>>
  PROVE  LedgerInv'
<1>1. Sit(k, "idle", NoPaper) /\ PaperFits("idle", NoPaper) /\ acts' \in 0..MaxEntries
  BY DEF Rise, PaperFits, LedgerInv, LedgerTypeOK
<1> QED
  BY <1>1, NoPaperTyped, SitStep

LEMMA SeedNextStep ==
  ASSUME LedgerInv, NEW k \in Keepers, SeedNext(k)
  PROVE  LedgerInv'
<1>1. UNCHANGED <<account, entries, acts, enabled, coupled>> /\ acts' \in 0..MaxEntries
  BY DEF SeedNext, LedgerInv, LedgerTypeOK
<1>2. ASSUME NEW x \in paper[k].todo, Sit(k, "find", [paper[k] EXCEPT !.code = x, !.todo = @ \ {x}])
      PROVE  LedgerInv'
  <2> DEFINE p == [paper[k] EXCEPT !.code = x, !.todo = @ \ {x}]
  <2>1. paper[k] \in Paper /\ x \in Codes
    BY PaperKnown, CodesAssumption DEF Paper
  <2>2. p \in Paper /\ PaperFits("find", p) /\ Sit(k, "find", p)
    BY <1>2, <2>1 DEF Paper, PaperFits
  <2> HIDE DEF p
  <2> QED
    BY <1>1, <2>2, SitStep
<1>3. CASE Rise(k)
  BY <1>1, <1>3, RiseStep
<1> QED
  BY <1>2, <1>3 DEF SeedNext

(* After one code the seeding goes on to the next; a creation is over. *)
LEMMA GoesOnSits ==
  ASSUME LedgerInv, NEW k \in Keepers, GoesOn(k)
  PROVE  \E d \in {"idle", "seed"}, p \in Paper : Sit(k, d, p) /\ PaperFits(d, p)
<1>1. CASE paper[k].kind = "seed"
  <2>1. [paper[k] EXCEPT !.code = NoCode] \in Paper
    BY PaperKnown DEF Paper
  <2> QED
    BY <1>1, <2>1 DEF GoesOn, PaperFits
<1>2. CASE paper[k].kind # "seed"
  BY <1>2, NoPaperTyped DEF GoesOn, Rise, PaperFits
<1> QED
  BY <1>1, <1>2

LEMMA FindAccountStep ==
  ASSUME LedgerInv, NEW k \in Keepers, FindAccount(k)
  PROVE  LedgerInv'
<1>1. UNCHANGED <<account, entries, enabled, coupled>> /\ acts' \in 0..MaxEntries
  BY DEF FindAccount, LedgerInv, LedgerTypeOK
<1>2. CASE WithCode(paper[k].code) # {}
  <2>1. PICK d \in {"idle", "seed"}, p \in Paper : Sit(k, d, p) /\ PaperFits(d, p)
    BY <1>2, GoesOnSits DEF FindAccount
  <2> QED
    BY <1>1, <2>1, SitStep
<1>3. CASE WithCode(paper[k].code) = {}
  <2>1. /\ Sit(k, "insert", paper[k]) /\ paper[k] \in Paper /\ PaperFits("insert", paper[k])
        /\ paper[k].code \in Codes
    BY <1>3, PaperKnown DEF FindAccount, PaperFits
  <2>2. FreeCode(paper[k].code)
    BY <1>3, <2>1, CodesAssumption DEF WithCode, Own, FreeCode
  <2> QED
    BY <1>1, <2>1, <2>2, SitStep
<1> QED
  BY <1>2, <1>3

LEMMA InsertAccountStep ==
  ASSUME LedgerInv, NEW k \in Keepers, InsertAccount(k), NEW x \in Codes, x = paper[k].code
  PROVE  LedgerInv'
<1>1. PICK a \in AccountIds : account[a] = NoCode /\ account' = [account EXCEPT ![a] = x]
  BY DEF InsertAccount, Own
<1>2. /\ desk[k] = "insert" /\ UNCHANGED <<entries, acts, enabled>>
      /\ coupled \subseteq coupled' /\ coupled' \subseteq coupled \cup {x}
      /\ \A j \in Keepers : j # k /\ desk[j] = "insert" /\ paper[j].code = x => x \in coupled'
  BY DEF InsertAccount
<1>3. PICK d \in {"idle", "seed"}, p \in Paper : Sit(k, d, p) /\ PaperFits(d, p)
  BY GoesOnSits DEF InsertAccount
<1>4. /\ desk' \in [Keepers -> {"idle", "seed", "find", "insert"}] /\ paper' \in [Keepers -> Paper]
      /\ desk'[k] # "insert"
      /\ \A j \in Keepers : j # k => desk'[j] = desk[j] /\ paper'[j] = paper[j]
      /\ \A j \in Keepers : PaperFits(desk'[j], paper'[j])
  BY <1>3, SitTyped
<1>5. /\ account' \in [AccountIds -> Codes \cup {NoCode}] /\ account'[a] = x
      /\ \A b \in AccountIds : b # a => account'[b] = account[b]
  BY <1>1 DEF LedgerInv, LedgerTypeOK
<1>6. LedgerTypeOK'
  BY <1>2, <1>4, <1>5 DEF LedgerInv, LedgerTypeOK
<1>7. \A y \in Codes \ coupled' : \A b, c \in AccountIds : account'[b] = y /\ account'[c] = y => b = c
  <2>1. x \notin coupled => \A b \in AccountIds : account[b] # x
    BY <1>2 DEF LedgerInv, FreeCode
  <2> QED
    BY <1>2, <1>5, <2>1 DEF LedgerInv, SameCode
<1>8. \A j \in Keepers : desk'[j] = "insert" /\ paper'[j].code \notin coupled' =>
                           \A b \in AccountIds : account'[b] # paper'[j].code
  BY <1>2, <1>4, <1>5 DEF LedgerInv, FreeCode
<1> QED
  BY <1>4, <1>6, <1>7, <1>8 DEF LedgerInv, SameCode, FreeCode

(* Rounded amounts are amounts: what is kept of a form is a list of lines. *)
LEMMA KeptTyped ==
  ASSUME NEW lines \in Seq(Line)
  PROVE  Kept(lines) \in Seq(Line) /\ Len(Kept(lines)) = Len(lines)
<1>1. \A n \in Nat : Rounded(n) \in Nat
  BY DEF Rounded
<1>2. \A i \in 1..Len(lines) : lines[i] \in Line
  OBVIOUS
<1>3. \A i \in 1..Len(lines) : [lines[i] EXCEPT !.debit = Rounded(@), !.credit = Rounded(@)] \in Line
  BY <1>1, <1>2 DEF Line
<1> DEFINE n == Len(lines)
           f == [i \in 1..n |-> [lines[i] EXCEPT !.debit = Rounded(@), !.credit = Rounded(@)]]
<1>4. Kept(lines) = f /\ n \in Nat
  BY DEF Kept
<1>5. f \in [1..n -> Line]
  BY <1>3
<1> HIDE DEF f
<1>6. f \in Seq(Line) /\ Len(f) = n
  BY <1>4, <1>5
<1> QED
  BY <1>4, <1>6

LEMMA JournalStep ==
  ASSUME LedgerInv, CreateJournalEntry
  PROVE  LedgerInv'
<1>1. PICK lines \in Forms, posted \in BOOLEAN :
        entries' = entries \cup {[number |-> acts', posted |-> posted, lines |-> Kept(lines)]}
  BY DEF CreateJournalEntry
<1>2. acts' \in 0..MaxEntries /\ acts' \in 1..MaxEntries
  BY EntriesAssumption DEF CreateJournalEntry, Act, LedgerInv, LedgerTypeOK
<1>3. \A e \in entries' : e \in Entry
  BY <1>1, <1>2, KeptTyped, FormsAssumption DEF Entry, LedgerInv, LedgerTypeOK
<1>4. UNCHANGED <<account, desk, paper, enabled, coupled>>
  BY DEF CreateJournalEntry
<1> QED
  BY <1>2, <1>3, <1>4 DEF LedgerInv, LedgerTypeOK, SameCode, FreeCode
-----------------------------------------------------------------------------
LEMMA LedgerNextInv == LedgerInv /\ [LedgerNext]_ledgerVars => LedgerInv'
<1> SUFFICES ASSUME LedgerInv, [LedgerNext]_ledgerVars PROVE LedgerInv'
  OBVIOUS
<1>1. CASE UNCHANGED ledgerVars
  BY <1>1 DEF ledgerVars, LedgerInv, LedgerTypeOK, SameCode, FreeCode
<1>2. CASE CreateJournalEntry
  BY <1>2, JournalStep
<1>3. CASE PlanChanges
  BY <1>3 DEF PlanChanges, LedgerInv, LedgerTypeOK, SameCode, FreeCode
<1>4. ASSUME NEW k \in Keepers, \/ BeginCreateAccount(k) \/ BeginSeed(k) \/ SeedNext(k)
                                \/ FindAccount(k)
      PROVE  LedgerInv'
  BY <1>4, BeginPaperStep, SeedNextStep, FindAccountStep
<1>5. ASSUME NEW k \in Keepers, InsertAccount(k) PROVE LedgerInv'
  <2>1. PICK x \in Codes : x = paper[k].code
    BY <1>5, PaperKnown DEF InsertAccount, PaperFits
  <2> QED
    BY <1>5, <2>1, InsertAccountStep
<1>6. ASSUME NEW k \in Keepers, Abandon(k) PROVE LedgerInv'
  BY <1>6, RiseStep DEF Abandon
<1> QED
  BY <1>1, <1>2, <1>3, <1>4, <1>5, <1>6 DEF LedgerNext

LEMMA LedgerInvHolds == LedgerSpec => []LedgerInv
  BY LedgerInitInv, LedgerNextInv, PTL DEF LedgerSpec

(* The books keep their types: accounts, entries and requests. *)
THEOREM LedgerTyped == LedgerSpec => []LedgerTypeOK
<1>1. LedgerInv => LedgerTypeOK
  BY DEF LedgerInv
<1> QED
  BY <1>1, LedgerInvHolds, PTL

LEMMA TwinsCoupled == LedgerInv => TwinCodesHaveCause
<1> SUFFICES ASSUME LedgerInv, NEW x \in Codes, x \notin coupled, Cardinality(WithCode(x)) > 1
             PROVE  FALSE
  BY DEF TwinCodesHaveCause
<1>1. \A a, b \in WithCode(x) : a = b
  BY DEF LedgerInv, SameCode, WithCode, Own
<1>2. CASE WithCode(x) = {}
  BY <1>2, FS_EmptySet
<1>3. ASSUME NEW a \in WithCode(x) PROVE FALSE
  <2>1. WithCode(x) = {a}
    BY <1>1, <1>3
  <2>2. Cardinality({a}) = 1
    BY FS_Singleton
  <2> QED
    BY <2>1, <2>2
<1> QED
  BY <1>2, <1>3

(* However creations and seedings interleave, two accounts share a code only when two
   of them both missed it (accounting.service.ts:24-69). *)
THEOREM TwinCodesCoupled == LedgerSpec => []TwinCodesHaveCause
  BY LedgerInvHolds, TwinsCoupled, PTL
-----------------------------------------------------------------------------
(* Of some sets within a finite one, one holds no other. *)
LEMMA SmallestSet ==
  ASSUME NEW S, IsFiniteSet(S), NEW B \in SUBSET (SUBSET S), B # {}
  PROVE  \E s \in B : \A r \in SUBSET s : r # s => r \notin B
<1>1. IsWellFoundedOn(StrictSubsetOrdering(S), SUBSET S)
  BY FS_StrictSubsetOrderingWellFounded, FS_FiniteSubsetsOfFinite
<1>2. PICK s \in B : \A r \in B : ~ (<<r, s>> \in StrictSubsetOrdering(S))
  BY <1>1, WFMin
<1>3. \A r \in SUBSET s : r # s => r \notin B
  <2> SUFFICES ASSUME NEW r \in SUBSET s, r # s, r \in B PROVE FALSE
    OBVIOUS
  <2>1. r \in SUBSET S /\ s \in SUBSET S /\ r \subseteq s
    OBVIOUS
  <2>2. <<r, s>> \in StrictSubsetOrdering(S)
    BY <2>1 DEF StrictSubsetOrdering
  <2> QED
    BY <1>2, <2>2
<1> QED
  BY <1>3
-----------------------------------------------------------------------------
(* A sum over a finite set S is read off a table of the sums over its subsets. *)
Pick(s) == CHOOSE x \in s : TRUE
Rest(s) == s \ {Pick(s)}
IsTable(t, f, S) == t = [s \in SUBSET S |-> IF s = {} THEN 0 ELSE f[Pick(s)] + t[Rest(s)]]
Table(f, S) == CHOOSE t : IsTable(t, f, S)

LEMMA SumIsTable ==
  ASSUME NEW f, NEW S
  PROVE  Sum(f, S) = Table(f, S)[S]
BY Zenon DEF Sum, FoldFunctionOnSet, MapThenFoldSet, Table, IsTable, Pick, Rest

LEMMA PickIn == ASSUME NEW s, s # {} PROVE Pick(s) \in s /\ Rest(s) \subseteq s /\ Rest(s) # s
  BY DEF Pick, Rest

LEMMA TableValue ==
  ASSUME NEW f, NEW S, NEW t, IsTable(t, f, S), NEW s \in SUBSET S
  PROVE  t[s] = IF s = {} THEN 0 ELSE f[Pick(s)] + t[Rest(s)]
<1> DEFINE g == [r \in SUBSET S |-> IF r = {} THEN 0 ELSE f[Pick(r)] + t[Rest(r)]]
<1>1. t = g
  BY DEF IsTable
<1>2. g[s] = IF s = {} THEN 0 ELSE f[Pick(s)] + t[Rest(s)]
  OBVIOUS
<1> HIDE DEF g
<1> QED
  BY <1>1, <1>2

(* Two tables agree where both have a value. *)
LEMMA TablesAgree ==
  ASSUME NEW f, NEW S, NEW T, IsFiniteSet(S), S \subseteq T,
         NEW t, IsTable(t, f, S), NEW u, IsTable(u, f, T)
  PROVE  t[S] = u[S]
<1> DEFINE B == {s \in SUBSET S : t[s] # u[s]}
<1> SUFFICES ASSUME B # {} PROVE FALSE
  OBVIOUS
<1>1. PICK s \in B : \A r \in SUBSET s : r # s => r \notin B
  <2>1. B \in SUBSET (SUBSET S)
    OBVIOUS
  <2> HIDE DEF B
  <2> QED
    BY <2>1, SmallestSet
<1>2. s \in SUBSET S /\ s \in SUBSET T /\ t[s] # u[s]
  OBVIOUS
<1>3. t[s] = IF s = {} THEN 0 ELSE f[Pick(s)] + t[Rest(s)]
  BY <1>2, TableValue
<1>4. u[s] = IF s = {} THEN 0 ELSE f[Pick(s)] + u[Rest(s)]
  BY <1>2, TableValue
<1>5. s # {}
  BY <1>2, <1>3, <1>4
<1>6. Rest(s) \in SUBSET S /\ Rest(s) \notin B
  BY <1>1, <1>2, <1>5, PickIn
<1>7. t[Rest(s)] = u[Rest(s)]
  BY <1>6
<1> QED
  BY <1>2, <1>3, <1>4, <1>5, <1>7

(* A finite set has a table: that of a smallest one without is put together from
   the tables of its subsets. *)
LEMMA TableExists ==
  ASSUME NEW f, NEW S, IsFiniteSet(S)
  PROVE  IsTable(Table(f, S), f, S)
<1> DEFINE B == {s \in SUBSET S : ~ IsTable(Table(f, s), f, s)}
<1> SUFFICES ASSUME B # {} PROVE FALSE
  OBVIOUS
<1>1. PICK s \in B : \A r \in SUBSET s : r # s => r \notin B
  <2>1. B \in SUBSET (SUBSET S)
    OBVIOUS
  <2> HIDE DEF B
  <2> QED
    BY <2>1, SmallestSet
<1>2. s \in SUBSET S /\ ~ IsTable(Table(f, s), f, s)
  OBVIOUS
<1>3. \A r \in SUBSET s : r # s => IsTable(Table(f, r), f, r)
  BY <1>1, <1>2
<1> DEFINE v(r) == IF r = {} THEN 0 ELSE f[Pick(r)] + Sum(f, Rest(r))
           g == [r \in SUBSET s |-> v(r)]
<1>4. \A r \in SUBSET s : r # s => Sum(f, r) = v(r)
  <2> SUFFICES ASSUME NEW r \in SUBSET s, r # s PROVE Sum(f, r) = v(r)
    OBVIOUS
  <2>1. IsTable(Table(f, r), f, r) /\ Sum(f, r) = Table(f, r)[r]
    BY <1>3, SumIsTable
  <2>2. Sum(f, r) = IF r = {} THEN 0 ELSE f[Pick(r)] + Table(f, r)[Rest(r)]
    BY <2>1, TableValue
  <2>3. CASE r = {}
    BY <2>2, <2>3
  <2>4. CASE r # {}
    <3>1. Rest(r) \subseteq r /\ Rest(r) # s /\ Rest(r) \in SUBSET s
      BY <2>4, PickIn
    <3>2. IsTable(Table(f, Rest(r)), f, Rest(r)) /\ Sum(f, Rest(r)) = Table(f, Rest(r))[Rest(r)]
      BY <1>3, <3>1, SumIsTable
    <3>3. IsFiniteSet(Rest(r))
      BY <1>2, <3>1, FS_Subset
    <3>4. Table(f, Rest(r))[Rest(r)] = Table(f, r)[Rest(r)]
      BY <2>1, <3>1, <3>2, <3>3, TablesAgree
    <3> QED
      BY <2>2, <2>4, <3>2, <3>4
  <2> QED
    BY <2>3, <2>4
<1>5. \A r \in SUBSET s : v(r) = IF r = {} THEN 0 ELSE f[Pick(r)] + g[Rest(r)]
  <2> SUFFICES ASSUME NEW r \in SUBSET s, r # {} PROVE Sum(f, Rest(r)) = g[Rest(r)]
    OBVIOUS
  <2>1. Rest(r) \in SUBSET s /\ Rest(r) # s
    BY PickIn
  <2>2. g[Rest(r)] = v(Rest(r))
    BY <2>1
  <2>3. Sum(f, Rest(r)) = v(Rest(r))
    BY <1>4, <2>1
  <2> QED
    BY <2>2, <2>3
<1>6. IsTable(g, f, s)
  <2>1. g = [r \in SUBSET s |-> IF r = {} THEN 0 ELSE f[Pick(r)] + g[Rest(r)]]
    BY <1>5
  <2> HIDE DEF g
  <2> QED
    BY <2>1 DEF IsTable
<1> HIDE DEF g
<1> QED
  BY <1>2, <1>6 DEF Table

LEMMA SumEmpty == ASSUME NEW f PROVE Sum(f, {}) = 0
  BY FS_EmptySet, TableExists, TableValue, SumIsTable

LEMMA SumPick ==
  ASSUME NEW f, NEW S, IsFiniteSet(S), S # {}
  PROVE  Sum(f, S) = f[Pick(S)] + Sum(f, Rest(S))
<1>1. IsTable(Table(f, S), f, S) /\ Sum(f, S) = Table(f, S)[S]
  BY TableExists, SumIsTable
<1>2. Table(f, S)[S] = f[Pick(S)] + Table(f, S)[Rest(S)]
  BY <1>1, TableValue
<1>3. Rest(S) \subseteq S /\ IsFiniteSet(Rest(S))
  BY PickIn, FS_Subset
<1>4. IsTable(Table(f, Rest(S)), f, Rest(S)) /\ Sum(f, Rest(S)) = Table(f, Rest(S))[Rest(S)]
  BY <1>3, TableExists, SumIsTable
<1>5. Table(f, Rest(S))[Rest(S)] = Table(f, S)[Rest(S)]
  BY <1>1, <1>3, <1>4, TablesAgree
<1> QED
  BY <1>1, <1>2, <1>4, <1>5

LEMMA SumInt ==
  ASSUME NEW f, NEW S, IsFiniteSet(S), \A x \in S : f[x] \in Int
  PROVE  Sum(f, S) \in Int
<1> DEFINE B == {s \in SUBSET S : Sum(f, s) \notin Int}
<1> SUFFICES ASSUME B # {} PROVE FALSE
  OBVIOUS
<1>1. PICK s \in B : \A r \in SUBSET s : r # s => r \notin B
  <2>1. B \in SUBSET (SUBSET S)
    OBVIOUS
  <2> HIDE DEF B
  <2> QED
    BY <2>1, SmallestSet
<1>2. s \in SUBSET S /\ Sum(f, s) \notin Int /\ IsFiniteSet(s)
  BY FS_Subset
<1>3. s # {}
  BY <1>2, SumEmpty
<1>4. Pick(s) \in S /\ Rest(s) \in SUBSET S /\ Rest(s) \notin B
  BY <1>1, <1>2, <1>3, PickIn
<1>5. Sum(f, Rest(s)) \in Int /\ f[Pick(s)] \in Int
  BY <1>4
<1>6. Sum(f, s) = f[Pick(s)] + Sum(f, Rest(s))
  BY <1>2, <1>3, SumPick
<1> QED
  BY <1>2, <1>5, <1>6

(* The order in which a sum takes its terms does not matter. *)
LEMMA SumTake ==
  ASSUME NEW f, NEW S, IsFiniteSet(S), \A y \in S : f[y] \in Int, NEW x \in S
  PROVE  Sum(f, S) = f[x] + Sum(f, S \ {x})
<1> DEFINE B == {s \in SUBSET S : \E y \in s : Sum(f, s) # f[y] + Sum(f, s \ {y})}
<1> SUFFICES ASSUME B # {} PROVE FALSE
  OBVIOUS
<1>1. PICK s \in B : \A r \in SUBSET s : r # s => r \notin B
  <2>1. B \in SUBSET (SUBSET S)
    OBVIOUS
  <2> HIDE DEF B
  <2> QED
    BY <2>1, SmallestSet
<1>2. s \in SUBSET S /\ IsFiniteSet(s)
  BY FS_Subset
<1>3. PICK y \in s : Sum(f, s) # f[y] + Sum(f, s \ {y})
  OBVIOUS
<1>4. Pick(s) \in s /\ Rest(s) = s \ {Pick(s)} /\ Sum(f, s) = f[Pick(s)] + Sum(f, Rest(s))
  BY <1>2, SumPick, PickIn DEF Rest
<1>5. y # Pick(s)
  BY <1>3, <1>4
<1>6. Rest(s) \in SUBSET S /\ s \ {y} \in SUBSET S /\ Rest(s) \notin B /\ s \ {y} \notin B
  BY <1>1, <1>2, <1>4
<1> DEFINE q == (s \ {y}) \ {Pick(s)}
<1>7. Sum(f, Rest(s)) = f[y] + Sum(f, q)
  <2>1. y \in Rest(s) /\ Rest(s) \ {y} = q
    BY <1>4, <1>5
  <2> QED
    BY <1>6, <2>1
<1>8. Sum(f, s \ {y}) = f[Pick(s)] + Sum(f, q)
  BY <1>4, <1>5, <1>6
<1>9. Sum(f, q) \in Int /\ f[y] \in Int /\ f[Pick(s)] \in Int
  <2>1. q \in SUBSET S /\ IsFiniteSet(q)
    BY <1>2, FS_Subset
  <2> HIDE DEF q
  <2> QED
    BY <1>2, <1>4, <2>1, SumInt
<1> HIDE DEF q
<1> QED
  BY <1>3, <1>4, <1>7, <1>8, <1>9

-----------------------------------------------------------------------------
IntOn(f, S) == \A x \in S : f[x] \in Int

(* Sums over the same set: what every term satisfies, the sums do. *)
LEMMA SumSame ==
  ASSUME NEW f, NEW g, NEW S, IsFiniteSet(S), IntOn(f, S), \A x \in S : g[x] = f[x]
  PROVE  Sum(g, S) = Sum(f, S)
<1> DEFINE B == {s \in SUBSET S : Sum(g, s) # Sum(f, s)}
<1> SUFFICES ASSUME B # {} PROVE FALSE
  OBVIOUS
<1>1. PICK s \in B : \A r \in SUBSET s : r # s => r \notin B
  <2>1. B \in SUBSET (SUBSET S)
    OBVIOUS
  <2> HIDE DEF B
  <2> QED
    BY <2>1, SmallestSet
<1>2. s \in SUBSET S /\ IsFiniteSet(s) /\ Sum(g, s) # Sum(f, s)
  BY FS_Subset
<1>3. s # {}
  BY <1>2, SumEmpty
<1>4. Pick(s) \in S /\ Rest(s) \in SUBSET S /\ Rest(s) \notin B
  BY <1>1, <1>2, <1>3, PickIn
<1>5. Sum(g, Rest(s)) = Sum(f, Rest(s)) /\ g[Pick(s)] = f[Pick(s)]
  BY <1>4
<1> QED
  BY <1>2, <1>3, <1>5, SumPick

LEMMA SumAdd ==
  ASSUME NEW f, NEW g, NEW h, NEW S, IsFiniteSet(S), IntOn(f, S), IntOn(g, S),
         \A x \in S : h[x] = f[x] + g[x]
  PROVE  Sum(h, S) = Sum(f, S) + Sum(g, S)
<1> DEFINE B == {s \in SUBSET S : Sum(h, s) # Sum(f, s) + Sum(g, s)}
<1> SUFFICES ASSUME B # {} PROVE FALSE
  OBVIOUS
<1>1. PICK s \in B : \A r \in SUBSET s : r # s => r \notin B
  <2>1. B \in SUBSET (SUBSET S)
    OBVIOUS
  <2> HIDE DEF B
  <2> QED
    BY <2>1, SmallestSet
<1>2. s \in SUBSET S /\ IsFiniteSet(s) /\ Sum(h, s) # Sum(f, s) + Sum(g, s)
  BY FS_Subset
<1>3. s # {}
  BY <1>2, SumEmpty
<1>4. Pick(s) \in S /\ Rest(s) \in SUBSET S /\ Rest(s) \notin B /\ IsFiniteSet(Rest(s))
  BY <1>1, <1>2, <1>3, PickIn, FS_Subset
<1>5. Sum(h, Rest(s)) = Sum(f, Rest(s)) + Sum(g, Rest(s)) /\ h[Pick(s)] = f[Pick(s)] + g[Pick(s)]
  BY <1>4
<1>6. Sum(f, Rest(s)) \in Int /\ Sum(g, Rest(s)) \in Int /\ f[Pick(s)] \in Int /\ g[Pick(s)] \in Int
  BY <1>4, SumInt DEF IntOn
<1>7. /\ Sum(f, s) = f[Pick(s)] + Sum(f, Rest(s)) /\ Sum(g, s) = g[Pick(s)] + Sum(g, Rest(s))
      /\ Sum(h, s) = h[Pick(s)] + Sum(h, Rest(s))
  BY <1>2, <1>3, SumPick
<1> QED
  BY <1>2, <1>5, <1>6, <1>7

(* ... and differences. *)
LEMMA SumSubtract ==
  ASSUME NEW f, NEW g, NEW h, NEW S, IsFiniteSet(S), IntOn(f, S), IntOn(g, S),
         \A x \in S : h[x] = f[x] - g[x]
  PROVE  Sum(h, S) = Sum(f, S) - Sum(g, S)
<1>1. IntOn(h, S)
  BY DEF IntOn
<1>2. \A x \in S : f[x] = h[x] + g[x]
  BY DEF IntOn
<1>3. Sum(f, S) = Sum(h, S) + Sum(g, S)
  BY <1>1, <1>2, SumAdd
<1>4. Sum(h, S) \in Int /\ Sum(g, S) \in Int
  BY <1>1, SumInt DEF IntOn
<1> QED
  BY <1>3, <1>4

LEMMA SumAtMost ==
  ASSUME NEW f, NEW g, NEW S, IsFiniteSet(S), IntOn(f, S), IntOn(g, S),
         \A x \in S : f[x] <= g[x]
  PROVE  Sum(f, S) <= Sum(g, S)
<1> DEFINE B == {s \in SUBSET S : ~ (Sum(f, s) <= Sum(g, s))}
<1> SUFFICES ASSUME B # {} PROVE FALSE
  OBVIOUS
<1>1. PICK s \in B : \A r \in SUBSET s : r # s => r \notin B
  <2>1. B \in SUBSET (SUBSET S)
    OBVIOUS
  <2> HIDE DEF B
  <2> QED
    BY <2>1, SmallestSet
<1>2. s \in SUBSET S /\ IsFiniteSet(s) /\ ~ (Sum(f, s) <= Sum(g, s))
  BY FS_Subset
<1>3. s # {}
  BY <1>2, SumEmpty
<1>4. Pick(s) \in S /\ Rest(s) \in SUBSET S /\ Rest(s) \notin B /\ IsFiniteSet(Rest(s))
  BY <1>1, <1>2, <1>3, PickIn, FS_Subset
<1>5. Sum(f, Rest(s)) <= Sum(g, Rest(s)) /\ f[Pick(s)] <= g[Pick(s)]
  BY <1>4
<1>6. Sum(f, Rest(s)) \in Int /\ Sum(g, Rest(s)) \in Int /\ f[Pick(s)] \in Int /\ g[Pick(s)] \in Int
  BY <1>4, SumInt DEF IntOn
<1>7. Sum(f, s) = f[Pick(s)] + Sum(f, Rest(s)) /\ Sum(g, s) = g[Pick(s)] + Sum(g, Rest(s))
  BY <1>2, <1>3, SumPick
<1> QED
  BY <1>2, <1>5, <1>6, <1>7

(* The size of a sum is at most the sum of the sizes. *)
LEMMA SumAbs ==
  ASSUME NEW f, NEW g, NEW S, IsFiniteSet(S), IntOn(f, S), IntOn(g, S),
         \A x \in S : Abs(f[x]) <= g[x]
  PROVE  Abs(Sum(f, S)) <= Sum(g, S)
<1> DEFINE n == [x \in S |-> -g[x]]
<1>1. IntOn(n, S) /\ \A x \in S : n[x] <= f[x] /\ f[x] <= g[x]
  BY DEF IntOn, Abs
<1>2. \A x \in S : n[x] = -g[x]
  OBVIOUS
<1> DEFINE z == [x \in S |-> 0]
<1>3. IntOn(z, S) /\ \A x \in S : z[x] = n[x] + g[x]
  BY <1>2 DEF IntOn
<1>4. Sum(z, S) = Sum(n, S) + Sum(g, S)
  <2> HIDE DEF n, z
  <2> QED
    BY <1>1, <1>3, SumAdd
<1>5. Sum(z, S) = Sum(z, S) + Sum(z, S)
  <2>1. \A x \in S : z[x] = z[x] + z[x]
    OBVIOUS
  <2> HIDE DEF z
  <2> QED
    BY <1>3, <2>1, SumAdd
<1> HIDE DEF n, z
<1>6. Sum(n, S) <= Sum(f, S) /\ Sum(f, S) <= Sum(g, S)
  BY <1>1, SumAtMost
<1>7. Sum(z, S) \in Int /\ Sum(n, S) \in Int /\ Sum(f, S) \in Int /\ Sum(g, S) \in Int
  BY <1>1, <1>3, SumInt DEF IntOn
<1> QED
  BY <1>4, <1>5, <1>6, <1>7 DEF Abs

LEMMA SumOfConstant ==
  ASSUME NEW f, NEW S, IsFiniteSet(S), NEW c \in Int, \A x \in S : f[x] = c
  PROVE  Sum(f, S) = c * Cardinality(S)
<1> DEFINE B == {s \in SUBSET S : Sum(f, s) # c * Cardinality(s)}
<1> SUFFICES ASSUME B # {} PROVE FALSE
  OBVIOUS
<1>1. PICK s \in B : \A r \in SUBSET s : r # s => r \notin B
  <2>1. B \in SUBSET (SUBSET S)
    OBVIOUS
  <2> HIDE DEF B
  <2> QED
    BY <2>1, SmallestSet
<1>2. s \in SUBSET S /\ IsFiniteSet(s) /\ Sum(f, s) # c * Cardinality(s)
  BY FS_Subset
<1>3. s # {}
  BY <1>2, SumEmpty, FS_EmptySet
<1>4. /\ Pick(s) \in s /\ Pick(s) \in S /\ Rest(s) \in SUBSET S /\ Rest(s) \notin B
      /\ IsFiniteSet(Rest(s))
  BY <1>1, <1>2, <1>3, PickIn, FS_Subset
<1>5. Sum(f, Rest(s)) = c * Cardinality(Rest(s)) /\ f[Pick(s)] = c
  BY <1>4
<1>6. /\ Cardinality(Rest(s)) = Cardinality(s) - 1
      /\ Cardinality(s) \in Nat /\ Cardinality(Rest(s)) \in Nat
  BY <1>2, <1>4, FS_RemoveElement, FS_CardinalityType DEF Rest
<1>7. Sum(f, s) = f[Pick(s)] + Sum(f, Rest(s))
  BY <1>2, <1>3, SumPick
<1>8. \A k \in Nat, m \in Nat : k = m - 1 => c + c * k = c * m
  OBVIOUS
<1> QED
  BY <1>2, <1>5, <1>6, <1>7, <1>8

(* Sums over sets that have nothing in common add up. *)
LEMMA SumOfParts ==
  ASSUME NEW f, NEW S, NEW T, IsFiniteSet(S), IsFiniteSet(T), IntOn(f, S), IntOn(f, T),
         S \cap T = {}
  PROVE  Sum(f, S \cup T) = Sum(f, S) + Sum(f, T)
<1> DEFINE B == {s \in SUBSET S : Sum(f, s \cup T) # Sum(f, s) + Sum(f, T)}
<1>0. Sum(f, T) \in Int
  BY SumInt DEF IntOn
<1> SUFFICES ASSUME B # {} PROVE FALSE
  OBVIOUS
<1>1. PICK s \in B : \A r \in SUBSET s : r # s => r \notin B
  <2>1. B \in SUBSET (SUBSET S)
    OBVIOUS
  <2> HIDE DEF B
  <2> QED
    BY <2>1, SmallestSet
<1>2. s \in SUBSET S /\ IsFiniteSet(s) /\ Sum(f, s \cup T) # Sum(f, s) + Sum(f, T)
  BY FS_Subset
<1>3. s # {}
  BY <1>0, <1>2, SumEmpty
<1> DEFINE x == Pick(s)
<1>4. /\ x \in s /\ x \in S /\ x \notin T /\ Rest(s) = s \ {x} /\ Rest(s) \in SUBSET S
      /\ Rest(s) \notin B /\ IsFiniteSet(Rest(s))
  BY <1>1, <1>2, <1>3, PickIn, FS_Subset DEF Rest
<1>5. Sum(f, Rest(s) \cup T) = Sum(f, Rest(s)) + Sum(f, T)
  BY <1>4
<1>6. Sum(f, s) = f[x] + Sum(f, Rest(s)) /\ Sum(f, Rest(s)) \in Int /\ f[x] \in Int
  BY <1>2, <1>3, <1>4, SumPick, SumInt DEF IntOn
<1>7. Sum(f, s \cup T) = f[x] + Sum(f, Rest(s) \cup T)
  <2> DEFINE w == s \cup T
  <2>1. x \in w /\ w \ {x} = Rest(s) \cup T /\ IsFiniteSet(w) /\ \A y \in w : f[y] \in Int
    BY <1>2, <1>4, FS_Union DEF IntOn
  <2> HIDE DEF w
  <2>2. Sum(f, w) = f[x] + Sum(f, w \ {x})
    BY <2>1, SumTake
  <2> QED
    BY <2>1, <2>2 DEF w
<1> QED
  BY <1>0, <1>2, <1>5, <1>6, <1>7

LEMMA ItsOwnDouble == ASSUME NEW n \in Int, n = n + n PROVE n = 0
  OBVIOUS

(* A table of numbers has the same sum by rows as by columns. *)
ByRows(D, A, E) == [a \in A |-> Sum(D[a], E)]
Column(D, A, e) == [a \in A |-> D[a][e]]
ByColumns(D, A, E) == [e \in E |-> Sum(Column(D, A, e), A)]
LEMMA RowsAreColumns ==
  ASSUME NEW A, NEW E, IsFiniteSet(A), IsFiniteSet(E), NEW D,
         \A a \in A : IntOn(D[a], E)
  PROVE  Sum(ByRows(D, A, E), A) = Sum(ByColumns(D, A, E), E)
<1> DEFINE c == ByColumns(D, A, E)
           B == {s \in SUBSET E : Sum(ByRows(D, A, s), A) # Sum(c, s)}
<1> SUFFICES ASSUME B # {} PROVE FALSE
  OBVIOUS
<1>0. \A e \in E : IntOn(Column(D, A, e), A) /\ c[e] = Sum(Column(D, A, e), A)
  BY DEF IntOn, Column, ByColumns
<1> HIDE DEF c
<1>1. PICK s \in B : \A r \in SUBSET s : r # s => r \notin B
  <2>1. B \in SUBSET (SUBSET E)
    OBVIOUS
  <2> HIDE DEF B
  <2> QED
    BY <2>1, SmallestSet
<1>2. s \in SUBSET E /\ IsFiniteSet(s) /\ Sum(ByRows(D, A, s), A) # Sum(c, s)
  BY FS_Subset
<1>3. \A r \in SUBSET E : IsFiniteSet(r) => IntOn(ByRows(D, A, r), A)
  BY SumInt DEF IntOn, ByRows
<1>4. s # {}
  <2> SUFFICES ASSUME s = {} PROVE FALSE
    OBVIOUS
  <2> DEFINE f == ByRows(D, A, s)
  <2>1. IntOn(f, A) /\ \A a \in A : f[a] = f[a] + f[a]
    BY SumEmpty DEF ByRows, IntOn
  <2>2. Sum(f, A) # Sum(c, s) /\ Sum(c, s) = 0
    BY <1>2, SumEmpty
  <2> HIDE DEF f
  <2>3. Sum(f, A) = Sum(f, A) + Sum(f, A)
    BY <2>1, SumAdd
  <2>4. Sum(f, A) \in Int
    BY <2>1, SumInt DEF IntOn
  <2>5. Sum(f, A) = 0
    BY <2>3, <2>4, ItsOwnDouble
  <2> QED
    BY <2>2, <2>5
<1> DEFINE x == Pick(s)
           r == Rest(s)
<1>5. x \in E /\ r \in SUBSET E /\ r \notin B /\ IsFiniteSet(r)
  BY <1>1, <1>2, <1>4, PickIn, FS_Subset
<1>6. Sum(ByRows(D, A, r), A) = Sum(c, r)
  BY <1>5
<1>7. \A a \in A : ByRows(D, A, s)[a] = Column(D, A, x)[a] + ByRows(D, A, r)[a]
  BY <1>2, <1>4, SumPick DEF ByRows, Column
<1>8. Sum(ByRows(D, A, s), A) = Sum(Column(D, A, x), A) + Sum(ByRows(D, A, r), A)
  <2>1. IntOn(Column(D, A, x), A) /\ IntOn(ByRows(D, A, r), A)
    BY <1>0, <1>3, <1>5
  <2> HIDE DEF x, r
  <2> QED
    BY <1>7, <2>1, SumAdd
<1>9. Sum(c, s) = c[x] + Sum(c, r)
  BY <1>2, <1>4, SumPick
<1> QED
  BY <1>0, <1>2, <1>5, <1>6, <1>8, <1>9

(* A sum taken group by group is the sum over what the groups hold. *)
Group(L, m, a) == {i \in L : m[i] = a}
Groups(L, m, A) == {i \in L : m[i] \in A}
ByGroup(b, L, m, A) == [a \in A |-> Sum(b, Group(L, m, a))]
LEMMA SumOfGroups ==
  ASSUME NEW L, NEW A, IsFiniteSet(L), IsFiniteSet(A), NEW m, NEW b, IntOn(b, L)
  PROVE  Sum(ByGroup(b, L, m, A), A) = Sum(b, Groups(L, m, A))
<1> DEFINE g == ByGroup(b, L, m, A)
           B == {s \in SUBSET A : Sum(g, s) # Sum(b, Groups(L, m, s))}
<1> SUFFICES ASSUME B # {} PROVE FALSE
  OBVIOUS
<1>0. \A a \in A : g[a] = Sum(b, Group(L, m, a))
  BY DEF ByGroup
<1> HIDE DEF g
<1>1. PICK s \in B : \A r \in SUBSET s : r # s => r \notin B
  <2>1. B \in SUBSET (SUBSET A)
    OBVIOUS
  <2> HIDE DEF B
  <2> QED
    BY <2>1, SmallestSet
<1>2. s \in SUBSET A /\ IsFiniteSet(s) /\ Sum(g, s) # Sum(b, Groups(L, m, s))
  BY FS_Subset
<1>3. s # {}
  <2>1. Groups(L, m, {}) = {}
    BY DEF Groups
  <2> QED
    BY <1>2, <2>1, SumEmpty
<1> DEFINE x == Pick(s)
           r == Rest(s)
<1>4. x \in s /\ x \in A /\ r = s \ {x} /\ r \in SUBSET A /\ r \notin B
  BY <1>1, <1>2, <1>3, PickIn DEF Rest
<1>5. Sum(g, r) = Sum(b, Groups(L, m, r))
  BY <1>4
<1>6. Sum(g, s) = g[x] + Sum(g, r)
  BY <1>2, <1>3, SumPick
<1> DEFINE one == Group(L, m, x)
           more == Groups(L, m, r)
<1>7. Groups(L, m, s) = one \cup more /\ one \cap more = {} /\ one \subseteq L /\ more \subseteq L
  BY <1>4 DEF Group, Groups
<1> HIDE DEF one, more
<1>8. Sum(b, one \cup more) = Sum(b, one) + Sum(b, more)
  <2>1. IsFiniteSet(one) /\ IsFiniteSet(more) /\ IntOn(b, one) /\ IntOn(b, more)
    BY <1>7, FS_Subset DEF IntOn
  <2> QED
    BY <1>7, <2>1, SumOfParts
<1> QED
  BY <1>0, <1>2, <1>4, <1>5, <1>6, <1>7, <1>8 DEF one, more

(* Part of a sum without negative terms is at most the whole. *)
LEMMA SumOfPart ==
  ASSUME NEW f, NEW S, IsFiniteSet(S), \A x \in S : f[x] \in Nat, NEW T \in SUBSET S
  PROVE  Sum(f, T) <= Sum(f, S)
<1>1. IsFiniteSet(T) /\ IsFiniteSet(S \ T) /\ IntOn(f, T) /\ IntOn(f, S \ T)
  BY FS_Subset DEF IntOn
<1>2. Sum(f, T \cup (S \ T)) = Sum(f, T) + Sum(f, S \ T)
  BY <1>1, SumOfParts
<1>3. T \cup (S \ T) = S
  OBVIOUS
<1> DEFINE z == [x \in S |-> 0]
<1>4. Sum(z, S \ T) <= Sum(f, S \ T)
  <2>1. IntOn(z, S \ T) /\ \A x \in S \ T : z[x] <= f[x]
    BY DEF IntOn
  <2> HIDE DEF z
  <2> QED
    BY <1>1, <2>1, SumAtMost
<1>5. Sum(z, S \ T) = 0
  <2>1. \A x \in S \ T : z[x] = 0
    OBVIOUS
  <2>2. Cardinality(S \ T) \in Nat
    BY <1>1, FS_CardinalityType
  <2> HIDE DEF z
  <2>3. Sum(z, S \ T) = 0 * Cardinality(S \ T)
    BY <1>1, <2>1, SumOfConstant
  <2> QED
    BY <2>2, <2>3
<1>6. Sum(f, T) \in Int /\ Sum(f, S \ T) \in Int
  BY <1>1, SumInt DEF IntOn
<1> HIDE DEF z
<1>7. Sum(f, S) = Sum(f, T) + Sum(f, S \ T)
  BY <1>2, <1>3
<1> QED
  BY <1>4, <1>5, <1>6, <1>7
-----------------------------------------------------------------------------
(* What a list of lines is off by is the sum of what its lines are off by. *)
Net(lines) == [i \in DOMAIN lines |-> lines[i].debit - lines[i].credit]
Debits(lines) == [i \in DOMAIN lines |-> lines[i].debit]
Credits(lines) == [i \in DOMAIN lines |-> lines[i].credit]

LEMMA LinesTyped ==
  ASSUME NEW lines \in Seq(Line)
  PROVE  /\ DOMAIN lines = 1..Len(lines) /\ Len(lines) \in Nat
         /\ IsFiniteSet(DOMAIN lines) /\ Cardinality(DOMAIN lines) = Len(lines)
         /\ \A i \in DOMAIN lines : /\ lines[i] \in Line
                                    /\ lines[i].debit \in Nat /\ lines[i].credit \in Nat
                                    /\ Net(lines)[i] = lines[i].debit - lines[i].credit
<1>1. DOMAIN lines = 1..Len(lines) /\ Len(lines) \in Nat
  OBVIOUS
<1>2. IsFiniteSet(DOMAIN lines) /\ Cardinality(DOMAIN lines) = Len(lines)
  BY <1>1, FS_Interval
<1>3. \A i \in DOMAIN lines : lines[i] \in Line
  OBVIOUS
<1> QED
  BY <1>1, <1>2, <1>3 DEF Line, Net

LEMMA NetOfPart ==
  ASSUME NEW lines \in Seq(Line), NEW T \in SUBSET DOMAIN lines
  PROVE  /\ Sum(Debits(lines), T) - Sum(Credits(lines), T) = Sum(Net(lines), T)
         /\ Sum(Debits(lines), T) \in Int /\ Sum(Credits(lines), T) \in Int
         /\ Sum(Net(lines), T) \in Int
<1>1. IsFiniteSet(T)
  BY LinesTyped, FS_Subset
<1>2. IntOn(Debits(lines), T) /\ IntOn(Credits(lines), T) /\ IntOn(Net(lines), T)
  BY LinesTyped DEF IntOn, Debits, Credits
<1>3. \A i \in T : Net(lines)[i] = Debits(lines)[i] - Credits(lines)[i]
  BY DEF Net, Debits, Credits
<1>4. Sum(Net(lines), T) = Sum(Debits(lines), T) - Sum(Credits(lines), T)
  BY <1>1, <1>2, <1>3, SumSubtract
<1> QED
  BY <1>1, <1>2, <1>4, SumInt DEF IntOn

LEMMA OffIsNet ==
  ASSUME NEW lines \in Seq(Line)
  PROVE  Off(lines) = Sum(Net(lines), DOMAIN lines) /\ Off(lines) \in Int
<1>1. Side(lines, "debit") = Sum(Debits(lines), DOMAIN lines)
  BY DEF Side, Debits
<1>2. Side(lines, "credit") = Sum(Credits(lines), DOMAIN lines)
  BY DEF Side, Credits
<1> QED
  BY <1>1, <1>2, NetOfPart DEF Off

LEMMA KeptLine ==
  ASSUME NEW lines \in Seq(Line), NEW i \in DOMAIN lines
  PROVE  /\ Kept(lines)[i].account = lines[i].account
         /\ Kept(lines)[i].debit = Rounded(lines[i].debit)
         /\ Kept(lines)[i].credit = Rounded(lines[i].credit)
<1>1. Kept(lines)[i] = [lines[i] EXCEPT !.debit = Rounded(@), !.credit = Rounded(@)]
  BY DEF Kept
<1>2. lines[i] \in Line
  BY LinesTyped
<1> DEFINE l == lines[i]
<1>3. Kept(lines)[i] = [l EXCEPT !.debit = Rounded(@), !.credit = Rounded(@)] /\ l \in Line
  BY <1>1, <1>2
<1> HIDE DEF l
<1>4. /\ Kept(lines)[i].account = l.account /\ Kept(lines)[i].debit = Rounded(l.debit)
      /\ Kept(lines)[i].credit = Rounded(l.credit)
  BY <1>3 DEF Line
<1> QED
  BY <1>4 DEF l

LEMMA HalfMoved ==
  ASSUME NEW d \in Nat, NEW c \in Nat, d = 0 \/ c = 0
  PROVE  LET by == (Rounded(d) - Rounded(c)) - (d - c) IN by \in Int /\ Abs(by) <= 5
<1>1. CASE d = 0
  BY <1>1 DEF Rounded, Abs
<1>2. CASE c = 0
  BY <1>2 DEF Rounded, Abs
<1> QED
  BY <1>1, <1>2

(* Rounding moves the side of a line that is not 0 by half a hundredth at most, and
   what is accepted is off by a hundredth at most. *)
LEMMA KeptOff ==
  ASSUME NEW lines \in Seq(Line), Accepted(lines)
  PROVE  Abs(Off(Kept(lines))) <= 10 + 5 * Len(Kept(lines))
<1> DEFINE D == DOMAIN lines
           kept == Kept(lines)
<1>1. kept \in Seq(Line) /\ Len(kept) = Len(lines) /\ DOMAIN kept = D
  BY KeptTyped, LinesTyped
<1>2. \A i \in D : kept[i].debit = Rounded(lines[i].debit) /\ kept[i].credit = Rounded(lines[i].credit)
  BY KeptLine
<1> HIDE DEF kept
<1> DEFINE moved == [i \in D |-> Net(kept)[i] - Net(lines)[i]]
           five == [i \in D |-> 5]
<1>5. \A i \in D : Abs(moved[i]) <= five[i] /\ moved[i] \in Int
  <2> SUFFICES ASSUME NEW i \in D PROVE Abs(Net(kept)[i] - Net(lines)[i]) <= 5 /\ Net(kept)[i] - Net(lines)[i] \in Int
    OBVIOUS
  <2> DEFINE d == lines[i].debit
             c == lines[i].credit
  <2>1. d \in Nat /\ c \in Nat /\ (d = 0 \/ c = 0) /\ Net(lines)[i] = d - c
    BY LinesTyped DEF Accepted
  <2>2. Net(kept)[i] = Rounded(d) - Rounded(c)
    BY <1>1, <1>2, LinesTyped
  <2> HIDE DEF d, c
  <2> QED
    BY <2>1, <2>2, HalfMoved
<1>6. IntOn(moved, D) /\ IntOn(five, D) /\ IsFiniteSet(D) /\ \A i \in D : five[i] = 5
  BY <1>5, LinesTyped DEF IntOn
<1>7. IntOn(Net(kept), D) /\ IntOn(Net(lines), D)
  <2>1. \A i \in D : Net(lines)[i] \in Int
    BY LinesTyped
  <2>2. \A i \in DOMAIN kept : Net(kept)[i] \in Int
    BY <1>1, LinesTyped
  <2> QED
    BY <1>1, <2>1, <2>2 DEF IntOn
<1>8. \A i \in D : moved[i] = Net(kept)[i] - Net(lines)[i]
  OBVIOUS
<1> HIDE DEF moved, five
<1>9. Abs(Sum(moved, D)) <= Sum(five, D)
  BY <1>5, <1>6, SumAbs
<1>10. Sum(five, D) = 5 * Len(lines) /\ Len(lines) \in Nat
  <2>1. IsFiniteSet(D) /\ Cardinality(D) = Len(lines) /\ Len(lines) \in Nat
    BY LinesTyped
  <2> HIDE DEF D
  <2>2. Sum(five, D) = 5 * Cardinality(D)
    BY <1>6, <2>1, SumOfConstant
  <2> QED
    BY <2>1, <2>2
<1>11. Sum(moved, D) = Sum(Net(kept), D) - Sum(Net(lines), D)
  BY <1>6, <1>7, <1>8, SumSubtract
<1>12. Sum(Net(kept), D) = Off(kept) /\ Sum(Net(lines), D) = Off(lines) /\ Off(kept) \in Int /\ Off(lines) \in Int
  BY <1>1, OffIsNet
<1>13. Abs(Off(lines)) <= 10
  BY DEF Accepted
<1> QED
  BY <1>1, <1>9, <1>10, <1>11, <1>12, <1>13 DEF Abs, kept

-----------------------------------------------------------------------------
(* An entry is off by what its form and the rounding leave, and names accounts that
   exist. *)
Sound(e) == /\ Abs(Off(e.lines)) <= 10 + 5 * Len(e.lines)
            /\ \A i \in DOMAIN e.lines : e.lines[i].account \in Own \cup ForeignIds
BooksInv ==
  /\ LedgerInv
  /\ IsFiniteSet(entries) /\ IsFiniteSet(Own)
  /\ \A e \in entries : Sound(e)

LEMMA BooksInitInv == LedgerInit => BooksInv
<1> SUFFICES ASSUME LedgerInit PROVE BooksInv
  OBVIOUS
<1>1. Own = {} /\ entries = {}
  BY DEF LedgerInit, Own
<1> QED
  BY <1>1, LedgerInitInv, FS_EmptySet DEF BooksInv

(* While the entries and the accounts stay, so do the books. *)
LEMMA BooksStay ==
  ASSUME BooksInv, LedgerInv', UNCHANGED <<account, entries>>
  PROVE  BooksInv'
<1>1. Own' = Own /\ entries' = entries
  BY DEF Own
<1>2. \A e \in entries' : Sound(e)'
  BY <1>1 DEF BooksInv, Sound
<1> QED
  BY <1>1, <1>2 DEF BooksInv

LEMMA BooksInsert ==
  ASSUME BooksInv, LedgerInv', NEW k \in Keepers, InsertAccount(k)
  PROVE  BooksInv'
<1>1. PICK a \in AccountIds : account' = [account EXCEPT ![a] = paper[k].code]
  BY DEF InsertAccount
<1>3. paper[k].code \in Codes /\ paper[k].code # NoCode
  BY PaperKnown, CodesAssumption DEF BooksInv, InsertAccount, PaperFits
<1>4. Own' = Own \cup {a} /\ entries' = entries
  BY <1>1, <1>3 DEF Own, InsertAccount, BooksInv, LedgerInv, LedgerTypeOK
<1>5. IsFiniteSet(Own')
  BY <1>4, FS_AddElement DEF BooksInv
<1>6. \A e \in entries' : Sound(e)'
  BY <1>4 DEF BooksInv, Sound
<1> QED
  BY <1>4, <1>5, <1>6 DEF BooksInv

LEMMA BooksPosted ==
  ASSUME BooksInv, LedgerInv', CreateJournalEntry
  PROVE  BooksInv'
<1>1. PICK lines \in Forms, posted \in BOOLEAN :
        /\ Accepted(lines)
        /\ \A i \in DOMAIN lines : lines[i].account \in Own \cup ForeignIds
        /\ entries' = entries \cup {[number |-> acts', posted |-> posted, lines |-> Kept(lines)]}
  BY DEF CreateJournalEntry
<1>2. Own' = Own
  BY DEF CreateJournalEntry, Own
<1> DEFINE e == [number |-> acts', posted |-> posted, lines |-> Kept(lines)]
<1>3. e.lines = Kept(lines) /\ entries' = entries \cup {e}
  BY <1>1
<1> HIDE DEF e
<1>4. lines \in Seq(Line)
  BY FormsAssumption
<1>5. Abs(Off(Kept(lines))) <= 10 + 5 * Len(Kept(lines))
  BY <1>1, <1>4, KeptOff
<1>6. DOMAIN Kept(lines) = DOMAIN lines /\ \A i \in DOMAIN lines : Kept(lines)[i].account = lines[i].account
  BY <1>4, KeptLine, KeptTyped, LinesTyped
<1>7. \A i \in DOMAIN Kept(lines) : Kept(lines)[i].account \in Own \cup ForeignIds
  BY <1>1, <1>6
<1>8. Sound(e)
  BY <1>3, <1>5, <1>7 DEF Sound
<1>9. \A d \in entries' : Sound(d)'
  <2>1. \A d \in entries' : Sound(d)
    BY <1>3, <1>8 DEF BooksInv
  <2> QED
    BY <1>2, <2>1 DEF Sound
<1>10. IsFiniteSet(entries')
  BY <1>3, FS_AddElement DEF BooksInv
<1> QED
  BY <1>2, <1>9, <1>10 DEF BooksInv

LEMMA BooksNextInv == BooksInv /\ [LedgerNext]_ledgerVars => BooksInv'
<1> SUFFICES ASSUME BooksInv, [LedgerNext]_ledgerVars PROVE BooksInv'
  OBVIOUS
<1>0. LedgerInv'
  BY LedgerNextInv DEF BooksInv
<1>1. CASE UNCHANGED <<account, entries>>
  BY <1>0, <1>1, BooksStay
<1>2. CASE CreateJournalEntry
  BY <1>0, <1>2, BooksPosted
<1>3. CASE PlanChanges
  BY <1>1, <1>3 DEF PlanChanges
<1>4. ASSUME NEW k \in Keepers, \/ BeginCreateAccount(k) \/ BeginSeed(k) \/ SeedNext(k)
                                \/ FindAccount(k) \/ Abandon(k)
      PROVE  BooksInv'
  BY <1>1, <1>4 DEF BeginCreateAccount, BeginSeed, SeedNext, FindAccount, Abandon
<1>5. ASSUME NEW k \in Keepers, InsertAccount(k) PROVE BooksInv'
  BY <1>0, <1>5, BooksInsert
<1> QED
  BY <1>1, <1>2, <1>3, <1>4, <1>5 DEF LedgerNext, ledgerVars

LEMMA BooksInvHolds == LedgerSpec => []BooksInv
  BY BooksInitInv, BooksNextInv, PTL DEF LedgerSpec
-----------------------------------------------------------------------------
(* What one entry adds to the balance of the company's accounts. *)
OwnLines(e) == {i \in DOMAIN e.lines : e.lines[i].account \in Own}
Sizes(lines) == [i \in DOMAIN lines |-> lines[i].debit + lines[i].credit]
ForeignLines(e) == UNION {LinesOf(a, e) : a \in ForeignIds}

(* It is what the entry is off by, less what it posts to other companies. *)
LEMMA EntryWithinSlack ==
  ASSUME NEW e \in Entry, Sound(e)
  PROVE  Abs(Sum(Net(e.lines), OwnLines(e))) <= Slack(e) /\ Slack(e) \in Int
<1> DEFINE lines == e.lines
           D == DOMAIN lines
           own == OwnLines(e)
           others == D \ own
           n == Net(lines)
           z == Sizes(lines)
           abroad == ForeignLines(e)
<1>1. lines \in Seq(Line) /\ D = DOMAIN lines
  BY DEF Entry
<1>2. own \subseteq D /\ own \cup others = D /\ own \cap others = {}
  BY DEF OwnLines
<1>3. abroad \subseteq D /\ others \subseteq abroad
  BY DEF Sound, OwnLines, ForeignLines, LinesOf
<1>4. \A i \in D : n[i] \in Int /\ z[i] \in Nat /\ Abs(n[i]) <= z[i]
  BY <1>1, LinesTyped DEF Sizes, Abs
<1>5. IsFiniteSet(D) /\ Len(lines) \in Nat
  BY <1>1, LinesTyped
<1>6. Abs(Off(lines)) <= 10 + 5 * Len(lines) /\ Off(lines) = Sum(n, D)
  BY <1>1, OffIsNet DEF Sound
<1>7. Foreign(e) = Sum(z, abroad)
  BY DEF Foreign, Sizes, ForeignLines
<1>8. Slack(e) = 10 + 5 * Len(lines) + Foreign(e)
  BY DEF Slack
<1> HIDE DEF lines, D, own, n, z, abroad
<1>9. /\ IsFiniteSet(own) /\ IsFiniteSet(others) /\ IsFiniteSet(abroad)
      /\ IntOn(n, own) /\ IntOn(n, others) /\ IntOn(z, others) /\ IntOn(z, abroad)
      /\ \A i \in abroad : z[i] \in Nat
  BY <1>2, <1>3, <1>4, <1>5, FS_Subset DEF IntOn
<1> HIDE DEF others
<1>10. Sum(n, D) = Sum(n, own) + Sum(n, others)
  BY <1>2, <1>9, SumOfParts
<1>11. Abs(Sum(n, others)) <= Sum(z, others)
  <2>1. \A i \in others : Abs(n[i]) <= z[i]
    BY <1>2, <1>4
  <2> QED
    BY <1>9, <2>1, SumAbs
<1>12. Sum(z, others) <= Sum(z, abroad)
  BY <1>3, <1>9, SumOfPart
<1>13. /\ Sum(n, own) \in Int /\ Sum(n, others) \in Int
       /\ Sum(z, others) \in Int /\ Sum(z, abroad) \in Int
  BY <1>9, SumInt DEF IntOn
<1>14. Abs(Sum(n, own)) <= Slack(e) /\ Slack(e) \in Int
  BY <1>5, <1>6, <1>7, <1>8, <1>10, <1>11, <1>12, <1>13 DEF Abs
<1> QED
  BY <1>14 DEF n, own, lines

(* The balance of an account, and the balances of all of them, entry by entry. *)
Balances == [a \in Own |-> [e \in Posted |-> Sum(Net(e.lines), LinesOf(a, e))]]

LEMMA BalanceOfAccount ==
  ASSUME BooksInv, NEW a \in Own
  PROVE  TrialBalance(a, "debit") - TrialBalance(a, "credit") = Sum(Balances[a], Posted)
<1> DEFINE d == [e \in Posted |-> Sum(Debits(e.lines), LinesOf(a, e))]
           c == [e \in Posted |-> Sum(Credits(e.lines), LinesOf(a, e))]
<1>1. TrialBalance(a, "debit") = Sum(d, Posted)
  BY DEF TrialBalance, Debits
<1>2. TrialBalance(a, "credit") = Sum(c, Posted)
  BY DEF TrialBalance, Credits
<1>3. \A e \in Posted : e.lines \in Seq(Line) /\ LinesOf(a, e) \subseteq DOMAIN e.lines
  BY DEF Posted, BooksInv, LedgerInv, LedgerTypeOK, Entry, LinesOf
<1>4. \A e \in Posted : d[e] \in Int /\ c[e] \in Int /\ Balances[a][e] = d[e] - c[e]
  <2> SUFFICES ASSUME NEW e \in Posted
               PROVE  d[e] \in Int /\ c[e] \in Int /\ Balances[a][e] = d[e] - c[e]
    OBVIOUS
  <2> DEFINE T == LinesOf(a, e)
             lines == e.lines
  <2>1. d[e] = Sum(Debits(lines), T) /\ c[e] = Sum(Credits(lines), T) /\ Balances[a][e] = Sum(Net(lines), T)
    BY DEF Balances
  <2>2. lines \in Seq(Line) /\ T \in SUBSET DOMAIN lines
    BY <1>3
  <2> HIDE DEF T, lines
  <2>3. /\ Sum(Debits(lines), T) - Sum(Credits(lines), T) = Sum(Net(lines), T)
        /\ Sum(Debits(lines), T) \in Int /\ Sum(Credits(lines), T) \in Int
    BY <2>2, NetOfPart
  <2> QED
    BY <2>1, <2>3
<1>5. IsFiniteSet(Posted)
  BY FS_Subset DEF Posted, BooksInv
<1> HIDE DEF d, c
<1>6. Sum(Balances[a], Posted) = Sum(d, Posted) - Sum(c, Posted)
  BY <1>4, <1>5, SumSubtract DEF IntOn
<1> QED
  BY <1>1, <1>2, <1>6

LEMMA EntryOfBalances ==
  ASSUME BooksInv, NEW e \in Posted
  PROVE  Sum(Column(Balances, Own, e), Own) = Sum(Net(e.lines), OwnLines(e))
<1> DEFINE L == DOMAIN e.lines
           m == [i \in L |-> e.lines[i].account]
           b == Net(e.lines)
<1>1. e.lines \in Seq(Line)
  BY DEF Posted, BooksInv, LedgerInv, LedgerTypeOK, Entry
<1>2. IsFiniteSet(L) /\ IntOn(b, L) /\ IsFiniteSet(Own)
  BY <1>1, LinesTyped DEF IntOn, BooksInv
<1>3. \A a \in Own : Group(L, m, a) = LinesOf(a, e)
  BY DEF Group, LinesOf
<1>4. Groups(L, m, Own) = OwnLines(e)
  BY DEF Groups, OwnLines
<1>5. Column(Balances, Own, e) = ByGroup(b, L, m, Own)
  BY <1>3 DEF Column, Balances, ByGroup
<1> HIDE DEF L, m, b
<1>6. Sum(ByGroup(b, L, m, Own), Own) = Sum(b, Groups(L, m, Own))
  BY <1>2, SumOfGroups
<1> QED
  BY <1>4, <1>5, <1>6 DEF b

LEMMA BooksBalance == BooksInv => TrialBalanceHolds
<1> SUFFICES ASSUME BooksInv PROVE TrialBalanceHolds
  OBVIOUS
<1> DEFINE total == [a \in Own |-> TrialBalance(a, "debit") - TrialBalance(a, "credit")]
           slack == [e \in Posted |-> Slack(e)]
           byEntry == ByColumns(Balances, Own, Posted)
<1>1. IsFiniteSet(Own) /\ IsFiniteSet(Posted)
  BY FS_Subset DEF Posted, BooksInv
<1>2. \A e \in Posted : e \in Entry /\ Sound(e)
  BY DEF Posted, BooksInv, LedgerInv, LedgerTypeOK
<1>3. \A a \in Own : IntOn(Balances[a], Posted)
  <2> SUFFICES ASSUME NEW a \in Own, NEW e \in Posted PROVE Balances[a][e] \in Int
    BY DEF IntOn
  <2>1. e.lines \in Seq(Line) /\ LinesOf(a, e) \in SUBSET DOMAIN e.lines
    BY <1>2 DEF Entry, LinesOf
  <2> QED
    BY <2>1, NetOfPart DEF Balances
<1>4. total = ByRows(Balances, Own, Posted)
  BY BalanceOfAccount DEF ByRows
<1>5. Sum(ByRows(Balances, Own, Posted), Own) = Sum(byEntry, Posted)
  BY <1>1, <1>3, RowsAreColumns
<1>6. \A e \in Posted : byEntry[e] \in Int /\ slack[e] \in Int /\ Abs(byEntry[e]) <= slack[e]
  <2> SUFFICES ASSUME NEW e \in Posted
               PROVE  byEntry[e] \in Int /\ slack[e] \in Int /\ Abs(byEntry[e]) <= slack[e]
    OBVIOUS
  <2>1. byEntry[e] = Sum(Net(e.lines), OwnLines(e)) /\ slack[e] = Slack(e)
    BY EntryOfBalances DEF ByColumns
  <2>2. e.lines \in Seq(Line) /\ OwnLines(e) \in SUBSET DOMAIN e.lines
    BY <1>2 DEF Entry, OwnLines
  <2>3. Sum(Net(e.lines), OwnLines(e)) \in Int
    BY <2>2, NetOfPart
  <2>4. Abs(Sum(Net(e.lines), OwnLines(e))) <= Slack(e) /\ Slack(e) \in Int
    BY <1>2, EntryWithinSlack
  <2> QED
    BY <2>1, <2>3, <2>4
<1> HIDE DEF byEntry, slack
<1>7. Abs(Sum(byEntry, Posted)) <= Sum(slack, Posted)
  BY <1>1, <1>6, SumAbs DEF IntOn
<1>8. Abs(Sum(total, Own)) <= Sum(slack, Posted)
  BY <1>4, <1>5, <1>7
<1> QED
  BY <1>8 DEF TrialBalanceHolds, slack

(* Whatever forms are posted in whatever order, the trial balance is off by no more
   than rounding and the lines on accounts of other companies explain
   (accounting.service.ts:72-179). *)
THEOREM TrialBalanceKept == LedgerSpec => []TrialBalanceHolds
  BY BooksInvHolds, BooksBalance, PTL

(* Types, codes and balance together, as they are checked. *)
THEOREM BooksCorrect == LedgerSpec => []LedgerHolds
  BY LedgerTyped, TwinCodesCoupled, TrialBalanceKept, PTL DEF LedgerHolds
=============================================================================
