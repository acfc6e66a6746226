------------------------------- MODULE Ledger -------------------------------
(***************************************************************************)
(* The books of a company: accounts and journal entries of                 *)
(* accounting.service.ts.  Amounts are in thousandths; a column keeps      *)
(* hundredths.                                                             *)
(***************************************************************************)
EXTENDS Integers, Sequences, FiniteSets, Functions

CONSTANTS
  Keepers,            \* requests in progress
  AccountIds,         \* accounts of the company
  ForeignIds,         \* accounts of other companies
  Codes, SeedCodes,   \* seedDefaultAccounts makes one account per seed code
  NoCode,
  Forms,              \* lists of lines people hand in
  MaxEntries          \* bound on requests

VARIABLES
  account, entries,
  desk, paper, acts,
  enabled,   \* the plan of the company includes accounting
  coupled    \* history: codes two overlapping creations found free

ledgerVars == <<account, entries, desk, paper, acts, enabled, coupled>>

(* A line names an account and, in thousandths, amounts that are not negative. *)
Line == [account : AccountIds \cup ForeignIds, debit : Nat, credit : Nat]
ASSUME FormsAssumption == Forms \subseteq Seq(Line)
ASSUME CodesAssumption == SeedCodes \subseteq Codes /\ NoCode \notin Codes
ASSUME EntriesAssumption == MaxEntries \in Nat

Entry == [number : 1..MaxEntries, posted : BOOLEAN, lines : Seq(Line)]
Paper == [kind : {"none", "account", "seed"}, code : Codes \cup {NoCode}, todo : SUBSET SeedCodes]
NoPaper == [kind |-> "none", code |-> NoCode, todo |-> {}]
LedgerTypeOK ==
  /\ account \in [AccountIds -> Codes \cup {NoCode}] /\ enabled \in BOOLEAN
  /\ \A e \in entries : e \in Entry
  /\ desk \in [Keepers -> {"idle", "seed", "find", "insert"}] /\ paper \in [Keepers -> Paper]
  /\ acts \in 0..MaxEntries /\ coupled \subseteq Codes

LedgerInit ==
  /\ account = [a \in AccountIds |-> NoCode] /\ entries = {} /\ enabled \in BOOLEAN
  /\ desk = [k \in Keepers |-> "idle"] /\ paper = [k \in Keepers |-> NoPaper]
  /\ acts = 0 /\ coupled = {}
-----------------------------------------------------------------------------
Act == enabled /\ acts < MaxEntries /\ acts' = acts + 1
Sit(k, d, p) == desk' = [desk EXCEPT ![k] = d] /\ paper' = [paper EXCEPT ![k] = p]
Rise(k) == Sit(k, "idle", NoPaper)
Own == {a \in AccountIds : account[a] # NoCode}
WithCode(x) == {a \in Own : account[a] = x}

(* createAccount, and seedDefaultAccounts one code at a time. *)
BeginCreateAccount(k) ==
  /\ desk[k] = "idle" /\ Act
  /\ \E x \in Codes : Sit(k, "find", [NoPaper EXCEPT !.kind = "account", !.code = x])
  /\ UNCHANGED <<account, entries, enabled, coupled>>
BeginSeed(k) ==
  /\ desk[k] = "idle" /\ Act
  /\ Sit(k, "seed", [NoPaper EXCEPT !.kind = "seed", !.todo = SeedCodes])
  /\ UNCHANGED <<account, entries, enabled, coupled>>
SeedNext(k) ==
  /\ desk[k] = "seed"
  /\ \/ paper[k].todo = {} /\ Rise(k)
     \/ \E x \in paper[k].todo :
          Sit(k, "find", [paper[k] EXCEPT !.code = x, !.todo = @ \ {x}])
  /\ UNCHANGED <<account, entries, acts, enabled, coupled>>
GoesOn(k) == IF paper[k].kind = "seed" THEN Sit(k, "seed", [paper[k] EXCEPT !.code = NoCode])
             ELSE Rise(k)
FindAccount(k) ==
  /\ desk[k] = "find"
  /\ IF WithCode(paper[k].code) # {} THEN GoesOn(k) ELSE Sit(k, "insert", paper[k])
  /\ UNCHANGED <<account, entries, acts, enabled, coupled>>
InsertAccount(k) ==
  /\ desk[k] = "insert"
  /\ \E a \in AccountIds \ Own : account' = [account EXCEPT ![a] = paper[k].code]
  /\ coupled' = coupled \cup
       {x \in {paper[k].code} : \E j \in Keepers \ {k} : desk[j] = "insert" /\ paper[j].code = x}
  /\ GoesOn(k) /\ UNCHANGED <<entries, acts, enabled>>
Abandon(k) == desk[k] # "idle" /\ Rise(k) /\ UNCHANGED <<account, entries, acts, enabled, coupled>>
-----------------------------------------------------------------------------
Sum(f, S) == FoldFunctionOnSet(+, 0, f, S)
Side(lines, side) == Sum([i \in DOMAIN lines |-> lines[i][side]], DOMAIN lines)
Off(lines) == Side(lines, "debit") - Side(lines, "credit")
Abs(n) == IF n < 0 THEN -n ELSE n
AcceptedOneSided(lines) ==  \* slip: only debits are held against credits
  /\ Len(lines) >= 2 /\ Off(lines) <= 10
  /\ \A i \in DOMAIN lines : lines[i].debit = 0 \/ lines[i].credit = 0
Accepted(lines) ==
  /\ Len(lines) >= 2 /\ Abs(Off(lines)) <= 10
  /\ \A i \in DOMAIN lines : lines[i].debit = 0 \/ lines[i].credit = 0
Rounded(n) == 10 * ((n + 5) \div 10)
Kept(lines) == [i \in DOMAIN lines |->
  [lines[i] EXCEPT !.debit = Rounded(@), !.credit = Rounded(@)]]
(* createJournalEntry: entry and lines are inserted in one transaction, which an
   unknown account undoes; accounts are not compared with the company. *)
CreateJournalEntry ==
  /\ Act
  /\ \E lines \in Forms, posted \in BOOLEAN :
       /\ Accepted(lines)
       /\ \A i \in DOMAIN lines : lines[i].account \in Own \cup ForeignIds
       /\ entries' = entries \cup {[number |-> acts', posted |-> posted, lines |-> Kept(lines)]}
  /\ UNCHANGED <<account, desk, paper, enabled, coupled>>
(* getTrialBalance: posted lines of the company's own accounts. *)
Posted == {e \in entries : e.posted}
LinesOf(a, e) == {i \in DOMAIN e.lines : e.lines[i].account = a}
TrialBalance(a, side) ==
  Sum([e \in Posted |-> Sum([i \in DOMAIN e.lines |-> e.lines[i][side]], LinesOf(a, e))], Posted)
(* The plan changes, and with it what the handlers allow. *)
PlanChanges == enabled' = ~enabled /\ UNCHANGED <<account, entries, desk, paper, acts, coupled>>

LedgerNext ==
  \/ CreateJournalEntry \/ PlanChanges
  \/ \E k \in Keepers : \/ BeginCreateAccount(k) \/ BeginSeed(k) \/ SeedNext(k)
                        \/ FindAccount(k) \/ InsertAccount(k) \/ Abandon(k)
LedgerSpec == LedgerInit /\ [][LedgerNext]_ledgerVars
-----------------------------------------------------------------------------
(* Two accounts have the same code only when two creations, or a creation and the
   seeding, both missed it (accounting.service.ts:24-38, 48-69). *)
TwinCodesHaveCause == \A x \in Codes : Cardinality(WithCode(x)) > 1 => x \in coupled
(* The trial balance is off by no more than a hundredth, and half of one per line,
   for each posted entry, and by what was posted to accounts of other companies
   (accounting.service.ts:72-179). *)
Foreign(e) == Sum([i \in DOMAIN e.lines |-> e.lines[i].debit + e.lines[i].credit],
                  UNION {LinesOf(a, e) : a \in ForeignIds})
Slack(e) == 10 + 5 * Len(e.lines) + Foreign(e)
TrialBalanceHolds ==
  Abs(Sum([a \in Own |-> TrialBalance(a, "debit") - TrialBalance(a, "credit")], Own))
    <= Sum([e \in Posted |-> Slack(e)], Posted)
(* The books keep their types and both statements (accounting.service.ts:24-179). *)
LedgerHolds == LedgerTypeOK /\ TwinCodesHaveCause /\ TrialBalanceHolds
=============================================================================
