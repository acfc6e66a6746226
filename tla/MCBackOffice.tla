---------------------------- MODULE MCBackOffice ----------------------------
(* Attendance, the books and the product images share no table: each behaviour is
   about one of them. *)
EXTENDS Attendance, Ledger, ProductImages

VARIABLE part

(* Two sides that agree, that differ by the tolerance and beyond it either way,
   three thirds, two lines without a hundredth, a line with both sides and an entry
   with one line; on the first accounts, or with one of another company. *)
On(a, d, c) == [account |-> a, debit |-> d, credit |-> c]
FormsOn(a, b) ==
  {<<On(a, 1000, 0), On(b, 0, 1000)>>, <<On(a, 1010, 0), On(b, 0, 1000)>>,
   <<On(a, 1000, 0), On(b, 0, 1010)>>, <<On(a, 1000, 0), On(b, 0, 1500)>>,
   <<On(a, 1500, 0), On(b, 0, 1000)>>,
   <<On(a, 333, 0), On(a, 333, 0), On(a, 334, 0), On(b, 0, 1000)>>,
   <<On(a, 4, 0), On(a, 4, 0), On(b, 0, 8)>>,
   <<On(a, 500, 500), On(b, 0, 0)>>, <<On(a, 0, 0)>>}
Specimens == UNION {FormsOn(a, b) : a, b \in AccountIds \cup ForeignIds}

MCInit == /\ part \in {"times", "books", "shelf"}
          /\ AttendanceInit /\ LedgerInit /\ ImagesInit
          /\ (part # "times" => policy) /\ (part # "books" => enabled)
MCNext ==
  \/ part = "times" /\ AttendanceNext /\ UNCHANGED <<part, ledgerVars, imageVars>>
  \/ part = "books" /\ LedgerNext /\ UNCHANGED <<part, attendanceVars, imageVars>>
  \/ part = "shelf" /\ ImagesNext /\ UNCHANGED <<part, attendanceVars, ledgerVars>>
MCSpec == MCInit /\ [][MCNext]_<<part, attendanceVars, ledgerVars, imageVars>>
=============================================================================
