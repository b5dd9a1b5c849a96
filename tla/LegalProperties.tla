--------------------------- MODULE LegalProperties ---------------------------
(* What the legal proceedings against one borrower must get right. *)
EXTENDS Legal

Types == Open \union Over
Jobs == {"notice", "toFile", "progress", "file", "summons", "warrant", "withdraw",
         "assign", "close", "dispose", "disposePaid", "retire"}
Labels == {"idle", "create", "mark", "link", "assign", "owing", "close", "trace",
           "dispose", "notice", "remark", "read", "debits", "check", "place", "placed",
           "retire", "fail", "eligible", "dedupe"}

(* Every variable stays in its domain. *)
TypeOK ==
  /\ loan \in [status : {"Active", "Complete"},
               type : Types \union {"NONE", "AUTODEBIT"}, at : 0 .. MaxRows,
               followed : BOOLEAN]
  /\ row \in [RowIds -> [type : Types \union {"NONE"}, history : BOOLEAN,
                         numbered : BOOLEAN, debit : 0 .. MaxDebits]]
  /\ debit \in [DebitIds -> [status : {"NONE", "INITIALIZED", "FAILED"},
                             sent : BOOLEAN, noticed : BOOLEAN]]
  /\ stale \subseteq DebitIds
  /\ trace \subseteq {"dispose", "disposePaid"}
  /\ pc \in [Workers -> Labels]
  /\ task \in [Workers -> [job : Jobs \union {"NONE"}, row : 0 .. MaxRows,
                 new : 0 .. MaxRows, debit : 0 .. MaxDebits, todo : SUBSET RowIds]]
  /\ calm \in BOOLEAN
  /\ aborts \in 0 .. MaxAborts

(* However the handlers interleave and wherever they die, no stage is      *)
(* reached without what must come before it: a notice follows a            *)
(* full-payment debit that was sent to the bank and refused, a case a      *)
(* notice, a summons the filing, a warrant a summons; a case is closed as  *)
(* paid, withdrawn without a warrant, or disposed of without being         *)
(* withdrawn only when the loan is Complete.  Every handler checks this in *)
(* a row it read long before it writes.                                    *)
After(r, T) == \E s \in RowIds : s < r /\ row[s].type \in T
Grounded(r) ==
  CASE row[r].type = "NOTICE"      -> \E d \in DebitIds : /\ row[r].debit = d
                                                          /\ debit[d].status = "FAILED"
                                                          /\ debit[d].sent
    [] row[r].type = "TO_FILE"     -> After(r, {"NOTICE"})
    [] row[r].type = "IN_PROGRESS" -> After(r, {"TO_FILE"})
    [] row[r].type = "FILLED"      -> After(r, {"IN_PROGRESS"})
    [] row[r].type = "SUMMONS"     -> After(r, {"FILLED"})
    [] row[r].type = "WARRENT"     -> After(r, {"SUMMONS"})
    [] row[r].type = "WITHDRAWAL"  -> \/ After(r, {"WARRENT"})
                                      \/ ~Active /\ After(r, {"FILLED"})
    [] row[r].type = "ASSIGN"      -> After(r, {"NOTICE"})
    [] row[r].type = "PAID"        -> ~Active /\ After(r, {"NOTICE"})
    [] row[r].type = "DISPOSAL"    -> ~Active \/ After(r, {"WITHDRAWAL"})
    [] OTHER                       -> TRUE
CaseByTheBook == \A r \in RowIds : Grounded(r)

(* As long as no two handlers overlapped and none died, a loan has one     *)
(* proceeding at most, the loan points at it and shows its stage, and no   *)
(* debit led to two notices.  removeDuplicateLegel exists because handlers *)
(* do overlap.                                                             *)
OneProceeding ==
  calm /\ Quiet =>
    /\ \A r \in Current(Types) : loan.at = r /\ loan.type = row[r].type
    /\ \A r, s \in Rows :
         row[r].type = "NOTICE" /\ row[s].type = "NOTICE" /\ r # s
           => row[r].debit # row[s].debit

(* Under the same condition, and if somebody followed the loan, a loan     *)
(* that is Complete leaves no notice and no case open against its          *)
(* borrower.                                                               *)
ClosedHasNoCase ==
  calm /\ Quiet /\ loan.followed /\ ~Active => Current(Open) = {}
=============================================================================
