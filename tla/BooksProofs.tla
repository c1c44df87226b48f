----------------------------- MODULE BooksProofs -----------------------------
(***************************************************************************)
(* Proofs about Books, for any numbers of periods, documents, entries and  *)
(* requests: a closed period stays as it is (ClosesForGood), the voucher   *)
(* mirrors its expense (VoucherIsTrue), an entry is reversed once          *)
(* (ReversesOnce), and, as long as no two requests overlap, one period is  *)
(* open, the closed ones report the truth (ReportsCanBeTrusted) and the    *)
(* ledger follows the documents (LedgerFollowsDocuments).                  *)
(*                                                                         *)
(* Two invariants.  IInv holds however requests race: what makes it        *)
(* inductive is what a request that has read its document or entry may     *)
(* still count on when it writes (Linked): that it exists and is of the    *)
(* kind it was, and, for the reversal of a manual entry, that it is still  *)
(* posted while no other request has come between.  CInv is about calm     *)
(* histories: a request may then count on all it has read (Ready), and     *)
(* each document is booked once or has a failure on record (Tracked).      *)
(***************************************************************************)
EXTENDS Books, SumTheorems

DocShape == [kind : {"none", "expense", "voucher", "transfer"},
             status : {"absent", "active", "cancelled", "deleted"},
             period : Periods \union {NoPeriod}, amount : Nat,
             voucher : {"none", "active", "cancelled"}, paid : Nat]

FailureShape == {row \in Failure : row.status # "absent" => row.doc \in Docs}

\* What the periods hold is in Dated below.
Shape ==
    /\ period = [p \in Periods |-> period[p]]
    /\ doc \in [Docs -> DocShape]
    /\ journal \in [Entries -> Entry]
    /\ failure \in [Failures -> FailureShape]
    /\ req \in [Requests -> Request]
    /\ calm \in BOOLEAN

LinkedTo(q) ==
    /\ q.op \in {"edit", "delete", "cancel"} =>
          q.doc \in Docs /\ doc[q.doc].status # "absent"
    /\ q.op = "cancel" => /\ q.kind \in {"voucher", "transfer"}
                          /\ doc[q.doc].kind = q.kind
    /\ q.op = "reverse" => /\ q.id \in Entries
                           /\ journal[q.id].doc = NoDoc
                           /\ journal[q.id].status # "absent"
                           /\ calm => journal[q.id].status = "posted"
    /\ q.op = "repost" => q.id \in Failures /\ failure[q.id].status # "absent"

Linked == \A r \in Requests : LinkedTo(req[r])

OneByOne == calm => \A r, s \in Requests : req[r] # Idle /\ req[s] # Idle => r = s

IInv == Shape /\ Linked /\ OneByOne /\ VoucherMirrorsExpense /\ ReversedOnce

-----------------------------------------------------------------------------
(* A request is accepted.                                                  *)
LEMMA AcceptKeeps ==
    ASSUME IInv, NEW r \in Requests, NEW q \in Request, Accept(r, q), LinkedTo(q)
    PROVE  IInv'
<1> USE DEF IInv
<1>1. /\ req[r] = Idle /\ req' = [req EXCEPT ![r] = q]
      /\ calm' = (calm /\ \A other \in Requests \ {r} : req[other] = Idle)
      /\ UNCHANGED <<period, doc, journal, failure>>
  BY DEF Accept, books
<1>2. /\ req' \in [Requests -> Request] /\ req'[r] = q
      /\ \A s \in Requests \ {r} : req'[s] = req[s]
  BY <1>1 DEF Shape
<1>3. Shape' BY <1>1, <1>2 DEF Shape
<1>4. calm' => calm BY <1>1 DEF Shape
<1>5. ASSUME NEW s \in Requests PROVE LinkedTo(req[s])'
  <2>1. CASE s = r BY <1>1, <1>2, <1>4, <2>1 DEF LinkedTo
  <2>2. CASE s # r
    <3>1. LinkedTo(req[s]) BY DEF Linked
    <3> QED BY <1>1, <1>2, <1>4, <2>2, <3>1 DEF LinkedTo
  <2> QED BY <2>1, <2>2
<1>6. Linked' BY <1>5 DEF Linked
<1>7. OneByOne' BY <1>1, <1>2 DEF OneByOne, Shape
<1>8. VoucherMirrorsExpense' BY <1>1 DEF VoucherMirrorsExpense, Active
<1>9. ReversedOnce' BY <1>1, <1>4 DEF ReversedOnce
<1> QED BY <1>3, <1>6, <1>7, <1>8, <1>9

(* What a step may do to the ledger: entries are added, and what it        *)
(* changes is reversed as often as it says.                                *)
Once(j, e) == j[e].mirrors = (IF j[e].status = "reversed" THEN 1 ELSE 0)

Grows(j, k) ==
    /\ k \in [Entries -> Entry]
    /\ \A e \in Entries :
          /\ j[e].status # "absent" => k[e].status # "absent" /\ k[e].doc = j[e].doc
          /\ k[e] = j[e] \/ Once(k, e)

FailuresKept ==
    /\ failure' \in [Failures -> FailureShape]
    /\ \A f \in Failures :
          failure[f].status # "absent" => failure'[f].status # "absent"

LEMMA PostGrows ==
    ASSUME NEW j \in [Entries -> Entry], NEW e \in Entries, j[e].status = "absent",
           NEW d \in Docs \union {NoDoc}, NEW p \in Periods \union {NoPeriod},
           NEW a \in Nat
    PROVE  Grows(j, PostInto(j, d, p, a, e))
<1> DEFINE x == [NoEntry EXCEPT !.status = "posted", !.doc = d, !.period = p,
                                !.amount = a]
           k == [j EXCEPT ![e] = x]
<1>1. NoEntry \in Entry /\ NoEntry.mirrors = 0 BY DEF NoEntry, Entry
<1>2. x \in Entry /\ x.status = "posted" /\ x.mirrors = 0
  <2> HIDE DEF x
  <2>1. x = [NoEntry EXCEPT !.status = "posted", !.doc = d, !.period = p, !.amount = a]
    BY DEF x
  <2>2. x \in Entry BY <1>1, <2>1 DEF Entry
  <2> QED BY <1>1, <2>1, <2>2 DEF Entry
<1>3. PostInto(j, d, p, a, e) = k BY DEF PostInto
<1> HIDE DEF x
<1>4. /\ k \in [Entries -> Entry] /\ k[e] = x
      /\ \A f \in Entries \ {e} : k[f] = j[f]
  BY <1>2
<1> HIDE DEF k
<1> QED BY <1>2, <1>3, <1>4 DEF Grows, Once

LEMMA MirrorGrows ==
    ASSUME Shape, NEW e \in Entries, journal[e].status = "posted", Once(journal, e)
    PROVE  Grows(journal, Mirror(e))
<1> DEFINE x == journal[e]
           m == x.mirrors + 1
           y == [x EXCEPT !.mirrors = m, !.status = "reversed"]
           k == [journal EXCEPT ![e] = y]
<1>1. x \in Entry /\ journal \in [Entries -> Entry] BY DEF Shape
<1>2. m = 1 BY DEF Once
<1>3. Mirror(e) = k BY <1>1 DEF Mirror
<1>4. y \in Entry /\ y.status = "reversed" /\ y.mirrors = 1 /\ y.doc = x.doc
  <2> HIDE DEF x, m
  <2>1. y \in Entry BY <1>1, <1>2 DEF Entry
  <2> QED BY <1>1, <1>2, <2>1 DEF Entry
<1> HIDE DEF y
<1>5. /\ k \in [Entries -> Entry] /\ k[e] = y
      /\ \A f \in Entries \ {e} : k[f] = journal[f]
  BY <1>1, <1>4
<1> HIDE DEF k
<1> QED BY <1>3, <1>4, <1>5 DEF Grows, Once

LEMMA ReversalsGrow ==
    ASSUME Shape, ReversedOnce, NEW d \in Docs, NEW j \in Reversals(d)
    PROVE  Grows(journal, j)
<1>1. CASE PostedOf(d) = {}
  BY <1>1 DEF Reversals, Grows, Shape
<1>2. CASE PostedOf(d) # {}
  <2>1. PICK e \in Entries :
           j = Mirror(e) /\ journal[e].status = "posted" /\ journal[e].doc = d
    BY <1>2 DEF Reversals, PostedOf
  <2>2. Once(journal, e) BY <2>1, BooksAssumption DEF ReversedOnce, Once
  <2> QED BY <2>1, <2>2, MirrorGrows
<1> QED BY <1>1, <1>2

LEMMA PostDocumentGrows ==
    ASSUME NEW j \in [Entries -> Entry],
           NEW d \in Docs, NEW p \in Periods \union {NoPeriod}, NEW a \in Nat,
           failure \in [Failures -> FailureShape], PostDocument(j, d, p, a)
    PROVE  Grows(j, journal') /\ FailuresKept
<1>1. CASE /\ \E e \in Entries :
                 j[e].status = "absent" /\ journal' = PostInto(j, d, p, a, e)
           /\ UNCHANGED failure
  BY <1>1, PostGrows DEF FailuresKept
<1>2. CASE /\ \E f \in Failures :
                 /\ failure[f].status = "absent"
                 /\ failure' = [failure EXCEPT ![f] = [status |-> "pending", doc |-> d]]
           /\ journal' = j
  <2>1. Grows(j, journal') BY <1>2 DEF Grows
  <2> DEFINE x == [status |-> "pending", doc |-> d]
  <2>2. x \in FailureShape /\ x.status = "pending" BY DEF Failure, FailureShape
  <2>3. PICK f \in Failures : failure' = [failure EXCEPT ![f] = x] BY <1>2
  <2> HIDE DEF x
  <2>4. FailuresKept BY <2>2, <2>3 DEF FailuresKept
  <2> QED BY <2>1, <2>4
<1> QED BY <1>1, <1>2 DEF PostDocument

LEMMA GrowsTwice ==
    ASSUME NEW j, NEW k, NEW l, Grows(j, k), Grows(k, l)
    PROVE  Grows(j, l)
  BY DEF Grows, Once

(* A request commits: what the others rely on is still there.              *)
LEMMA CommitKeeps ==
    ASSUME IInv, NEW r \in Requests, req[r].op # "idle",
           req' = [req EXCEPT ![r] = Idle], calm' = calm,
           period' = [p \in Periods |-> period'[p]],
           doc' \in [Docs -> DocShape],
           \A d \in Docs : doc[d].status # "absent" =>
               doc'[d].status # "absent" /\ doc'[d].kind = doc[d].kind,
           VoucherMirrorsExpense',
           journal' \in [Entries -> Entry],
           \A e \in Entries : journal[e].status # "absent" =>
               journal'[e].status # "absent" /\ journal'[e].doc = journal[e].doc,
           ReversedOnce', FailuresKept
    PROVE  IInv'
<1> USE DEF IInv
<1>1. Idle \in Request /\ Idle.op = "idle"
  BY DEF Idle, Request, OpNames
<1>2. /\ req' \in [Requests -> Request] /\ req'[r] = Idle
      /\ \A s \in Requests \ {r} : req'[s] = req[s]
  BY <1>1 DEF Shape
<1>3. Shape' BY <1>2 DEF Shape, FailuresKept
<1>4. ASSUME NEW s \in Requests PROVE LinkedTo(req[s])'
  <2>1. CASE s = r BY <1>1, <1>2, <2>1 DEF LinkedTo
  <2>2. CASE s # r
    <3>1. LinkedTo(req[s]) BY DEF Linked
    <3>2. req[s].op = "reverse" => ~calm
      BY <1>1, <2>2 DEF OneByOne
    <3> QED BY <1>2, <2>2, <3>1, <3>2 DEF LinkedTo, FailuresKept
  <2> QED BY <2>1, <2>2
<1>5. Linked' BY <1>4 DEF Linked
<1>6. OneByOne' BY <1>2 DEF OneByOne
<1> QED BY <1>3, <1>5, <1>6

(* A ledger that grew is reversed as often as it was.                      *)
LEMMA GrowthIsReversedOnce ==
    ASSUME Shape, ReversedOnce, Grows(journal, journal'), calm' = calm
    PROVE  /\ journal' \in [Entries -> Entry]
           /\ \A e \in Entries : journal[e].status # "absent" =>
                 journal'[e].status # "absent" /\ journal'[e].doc = journal[e].doc
           /\ ReversedOnce'
<1>1. ASSUME NEW e \in Entries, journal'[e].doc # NoDoc \/ calm'
      PROVE  journal'[e].mirrors = (IF journal'[e].status = "reversed" THEN 1 ELSE 0)
  <2>1. CASE journal'[e] = journal[e] BY <1>1, <2>1 DEF ReversedOnce
  <2>2. CASE Once(journal', e) BY <2>2 DEF Once
  <2> QED BY <2>1, <2>2 DEF Grows
<1> QED BY <1>1 DEF Grows, ReversedOnce

(* Writes to one document.                                                 *)
LEMMA OneDocument ==
    ASSUME Shape, VoucherMirrorsExpense, NEW d \in Docs, NEW x \in DocShape,
           doc' = [doc EXCEPT ![d] = x], x.status # "absent",
           doc[d].status # "absent" => x.kind = doc[d].kind,
           x.kind = "expense" =>
              IF x.status = "active" THEN x.voucher = "active" /\ x.paid = x.amount
              ELSE x.voucher = "cancelled"
    PROVE  /\ doc' \in [Docs -> DocShape]
           /\ \A c \in Docs : doc[c].status # "absent" =>
                 doc'[c].status # "absent" /\ doc'[c].kind = doc[c].kind
           /\ VoucherMirrorsExpense'
<1>1. /\ doc' \in [Docs -> DocShape] /\ doc'[d] = x
      /\ \A c \in Docs \ {d} : doc'[c] = doc[c]
  BY DEF Shape
<1>2. ASSUME NEW c \in Docs, doc'[c].kind = "expense"
      PROVE  IF doc'[c].status = "active"
             THEN doc'[c].voucher = "active" /\ doc'[c].paid = doc'[c].amount
             ELSE doc'[c].voucher = "cancelled"
  <2>1. CASE c = d BY <1>1, <1>2, <2>1
  <2>2. CASE c # d BY <1>1, <1>2, <2>2 DEF VoucherMirrorsExpense, Active
  <2> QED BY <2>1, <2>2
<1>3. VoucherMirrorsExpense' BY <1>2 DEF VoucherMirrorsExpense, Active
<1> QED BY <1>1, <1>3

(* The transaction of a new document.                                      *)
LEMMA InsertKeeps ==
    ASSUME IInv, NEW r \in Requests, NEW k \in {"expense", "voucher", "transfer"},
           NEW row \in DocShape, Insert(r, k, row), row.kind = k,
           row.status = "active",
           k = "expense" => row.voucher = "active" /\ row.paid = row.amount
    PROVE  IInv'
<1> USE DEF IInv
<1>1. PICK d \in Docs :
         /\ Finish(r, "create") /\ doc[d].status = "absent"
         /\ doc' = [doc EXCEPT ![d] = row]
         /\ PostDocument(journal, d, req[r].period, req[r].amount)
         /\ UNCHANGED period
  BY DEF Insert
<1>2. req[r].op # "idle" /\ req' = [req EXCEPT ![r] = Idle] /\ calm' = calm
  BY <1>1 DEF Finish
<1>3. req[r].period \in Periods \union {NoPeriod} /\ req[r].amount \in Nat
  BY DEF Shape, Request
<1>4. Grows(journal, journal') /\ FailuresKept
  BY <1>1, <1>3, PostDocumentGrows DEF Shape
<1>5. /\ doc' \in [Docs -> DocShape]
      /\ \A c \in Docs : doc[c].status # "absent" =>
            doc'[c].status # "absent" /\ doc'[c].kind = doc[c].kind
      /\ VoucherMirrorsExpense'
  BY <1>1, OneDocument
<1>6. period' = [p \in Periods |-> period'[p]] BY <1>1 DEF Shape
<1> QED BY <1>2, <1>4, <1>5, <1>6, GrowthIsReversedOnce, CommitKeeps

LEMMA RowsWritten ==
    ASSUME NEW t \in Request
    PROVE  /\ Written(t) \in DocShape /\ Written(t).status = "active"
           /\ Written(t).kind = t.kind
           /\ Minted(Written(t)) \in DocShape /\ Minted(Written(t)).status = "active"
           /\ Minted(Written(t)).kind = t.kind
           /\ Minted(Written(t)).voucher = "active"
           /\ Minted(Written(t)).paid = Minted(Written(t)).amount
<1> DEFINE w == Written(t)
<1>1. /\ t.kind \in {"none", "expense", "voucher", "transfer"}
      /\ t.period \in Periods \union {NoPeriod} /\ t.amount \in Nat
  BY DEF Request
<1>2. NoDocRow \in DocShape BY DEF NoDocRow, DocShape
<1>3. w = [NoDocRow EXCEPT !.kind = t.kind, !.status = "active", !.period = t.period,
                           !.amount = t.amount]
  BY DEF Written
<1> HIDE DEF w
<1>4. w \in DocShape BY <1>1, <1>2, <1>3 DEF DocShape
<1>5. w.status = "active" /\ w.kind = t.kind BY <1>2, <1>3, <1>4 DEF DocShape
<1> DEFINE m == [w EXCEPT !.voucher = "active", !.paid = w.amount]
<1>6. Minted(w) = m BY DEF Minted
<1>7. m \in DocShape BY <1>4 DEF DocShape
<1>8. /\ m.status = "active" /\ m.kind = t.kind /\ m.voucher = "active"
      /\ m.paid = m.amount
  BY <1>4, <1>5, <1>7 DEF DocShape
<1> HIDE DEF m
<1>9. w = Written(t) BY DEF w
<1> QED BY <1>4, <1>5, <1>6, <1>7, <1>8, <1>9

LEMMA CreateKeeps ==
    ASSUME IInv, NEW r \in Requests,
           CommitExpense(r) \/ CommitVoucher(r) \/ CommitTransfer(r)
    PROVE  IInv'
<1>1. req[r] \in Request BY DEF IInv, Shape
<1>2. CASE CommitExpense(r)
  <2>1. req[r].kind = "expense" BY <1>2 DEF CommitExpense, Insert
  <2> QED BY <1>1, <1>2, <2>1, RowsWritten, InsertKeeps DEF CommitExpense
<1>3. CASE CommitVoucher(r)
  <2>1. req[r].kind = "voucher" BY <1>3 DEF CommitVoucher, Insert
  <2> QED BY <1>1, <1>3, <2>1, RowsWritten, InsertKeeps DEF CommitVoucher
<1>4. CASE CommitTransfer(r)
  <2>1. req[r].kind = "transfer" BY <1>4 DEF CommitTransfer, Insert
  <2> QED BY <1>1, <1>4, <2>1, RowsWritten, InsertKeeps DEF CommitTransfer
<1> QED BY <1>2, <1>3, <1>4

-----------------------------------------------------------------------------
(* Requests that begin.                                                    *)
LEMMA IdleIsRequest == Idle \in Request /\ Idle.op = "idle"
  BY DEF Idle, Request, OpNames

(* A request that counts on no document and on no entry to reverse.        *)
LEMMA FreeBeginKeeps ==
    ASSUME IInv, NEW r \in Requests, NEW q \in Request, Accept(r, q),
           q.op \notin {"edit", "delete", "cancel", "reverse", "repost"}
    PROVE  IInv'
  BY AcceptKeeps DEF LinkedTo

LEMMA PeriodBeginsKeep ==
    ASSUME IInv, NEW r \in Requests,
           BeginOpen(r) \/ BeginClose(r) \/ BeginAutoClose(r)
    PROVE  IInv'
<1>1. ASSUME NEW o \in {"open", "close", "autoClose"}, NEW s \in {"close", "write"},
             NEW p \in Periods,
             \/ Accept(r, [Idle EXCEPT !.op = o, !.step = s])
             \/ Accept(r, [Idle EXCEPT !.op = o, !.step = s, !.period = p])
      PROVE  IInv'
  <2> DEFINE q == [Idle EXCEPT !.op = o, !.step = s]
             u == [Idle EXCEPT !.op = o, !.step = s, !.period = p]
  <2>1. o \in OpNames BY DEF OpNames
  <2>2. q \in Request /\ u \in Request BY <2>1, IdleIsRequest DEF Request
  <2>3. q.op = o /\ u.op = o BY IdleIsRequest DEF Request
  <2>4. Accept(r, q) \/ Accept(r, u) BY <1>1
  <2> HIDE DEF q, u
  <2> QED BY <2>2, <2>3, <2>4, FreeBeginKeeps
<1>2. CASE BeginOpen(r)
  <2>1. CASE /\ \A p \in Periods : ~Open(p)
             /\ Accept(r, [Idle EXCEPT !.op = "open", !.step = "write"])
    <3> DEFINE q == [Idle EXCEPT !.op = "open", !.step = "write"]
    <3>1. q \in Request /\ q.op = "open" BY IdleIsRequest DEF Request, OpNames
    <3>2. Accept(r, q) BY <2>1
    <3> HIDE DEF q
    <3> QED BY <3>1, <3>2, FreeBeginKeeps
  <2>2. CASE \E p \in Periods :
               /\ Expired(p)
               /\ Accept(r, [Idle EXCEPT !.op = "open", !.step = "close",
                                         !.period = p])
    BY <2>2, <1>1
  <2> QED BY <1>2, <2>1, <2>2 DEF BeginOpen
<1>3. CASE BeginClose(r) BY <1>1, <1>3 DEF BeginClose
<1>4. CASE BeginAutoClose(r) BY <1>1, <1>4 DEF BeginAutoClose
<1> QED BY <1>2, <1>3, <1>4

LEMMA BeginDocumentKeeps ==
    ASSUME IInv, NEW r \in Requests, NEW k \in {"expense", "voucher", "transfer"},
           BeginDocument(r, k)
    PROVE  IInv'
<1>1. PICK p \in Periods, a \in Amounts :
         Accept(r, [Idle EXCEPT !.op = "create", !.step = "write",
                                !.period = p, !.kind = k, !.amount = a])
  BY DEF BeginDocument
<1> DEFINE q == [Idle EXCEPT !.op = "create", !.step = "write",
                             !.period = p, !.kind = k, !.amount = a]
<1>2. a \in Nat BY BooksAssumption
<1>3. q \in Request BY <1>2, IdleIsRequest DEF Request, OpNames
<1>4. q.op = "create" BY IdleIsRequest DEF Request
<1>5. Accept(r, q) BY <1>1
<1> HIDE DEF q
<1> QED BY <1>3, <1>4, <1>5, FreeBeginKeeps

LEMMA BeginManualKeeps ==
    ASSUME IInv, NEW r \in Requests, BeginManual(r)
    PROVE  IInv'
<1>1. PICK p \in Periods, a \in Amounts :
         Accept(r, [Idle EXCEPT !.op = "manual", !.step = "write",
                                !.period = p, !.amount = a])
  BY DEF BeginManual
<1> DEFINE q == [Idle EXCEPT !.op = "manual", !.step = "write",
                             !.period = p, !.amount = a]
<1>2. a \in Nat BY BooksAssumption
<1>3. q \in Request BY <1>2, IdleIsRequest DEF Request, OpNames
<1>4. q.op = "manual" BY IdleIsRequest DEF Request
<1>5. Accept(r, q) BY <1>1
<1> HIDE DEF q
<1> QED BY <1>3, <1>4, <1>5, FreeBeginKeeps

(* A request that has read the expense it will change.                     *)
LEMMA ExpenseBeginsKeep ==
    ASSUME IInv, NEW r \in Requests, BeginEdit(r) \/ BeginDelete(r)
    PROVE  IInv'
<1>1. ASSUME NEW d \in Docs, Active(d), NEW q \in Request,
             q.op \in {"edit", "delete"}, q.doc = d, Accept(r, q)
      PROVE  IInv'
  BY <1>1, AcceptKeeps DEF LinkedTo, Active
<1>2. CASE BeginEdit(r)
  <2>1. PICK d \in Docs, a \in Amounts :
           /\ Active(d)
           /\ Accept(r, [Idle EXCEPT !.op = "edit", !.step = "write",
                                     !.doc = d, !.amount = a])
    BY <1>2 DEF BeginEdit
  <2> DEFINE q == [Idle EXCEPT !.op = "edit", !.step = "write",
                               !.doc = d, !.amount = a]
  <2>2. a \in Nat BY BooksAssumption
  <2>3. q \in Request BY <2>2, IdleIsRequest DEF Request, OpNames
  <2>4. q.op = "edit" /\ q.doc = d BY IdleIsRequest DEF Request
  <2>5. Accept(r, q) BY <2>1
  <2> HIDE DEF q
  <2> QED BY <1>1, <2>1, <2>3, <2>4, <2>5
<1>3. CASE BeginDelete(r)
  <2>1. PICK d \in Docs :
           /\ Active(d)
           /\ Accept(r, [Idle EXCEPT !.op = "delete", !.step = "write", !.doc = d])
    BY <1>3 DEF BeginDelete
  <2> DEFINE q == [Idle EXCEPT !.op = "delete", !.step = "write", !.doc = d]
  <2>2. q \in Request BY IdleIsRequest DEF Request, OpNames
  <2>3. q.op = "delete" /\ q.doc = d BY IdleIsRequest DEF Request
  <2>4. Accept(r, q) BY <2>1
  <2> HIDE DEF q
  <2> QED BY <1>1, <2>1, <2>2, <2>3, <2>4
<1> QED BY <1>2, <1>3

LEMMA BeginCancelKeeps ==
    ASSUME IInv, NEW r \in Requests, NEW k \in {"voucher", "transfer"},
           BeginCancel(r, k)
    PROVE  IInv'
<1>1. PICK d \in Docs :
         /\ doc[d].kind = k /\ Active(d)
         /\ Accept(r, [Idle EXCEPT !.op = "cancel", !.step = "write",
                                   !.kind = k, !.doc = d])
  BY DEF BeginCancel
<1> DEFINE q == [Idle EXCEPT !.op = "cancel", !.step = "write", !.kind = k, !.doc = d]
<1>2. q \in Request BY IdleIsRequest DEF Request, OpNames
<1>3. q.op = "cancel" /\ q.doc = d /\ q.kind = k BY IdleIsRequest DEF Request
<1>4. Accept(r, q) BY <1>1
<1> HIDE DEF q
<1>5. LinkedTo(q) BY <1>1, <1>3 DEF LinkedTo, Active
<1> QED BY <1>2, <1>4, <1>5, AcceptKeeps

LEMMA BeginReverseKeeps ==
    ASSUME IInv, NEW r \in Requests, BeginReverse(r)
    PROVE  IInv'
<1>1. PICK e \in Entries :
         /\ journal[e].status = "posted" /\ journal[e].doc = NoDoc
         /\ Accept(r, [Idle EXCEPT !.op = "reverse", !.step = "write", !.id = e])
  BY DEF BeginReverse, PostedOf
<1> DEFINE q == [Idle EXCEPT !.op = "reverse", !.step = "write", !.id = e]
<1>2. q \in Request BY IdleIsRequest DEF Request, OpNames
<1>3. q.op = "reverse" /\ q.id = e BY IdleIsRequest DEF Request
<1>4. Accept(r, q) BY <1>1
<1> HIDE DEF q
<1>5. LinkedTo(q) BY <1>1, <1>3 DEF LinkedTo
<1> QED BY <1>2, <1>4, <1>5, AcceptKeeps

LEMMA BeginRepostKeeps ==
    ASSUME IInv, NEW r \in Requests, BeginRepost(r)
    PROVE  IInv'
<1>1. PICK f \in Failures :
         /\ failure[f].status = "pending"
         /\ \E a \in Drafts(failure[f].doc) :
              Accept(r, [Idle EXCEPT !.op = "repost", !.step = "write", !.id = f,
                          !.doc = failure[f].doc,
                          !.period = doc[failure[f].doc].period, !.amount = a])
  BY DEF BeginRepost
<1>a. PICK a \in Drafts(failure[f].doc) :
         Accept(r, [Idle EXCEPT !.op = "repost", !.step = "write", !.id = f,
                          !.doc = failure[f].doc,
                          !.period = doc[failure[f].doc].period, !.amount = a])
  BY <1>1
<1> DEFINE d == failure[f].doc
           p == doc[d].period
           q == [Idle EXCEPT !.op = "repost", !.step = "write", !.id = f,
                             !.doc = d, !.period = p, !.amount = a]
<1>2. d \in Docs BY <1>1 DEF IInv, Shape, FailureShape
<1>3. p \in Periods \union {NoPeriod} /\ doc[d].amount \in Nat
  BY <1>2 DEF IInv, Shape, DocShape
<1>4. a \in Nat
  <2>1. a = doc[d].amount \/ a = 0
    BY <1>a DEF Drafts, ExpenseDraft, VoucherDraft, TransferDraft
  <2> QED BY <1>3, <2>1
<1>5. Accept(r, q) BY <1>a
<1> HIDE DEF d, p
<1>6. q \in Request BY <1>2, <1>3, <1>4, IdleIsRequest DEF Request, OpNames
<1>7. q.op = "repost" /\ q.id = f BY IdleIsRequest DEF Request
<1> HIDE DEF q
<1>8. LinkedTo(q) BY <1>1, <1>7 DEF LinkedTo
<1> QED BY <1>5, <1>6, <1>8, AcceptKeeps

-----------------------------------------------------------------------------
(* Requests that end.                                                      *)
LEMMA PeriodCommitsKeep ==
    ASSUME IInv, NEW r \in Requests,
           CommitOpen(r) \/ CommitClose(r) \/ CommitAutoClose(r)
    PROVE  IInv'
<1> USE DEF IInv
<1>1. /\ req[r].op # "idle" /\ req' = [req EXCEPT ![r] = Idle] /\ calm' = calm
      /\ UNCHANGED <<doc, journal, failure>>
  BY DEF CommitOpen, CommitClose, CommitAutoClose, Finish
<1>2. period' = [p \in Periods |-> period'[p]]
  BY DEF CommitOpen, CommitClose, CommitAutoClose, PerformClose, Shape
<1>3. /\ VoucherMirrorsExpense' /\ ReversedOnce' /\ FailuresKept
  BY <1>1 DEF VoucherMirrorsExpense, Active, ReversedOnce, FailuresKept, Shape
<1>4. doc' \in [Docs -> DocShape] /\ journal' \in [Entries -> Entry]
  BY <1>1 DEF Shape
<1> QED BY <1>1, <1>2, <1>3, <1>4, CommitKeeps

(* An edit books the entry of the old amount back and posts the new one.   *)
LEMMA EditKeeps ==
    ASSUME IInv, NEW r \in Requests, CommitEdit(r)
    PROVE  IInv'
<1> USE DEF IInv
<1> DEFINE d == req[r].doc
           a == req[r].amount
           o == doc[d]
           x == [o EXCEPT !.amount = a, !.paid = a]
<1>1. /\ req[r].op = "edit" /\ req' = [req EXCEPT ![r] = Idle] /\ calm' = calm
      /\ Active(d) /\ doc' = [doc EXCEPT ![d].amount = a, ![d].paid = a]
      /\ UNCHANGED period
  BY DEF CommitEdit, Finish
<1>2. PICK j \in Reversals(d) : PostDocument(j, d, doc[d].period, a)
  BY DEF CommitEdit
<1>3. LinkedTo(req[r]) BY DEF Linked
<1>4. d \in Docs /\ a \in Nat BY <1>1, <1>3 DEF LinkedTo, Shape, Request
<1>5. o \in DocShape /\ o.status = "active" BY <1>1, <1>4 DEF Shape, Active
<1>6. o.kind = "expense" => o.voucher = "active"
  BY <1>4, <1>5 DEF VoucherMirrorsExpense, Active
<1>7. doc' = [doc EXCEPT ![d] = x] BY <1>1, <1>4, <1>5 DEF Shape, DocShape
<1>8. Grows(journal, j) BY <1>2, <1>4, ReversalsGrow
<1>9. o.period \in Periods \union {NoPeriod} BY <1>5 DEF DocShape
<1>10. Grows(j, journal') /\ FailuresKept
  BY <1>2, <1>4, <1>8, <1>9, PostDocumentGrows DEF Grows, Shape
<1>11. Grows(journal, journal') BY <1>8, <1>10, GrowsTwice
<1> HIDE DEF o
<1>12. x \in DocShape BY <1>4, <1>5 DEF DocShape
<1>13. /\ x.status = "active" /\ x.kind = o.kind /\ x.voucher = o.voucher
       /\ x.amount = a /\ x.paid = a
  BY <1>4, <1>5 DEF DocShape
<1> HIDE DEF x
<1>14. o = doc[d] BY DEF o
<1>15. /\ doc' \in [Docs -> DocShape]
       /\ \A c \in Docs : doc[c].status # "absent" =>
             doc'[c].status # "absent" /\ doc'[c].kind = doc[c].kind
       /\ VoucherMirrorsExpense'
  BY <1>4, <1>6, <1>7, <1>12, <1>13, <1>14, OneDocument
<1>16. period' = [p \in Periods |-> period'[p]] BY <1>1 DEF Shape
<1> QED BY <1>1, <1>10, <1>11, <1>15, <1>16, GrowthIsReversedOnce, CommitKeeps

(* A deletion or a cancellation only books entries back.                   *)
LEMMA EndKeeps ==
    ASSUME IInv, NEW r \in Requests, NEW x \in DocShape,
           req[r].op \in {"delete", "cancel"},
           req' = [req EXCEPT ![r] = Idle], calm' = calm,
           doc' = [doc EXCEPT ![req[r].doc] = x],
           x.status # "absent", x.kind = doc[req[r].doc].kind,
           x.kind = "expense" => x.status # "active" /\ x.voucher = "cancelled",
           journal' \in Reversals(req[r].doc), UNCHANGED <<period, failure>>
    PROVE  IInv'
<1> USE DEF IInv
<1>1. LinkedTo(req[r]) BY DEF Linked
<1>2. req[r].doc \in Docs BY <1>1 DEF LinkedTo
<1>3. Grows(journal, journal') BY <1>2, ReversalsGrow
<1>4. /\ doc' \in [Docs -> DocShape]
      /\ \A c \in Docs : doc[c].status # "absent" =>
            doc'[c].status # "absent" /\ doc'[c].kind = doc[c].kind
      /\ VoucherMirrorsExpense'
  BY <1>2, OneDocument
<1>5. FailuresKept /\ period' = [p \in Periods |-> period'[p]]
  BY DEF FailuresKept, Shape
<1> QED BY <1>3, <1>4, <1>5, GrowthIsReversedOnce, CommitKeeps

LEMMA DeleteKeeps ==
    ASSUME IInv, NEW r \in Requests, CommitDelete(r)
    PROVE  IInv'
<1> USE DEF IInv
<1> DEFINE d == req[r].doc
           o == doc[d]
           x == [o EXCEPT !.status = "deleted", !.voucher = "cancelled"]
<1>1. /\ req[r].op = "delete" /\ req' = [req EXCEPT ![r] = Idle] /\ calm' = calm
      /\ journal' \in Reversals(d) /\ UNCHANGED <<period, failure>>
  BY DEF CommitDelete, Finish
<1>2. LinkedTo(req[r]) BY DEF Linked
<1>3. d \in Docs BY <1>1, <1>2 DEF LinkedTo
<1>4. o \in DocShape BY <1>3 DEF Shape
<1>5. doc' = [doc EXCEPT ![d] = x] BY <1>3 DEF CommitDelete, Deleted, Shape
<1> HIDE DEF o
<1>6. x \in DocShape BY <1>4 DEF DocShape
<1>7. x.status = "deleted" /\ x.kind = o.kind /\ x.voucher = "cancelled"
  BY <1>4 DEF DocShape
<1> HIDE DEF x
<1>8. o = doc[d] BY DEF o
<1> QED BY <1>1, <1>5, <1>6, <1>7, <1>8, EndKeeps

LEMMA CancelKeeps ==
    ASSUME IInv, NEW r \in Requests, NEW k \in {"voucher", "transfer"}, Cancel(r, k)
    PROVE  IInv'
<1> USE DEF IInv
<1> DEFINE d == req[r].doc
           o == doc[d]
           x == [o EXCEPT !.status = "cancelled"]
<1>1. /\ req[r].op = "cancel" /\ req[r].kind = k
      /\ req' = [req EXCEPT ![r] = Idle] /\ calm' = calm
      /\ journal' \in Reversals(d) /\ UNCHANGED <<period, failure>>
  BY DEF Cancel, Finish
<1>2. LinkedTo(req[r]) BY DEF Linked
<1>3. d \in Docs /\ o.kind = k BY <1>1, <1>2 DEF LinkedTo
<1>4. o \in DocShape BY <1>3 DEF Shape
<1>5. doc' = [doc EXCEPT ![d] = x] BY <1>3 DEF Cancel, Shape
<1> HIDE DEF o
<1>6. x \in DocShape BY <1>4 DEF DocShape
<1>7. x.status = "cancelled" /\ x.kind = o.kind BY <1>4 DEF DocShape
<1> HIDE DEF x
<1>8. o = doc[d] BY DEF o
<1> QED BY <1>1, <1>3, <1>5, <1>6, <1>7, <1>8, EndKeeps

LEMMA LedgerCommitsKeep ==
    ASSUME IInv, NEW r \in Requests,
           CommitManual(r) \/ CommitRepost(r)
    PROVE  IInv'
<1> USE DEF IInv
<1>1. /\ req[r].op # "idle" /\ req' = [req EXCEPT ![r] = Idle] /\ calm' = calm
      /\ UNCHANGED <<period, doc>>
  BY DEF CommitManual, CommitRepost, Finish
<1>2. /\ req[r].period \in Periods \union {NoPeriod} /\ req[r].amount \in Nat
      /\ req[r].doc \in Docs \union {NoDoc}
  BY DEF Shape, Request
<1>3. Grows(journal, journal') /\ FailuresKept
  <2>1. CASE CommitManual(r)
    <3>1. PICK e \in Entries :
             /\ journal[e].status = "absent"
             /\ journal' = PostInto(journal, NoDoc, req[r].period, req[r].amount, e)
      BY <2>1 DEF CommitManual
    <3>2. Grows(journal, journal') BY <1>2, <3>1, PostGrows DEF Shape
    <3> QED BY <2>1, <3>2 DEF CommitManual, FailuresKept, Shape
  <2>2. CASE CommitRepost(r)
    <3>1. LinkedTo(req[r]) BY DEF Linked
    <3> DEFINE f == req[r].id
               o == failure[f]
               x == [o EXCEPT !.status = "resolved"]
    <3>2. f \in Failures /\ o.status # "absent"
      BY <2>2, <3>1 DEF CommitRepost, Finish, LinkedTo
    <3>3. o \in FailureShape BY <3>2 DEF Shape
    <3>4. failure' = [failure EXCEPT ![f] = x] BY <2>2, <3>2 DEF CommitRepost, Shape
    <3>5. x \in FailureShape /\ x.status # "absent"
      BY <3>2, <3>3 DEF FailureShape, Failure
    <3> HIDE DEF x
    <3>6. FailuresKept BY <3>2, <3>4, <3>5 DEF FailuresKept, Shape
    <3>7. CASE journal' = journal BY <3>6, <3>7 DEF Grows, Shape
    <3>8. CASE \E e \in Entries :
                 /\ journal[e].status = "absent"
                 /\ journal' = PostInto(journal, req[r].doc, req[r].period,
                                        req[r].amount, e)
      <4>1. Grows(journal, journal') BY <1>2, <3>8, PostGrows DEF Shape
      <4> QED BY <3>6, <4>1
    <3> QED BY <2>2, <3>7, <3>8 DEF CommitRepost
  <2> QED BY <2>1, <2>2
<1>4. /\ VoucherMirrorsExpense' /\ doc' \in [Docs -> DocShape]
      /\ period' = [p \in Periods |-> period'[p]]
  BY <1>1 DEF VoucherMirrorsExpense, Active, Shape
<1> QED BY <1>1, <1>3, <1>4, GrowthIsReversedOnce, CommitKeeps

(* The entry is still posted unless another request came between, and then *)
(* nothing is said of it any more.                                         *)
LEMMA ReverseKeeps ==
    ASSUME IInv, NEW r \in Requests, CommitReverse(r)
    PROVE  IInv'
<1> USE DEF IInv
<1> DEFINE e == req[r].id
           x == journal[e]
           m == x.mirrors + 1
           y == [x EXCEPT !.mirrors = m, !.status = "reversed"]
<1>1. /\ req[r].op = "reverse" /\ req' = [req EXCEPT ![r] = Idle] /\ calm' = calm
      /\ journal' = Mirror(e) /\ UNCHANGED <<period, doc, failure>>
  BY DEF CommitReverse, Finish
<1>2. LinkedTo(req[r]) BY DEF Linked
<1>3. /\ e \in Entries /\ x.doc = NoDoc /\ x.status # "absent"
      /\ calm => x.status = "posted"
  BY <1>1, <1>2 DEF LinkedTo
<1>4. x \in Entry /\ m \in Nat BY <1>3 DEF Shape, Entry
<1>5. journal' = [journal EXCEPT ![e] = y] BY <1>1, <1>3 DEF Mirror, Shape
<1>6. calm => m = 1 BY <1>3 DEF ReversedOnce
<1> HIDE DEF m
<1>7. y \in Entry BY <1>4 DEF Entry
<1>8. y.status = "reversed" /\ y.mirrors = m /\ y.doc = x.doc
  BY <1>4, <1>7 DEF Entry
<1> HIDE DEF y
<1>9. /\ journal' \in [Entries -> Entry] /\ journal'[e] = y
      /\ \A f \in Entries \ {e} : journal'[f] = journal[f]
  BY <1>3, <1>5, <1>7 DEF Shape
<1>10. ASSUME NEW f \in Entries, journal'[f].doc # NoDoc \/ calm'
       PROVE  journal'[f].mirrors = (IF journal'[f].status = "reversed" THEN 1 ELSE 0)
  <2>1. CASE f = e BY <1>1, <1>3, <1>6, <1>8, <1>9, <1>10, <2>1
  <2>2. CASE f # e BY <1>1, <1>9, <1>10, <2>2 DEF ReversedOnce
  <2> QED BY <2>1, <2>2
<1>11. ReversedOnce' BY <1>10 DEF ReversedOnce
<1>12. /\ VoucherMirrorsExpense' /\ doc' \in [Docs -> DocShape] /\ FailuresKept
       /\ period' = [p \in Periods |-> period'[p]]
  BY <1>1 DEF VoucherMirrorsExpense, Active, Shape, FailuresKept
<1>13. \A f \in Entries : journal[f].status # "absent" =>
          journal'[f].status # "absent" /\ journal'[f].doc = journal[f].doc
  BY <1>8, <1>9
<1> QED BY <1>1, <1>9, <1>11, <1>12, <1>13, CommitKeeps

(* Steps that touch neither a document nor the ledger.                     *)
LEMMA AsideKeeps ==
    ASSUME IInv, period' = [p \in Periods |-> period'[p]],
           UNCHANGED <<doc, journal>>, FailuresKept,
           req' \in [Requests -> Request],
           \A r \in Requests : req'[r] = Idle \/
               /\ req[r] # Idle
               /\ req'[r].op = req[r].op /\ req'[r].doc = req[r].doc
               /\ req'[r].id = req[r].id /\ req'[r].kind = req[r].kind,
           calm' \in BOOLEAN, calm' => calm
    PROVE  IInv'
<1> USE DEF IInv
<1>1. Shape' BY DEF Shape, FailuresKept
<1>2. ASSUME NEW r \in Requests PROVE LinkedTo(req[r])'
  <2>1. LinkedTo(req[r]) BY DEF Linked
  <2>2. CASE req'[r] = Idle BY <2>2, IdleIsRequest DEF LinkedTo
  <2>3. CASE req'[r] # Idle BY <2>1, <2>3 DEF LinkedTo, FailuresKept
  <2> QED BY <2>2, <2>3
<1>3. Linked' BY <1>2 DEF Linked
<1>4. OneByOne' BY DEF OneByOne
<1>5. VoucherMirrorsExpense' BY DEF VoucherMirrorsExpense, Active
<1>6. ReversedOnce' BY DEF ReversedOnce
<1> QED BY <1>1, <1>3, <1>4, <1>5, <1>6

LEMMA CloseStaleKeeps ==
    ASSUME IInv, NEW r \in Requests, CloseStale(r)
    PROVE  IInv'
<1> USE DEF IInv
<1> DEFINE o == req[r]
           x == [o EXCEPT !.step = "write", !.period = NoPeriod]
<1>1. /\ o.op = "open" /\ UNCHANGED <<doc, journal, failure>>
      /\ req' = [req EXCEPT ![r].step = "write", ![r].period = NoPeriod]
      /\ calm' \in BOOLEAN /\ (calm' => calm)
      /\ period' = [p \in Periods |-> period'[p]]
  <2>1. \/ PerformClose(req[r].period, "auto") /\ (calm' = calm)
        \/ (calm' = FALSE) /\ (period' = period)
    BY DEF CloseStale
  <2>2. calm' \in BOOLEAN /\ (calm' => calm)
    <3>1. CASE calm' = calm BY <3>1 DEF Shape
    <3>2. CASE calm' = FALSE BY <3>2
    <3> QED BY <2>1, <3>1, <3>2
  <2>3. period' = [p \in Periods |-> period'[p]] BY <2>1 DEF PerformClose, Shape
  <2> QED BY <2>2, <2>3 DEF CloseStale
<1>2. o \in Request /\ o # Idle BY <1>1, IdleIsRequest DEF Shape
<1>3. req' = [req EXCEPT ![r] = x] BY <1>1, <1>2 DEF Shape, Request
<1> HIDE DEF o
<1>4. x \in Request BY <1>2 DEF Request
<1>5. x.op = o.op /\ x.doc = o.doc /\ x.id = o.id /\ x.kind = o.kind
  BY <1>2, <1>4 DEF Request
<1> HIDE DEF x
<1>6. /\ req' \in [Requests -> Request] /\ req'[r] = x
      /\ \A s \in Requests \ {r} : req'[s] = req[s]
  BY <1>3, <1>4 DEF Shape
<1>7. o = req[r] BY DEF o
<1>8. FailuresKept BY <1>1 DEF FailuresKept, Shape
<1> QED BY <1>1, <1>2, <1>5, <1>6, <1>7, <1>8, AsideKeeps

LEMMA AbortKeeps ==
    ASSUME IInv, NEW r \in Requests, Abort(r)
    PROVE  IInv'
<1>1. /\ req' = [req EXCEPT ![r] = Idle]
      /\ UNCHANGED <<period, doc, journal, failure, calm>>
  BY DEF Abort, books
<1>2. /\ req' \in [Requests -> Request]
      /\ \A s \in Requests : req'[s] = Idle \/ req'[s] = req[s]
  BY <1>1, IdleIsRequest DEF IInv, Shape
<1>3. FailuresKept BY <1>1 DEF FailuresKept, IInv, Shape
<1>4. calm' \in BOOLEAN /\ (calm' => calm) /\ period' = [p \in Periods |-> period'[p]]
  BY <1>1 DEF IInv, Shape
<1> QED BY <1>1, <1>2, <1>3, <1>4, AsideKeeps

LEMMA PeriodEndsKeeps ==
    ASSUME IInv, PeriodEnds \/ UNCHANGED vars
    PROVE  IInv'
<1>1. /\ period' = [p \in Periods |-> period'[p]]
      /\ UNCHANGED <<doc, journal, failure, req, calm>>
  BY DEF PeriodEnds, vars, books, IInv, Shape
<1>2. FailuresKept BY <1>1 DEF FailuresKept, IInv, Shape
<1>3. /\ req' \in [Requests -> Request] /\ calm' \in BOOLEAN /\ (calm' => calm)
      /\ \A s \in Requests : req'[s] = req[s]
  BY <1>1 DEF IInv, Shape
<1> QED BY <1>1, <1>2, <1>3, AsideKeeps

LEMMA IgnoreFailureKeeps ==
    ASSUME IInv, IgnoreFailure
    PROVE  IInv'
<1>1. PICK f \in Failures :
         /\ failure[f].status \notin {"absent", "ignored"}
         /\ failure' = [failure EXCEPT ![f].status = "ignored"]
         /\ UNCHANGED <<period, doc, journal, req, calm>>
  BY DEF IgnoreFailure
<1> DEFINE o == failure[f]
           x == [o EXCEPT !.status = "ignored"]
<1>2. o \in FailureShape /\ o.status # "absent" BY <1>1 DEF IInv, Shape
<1>3. failure' = [failure EXCEPT ![f] = x] BY <1>1 DEF IInv, Shape
<1> HIDE DEF o
<1>4. x \in FailureShape /\ x.status # "absent" BY <1>2 DEF FailureShape, Failure
<1> HIDE DEF x
<1>5. FailuresKept BY <1>3, <1>4 DEF FailuresKept, IInv, Shape
<1>6. /\ req' \in [Requests -> Request] /\ calm' \in BOOLEAN /\ (calm' => calm)
      /\ \A s \in Requests : req'[s] = req[s]
      /\ period' = [p \in Periods |-> period'[p]]
  BY <1>1 DEF IInv, Shape
<1> QED BY <1>1, <1>5, <1>6, AsideKeeps

-----------------------------------------------------------------------------
LEMMA InitHolds == Init => IInv
<1> SUFFICES ASSUME Init PROVE IInv OBVIOUS
<1>1. NoDocRow \in DocShape BY DEF NoDocRow, DocShape
<1>2. NoEntry \in Entry BY DEF NoEntry, Entry
<1>3. NoFailure \in FailureShape BY DEF NoFailure, Failure, FailureShape
<1>4. Shape BY <1>1, <1>2, <1>3, IdleIsRequest DEF Init, Shape
<1>5. \A r \in Requests : req[r] = Idle BY DEF Init
<1>6. Linked BY <1>5, IdleIsRequest DEF Linked, LinkedTo
<1>7. OneByOne BY <1>5 DEF OneByOne
<1>8. VoucherMirrorsExpense BY DEF Init, VoucherMirrorsExpense, NoDocRow
<1>9. ReversedOnce BY DEF Init, ReversedOnce, NoEntry
<1> QED BY <1>4, <1>6, <1>7, <1>8, <1>9 DEF IInv

LEMMA StepKeeps == IInv /\ [Next]_vars => IInv'
<1> SUFFICES ASSUME IInv, [Next]_vars PROVE IInv' OBVIOUS
<1>1. ASSUME NEW r \in Requests, Step(r) PROVE IInv'
  <2>1. CASE BeginOpen(r) \/ BeginClose(r) \/ BeginAutoClose(r)
    BY <2>1, PeriodBeginsKeep
  <2>2. CASE CommitOpen(r) \/ CommitClose(r) \/ CommitAutoClose(r)
    BY <2>2, PeriodCommitsKeep
  <2>3. CASE CloseStale(r) BY <2>3, CloseStaleKeeps
  <2>4. CASE BeginExpense(r) \/ BeginVoucher(r) \/ BeginTransfer(r)
    BY <2>4, BeginDocumentKeeps DEF BeginExpense, BeginVoucher, BeginTransfer
  <2>5. CASE CommitExpense(r) \/ CommitVoucher(r) \/ CommitTransfer(r)
    BY <2>5, CreateKeeps
  <2>6. CASE BeginEdit(r) \/ BeginDelete(r) BY <2>6, ExpenseBeginsKeep
  <2>7. CASE CommitEdit(r) BY <2>7, EditKeeps
  <2>8. CASE CommitDelete(r) BY <2>8, DeleteKeeps
  <2>9. CASE BeginCancelVoucher(r) \/ BeginCancelTransfer(r)
    BY <2>9, BeginCancelKeeps DEF BeginCancelVoucher, BeginCancelTransfer
  <2>10. CASE CommitCancelVoucher(r) \/ CommitCancelTransfer(r)
    BY <2>10, CancelKeeps DEF CommitCancelVoucher, CommitCancelTransfer
  <2>11. CASE BeginManual(r) BY <2>11, BeginManualKeeps
  <2>12. CASE BeginReverse(r) BY <2>12, BeginReverseKeeps
  <2>13. CASE CommitReverse(r) BY <2>13, ReverseKeeps
  <2>14. CASE BeginRepost(r) BY <2>14, BeginRepostKeeps
  <2>15. CASE CommitManual(r) \/ CommitRepost(r) BY <2>15, LedgerCommitsKeep
  <2>16. CASE Abort(r) BY <2>16, AbortKeeps
  <2> QED BY <1>1, <2>1, <2>2, <2>3, <2>4, <2>5, <2>6, <2>7, <2>8, <2>9, <2>10,
             <2>11, <2>12, <2>13, <2>14, <2>15, <2>16 DEF Step
<1>2. CASE IgnoreFailure BY <1>2, IgnoreFailureKeeps
<1>3. CASE PeriodEnds \/ UNCHANGED vars BY <1>3, PeriodEndsKeeps
<1> QED BY <1>1, <1>2, <1>3 DEF Next

\* What every reachable state satisfies (accountingPeriodService,
\* expensesService, voucherService, gl).
THEOREM BooksInvariant == Spec => []IInv
<1> QED BY InitHolds, StepKeeps, PTL DEF Spec

\* The voucher of a standing expense is active and of its amount, and that
\* of a deleted one is cancelled, however edits and deletions race
\* (expensesService, voucherService).
THEOREM VoucherIsTrue == Spec => []VoucherMirrorsExpense
<1>1. IInv => VoucherMirrorsExpense BY DEF IInv
<1> QED BY <1>1, BooksInvariant, PTL

\* The entry of a document is mirrored once, and that of a manual entry as
\* long as requests do not overlap (glPostingService, journalService).
THEOREM ReversesOnce == Spec => []ReversedOnce
<1>1. IInv => ReversedOnce BY DEF IInv
<1> QED BY <1>1, BooksInvariant, PTL

-----------------------------------------------------------------------------
LEMMA StepLeavesClosed ==
    ASSUME IInv, [Next]_vars, NEW p \in Periods, period[p].status = "closed"
    PROVE  period'[p] = period[p]
<1>1. CASE UNCHANGED period BY <1>1
<1>2. ASSUME NEW q, NEW why, PerformClose(q, why) PROVE period'[p] = period[p]
  BY <1>2 DEF PerformClose, Open, IInv, Shape
<1>3. ASSUME NEW r \in Requests, CommitOpen(r) PROVE period'[p] = period[p]
  BY <1>3 DEF CommitOpen, IInv, Shape
<1>4. CASE PeriodEnds BY <1>4 DEF PeriodEnds, Open, IInv, Shape
<1>5. CASE IgnoreFailure BY <1>5 DEF IgnoreFailure
<1>6. CASE UNCHANGED vars BY <1>6 DEF vars, books
<1>7. ASSUME NEW r \in Requests, Step(r) PROVE period'[p] = period[p]
  <2>1. CASE CommitClose(r) BY <1>2, <2>1 DEF CommitClose
  <2>2. CASE CommitAutoClose(r) BY <1>2, <2>2 DEF CommitAutoClose
  <2>3. CASE CloseStale(r) BY <1>2, <2>3 DEF CloseStale
  <2>4. CASE BeginOpen(r) \/ BeginClose(r) \/ BeginAutoClose(r) \/ BeginEdit(r)
             \/ BeginDelete(r) \/ BeginManual(r) \/ BeginReverse(r) \/ BeginRepost(r)
             \/ BeginExpense(r) \/ BeginVoucher(r) \/ BeginTransfer(r)
             \/ BeginCancelVoucher(r) \/ BeginCancelTransfer(r)
    <3>1. ASSUME NEW t, Accept(r, t) PROVE UNCHANGED period
      BY <3>1 DEF Accept, books
    <3>2. UNCHANGED period
      BY <2>4, <3>1 DEF BeginOpen, BeginClose, BeginAutoClose, BeginEdit, BeginDelete,
         BeginManual, BeginReverse, BeginRepost, BeginExpense, BeginVoucher,
         BeginTransfer, BeginDocument, BeginCancelVoucher, BeginCancelTransfer,
         BeginCancel
    <3> QED BY <3>2
  <2>5. CASE CommitExpense(r) \/ CommitVoucher(r) \/ CommitTransfer(r)
             \/ CommitEdit(r) \/ CommitDelete(r) \/ CommitManual(r)
             \/ CommitCancelVoucher(r) \/ CommitCancelTransfer(r)
             \/ CommitReverse(r) \/ CommitRepost(r) \/ Abort(r)
    BY <2>5 DEF CommitExpense, CommitVoucher, CommitTransfer, Insert, CommitEdit,
       CommitDelete, CommitManual, CommitCancelVoucher, CommitCancelTransfer, Cancel,
       CommitReverse, CommitRepost, Abort, books
  <2> QED BY <1>3, <1>7, <2>1, <2>2, <2>3, <2>4, <2>5 DEF Step
<1> QED BY <1>4, <1>5, <1>6, <1>7 DEF Next

\* Whatever races to close a period or to write into it, once it is closed
\* its row and its frozen report do not change (accountingPeriodService).
THEOREM ClosesForGood == Spec => ClosedForGood
<1>1. IInv /\ [Next]_vars =>
        [\A p \in Periods : period[p].status = "closed" => period'[p] = period[p]]_vars
  BY StepLeavesClosed
<1> QED BY <1>1, BooksInvariant, PTL DEF Spec, ClosedForGood

-----------------------------------------------------------------------------
(* The periods and the ledger while requests come one by one               *)

\* What is true of the rows whatever the requests do.
Dated ==
    /\ period \in [Periods -> Period]
    /\ \A d \in Docs : doc[d].status # "absent" =>
          doc[d].period \in Periods /\ doc[d].amount # 0
    /\ \A r \in Requests :
          /\ req[r].op = "create" => req[r].period \in Periods
          /\ req[r].op \in {"create", "edit"} => req[r].amount # 0
    /\ handled \in 0..MaxRequests

BlankIn(j) == \A e \in Entries : j[e].status = "absent" => j[e].doc = NoDoc

Blank ==
    /\ BlankIn(journal)
    /\ \A f \in Failures : failure[f].status = "absent" => failure[f].doc = NoDoc

\* What a request that nobody overtook may rely on when it writes.
Ready(q) ==
    /\ q.op = "open" => \A p \in Periods : Open(p) => q.step = "close" /\ p = q.period
    /\ q.op = "create" => Open(q.period)
    /\ q.op \in {"edit", "delete"} =>
          doc[q.doc].kind = "expense" /\ Open(doc[q.doc].period)
    /\ q.op = "repost" => /\ q.doc = failure[q.id].doc
                          /\ doc[q.doc].kind # "expense" =>
                                q.amount = Worth(q.doc) /\ PostedOf(q.doc) = {}

Reports == OneOpenPeriod /\ FrozenIsTrue /\ (calm => \A r \in Requests : Ready(req[r]))

\* The ledger has what the document says: one posted entry of its amount.
Booked(d) ==
    IF Active(d)
      THEN \E e \in Entries : PostedOf(d) = {e} /\ journal[e].amount = doc[d].amount
      ELSE PostedOf(d) = {}

Awaited(d) == \E f \in Failures : failure[f].doc = d /\ failure[f].status = "pending"

\* An expense is booked unless its posting has failed before; a voucher or
\* transfer is booked unless its failure stands, and what waits to be posted
\* again is posted only once.
Tracked(d) ==
    /\ doc[d].status = "absent" =>
          (\A e \in Entries : journal[e].doc # d) /\ ~EverFailed(d)
    /\ doc[d].kind = "expense" => Booked(d) \/ EverFailed(d)
    /\ doc[d].kind # "expense" =>
          /\ Booked(d) \/ Unresolved(d)
          /\ Awaited(d) => PostedOf(d) = {}
          /\ \A f, g \in Failures : failure[f].doc = d /\ failure[g].doc = d => f = g

AllTracked == calm => \A d \in Docs : Tracked(d)

CInv == Dated /\ Blank /\ Reports /\ AllTracked

(* The sums.                                                               *)
LEMMA SpentIsNat ==
    ASSUME Shape, NEW p
    PROVE  SpentIn(p) \in Nat
<1> DEFINE S == {d \in Docs : doc[d].kind = "expense" /\ doc[d].status = "active"
                               /\ doc[d].period = p}
           f == [d \in Docs |-> doc[d].amount]
<1>1. IsFiniteSet(S) BY BooksAssumption, FS_Subset
<1>2. \A d \in S : f[d] \in Nat BY DEF Shape, DocShape
<1>3. SpentIn(p) = SumOver(f, S) BY DEF SpentIn
<1> HIDE DEF S, f
<1> QED BY <1>1, <1>2, <1>3, SumNat

\* A write to a document that a period does not count leaves its sum alone.
LEMMA SpentElsewhere ==
    ASSUME NEW p, NEW d \in Docs,
           \A c \in Docs \ {d} : doc'[c] = doc[c],
           ~(doc[d].kind = "expense" /\ doc[d].status = "active" /\ doc[d].period = p),
           ~(doc'[d].kind = "expense" /\ doc'[d].status = "active" /\ doc'[d].period = p)
    PROVE  SpentIn(p)' = SpentIn(p)
<1> DEFINE S == {c \in Docs : doc[c].kind = "expense" /\ doc[c].status = "active"
                               /\ doc[c].period = p}
           f == [c \in Docs |-> doc[c].amount]
           g == [c \in Docs |-> doc'[c].amount]
<1>1. IsFiniteSet(S) BY BooksAssumption, FS_Subset
<1>2. S = {c \in Docs : doc'[c].kind = "expense" /\ doc'[c].status = "active"
                         /\ doc'[c].period = p}
  OBVIOUS
<1>3. \A c \in S : f[c] = g[c] OBVIOUS
<1>4. SpentIn(p) = SumOver(f, S) BY DEF SpentIn
<1>5. SpentIn(p)' = SumOver(g, S) BY <1>2 DEF SpentIn
<1> HIDE DEF S, f, g
<1> QED BY <1>1, <1>3, <1>4, <1>5, SumSame

\* What the ledger holds of a document is what its posted entries say.
LEMMA NetOfBooked ==
    ASSUME Shape, ReversedOnce, Blank, NEW d \in Docs, Booked(d)
    PROVE  Net(d) = Worth(d)
<1> DEFINE S == {e \in Entries : journal[e].doc = d}
           f == [e \in Entries |-> (1 - journal[e].mirrors) * journal[e].amount]
<1>1. IsFiniteSet(S) BY BooksAssumption, FS_Subset
<1>2. Net(d) = SumOver(f, S) BY DEF Net
<1>3. ASSUME NEW e \in S
      PROVE  f[e] = IF e \in PostedOf(d) THEN journal[e].amount ELSE 0
  <2>1. /\ journal[e] \in Entry /\ journal[e].status # "absent"
        /\ journal[e].mirrors = (IF journal[e].status = "reversed" THEN 1 ELSE 0)
    BY BooksAssumption DEF Shape, Blank, BlankIn, ReversedOnce
  <2>2. journal[e].amount \in Nat /\ journal[e].status \in {"posted", "reversed"}
    BY <2>1 DEF Entry
  <2>3. CASE journal[e].status = "posted"
    <3>1. e \in PostedOf(d) /\ f[e] = (1 - 0) * journal[e].amount
      BY <2>1, <2>3 DEF PostedOf
    <3> QED BY <2>2, <3>1
  <2>4. CASE journal[e].status = "reversed"
    <3>1. e \notin PostedOf(d) /\ f[e] = (1 - 1) * journal[e].amount
      BY <2>1, <2>4 DEF PostedOf
    <3> QED BY <2>2, <3>1
  <2> QED BY <2>2, <2>3, <2>4
<1>4. PostedOf(d) \subseteq S BY DEF PostedOf
<1>5. \A e \in S : journal[e].amount \in Nat BY DEF Shape, Entry
<1> HIDE DEF S, f
<1>6. CASE ~Active(d)
  <2>1. \A e \in S : f[e] = 0 BY <1>3, <1>6 DEF Booked
  <2> QED BY <1>1, <1>2, <1>6, <2>1, SumZero DEF Worth
<1>7. CASE Active(d)
  <2>1. PICK e \in Entries : PostedOf(d) = {e} /\ journal[e].amount = doc[d].amount
    BY <1>7 DEF Booked
  <2>2. e \in S /\ f[e] = doc[d].amount /\ f[e] \in Nat
    BY <1>3, <1>4, <1>5, <2>1
  <2>3. IsFiniteSet(S \ {e}) BY <1>1, FS_Subset
  <2>4. \A c \in S \ {e} : f[c] = 0 BY <1>3, <2>1
  <2>5. SumOver(f, S \ {e}) = 0 BY <2>3, <2>4, SumZero
  <2>6. \A c \in S : f[c] \in Int
    <3>1. \A c \in S : c = e \/ f[c] = 0 BY <2>4
    <3> QED BY <2>2, <3>1
  <2>7. SumOver(f, S) = f[e] + SumOver(f, S \ {e}) BY <1>1, <2>2, <2>6, SumRemove
  <2> QED BY <1>2, <1>7, <2>2, <2>5, <2>7 DEF Worth
<1> QED BY <1>6, <1>7

(* What the ledger's operations do to the entries of a document.           *)
PostedIn(j, d) == {e \in Entries : j[e].status = "posted" /\ j[e].doc = d}

\* The entries of c are in k what they were in j.
SameEntries(j, k, c) ==
    /\ PostedIn(k, c) = PostedIn(j, c)
    /\ \A e \in PostedIn(j, c) : k[e].amount = j[e].amount
    /\ \A e \in Entries : k[e].doc = c => j[e].doc = c

LEMMA SameTwice ==
    ASSUME NEW j, NEW k, NEW l, NEW c, SameEntries(j, k, c), SameEntries(k, l, c)
    PROVE  SameEntries(j, l, c)
  BY DEF SameEntries

LEMMA MirrorPosts ==
    ASSUME Shape, Blank, NEW e \in Entries, journal[e].status # "absent"
    PROVE  /\ Mirror(e) \in [Entries -> Entry] /\ BlankIn(Mirror(e))
           /\ \A c \in Docs \union {NoDoc} :
                 /\ PostedIn(Mirror(e), c) = PostedIn(journal, c) \ {e}
                 /\ c # journal[e].doc => SameEntries(journal, Mirror(e), c)
<1> DEFINE x == journal[e]
           m == x.mirrors + 1
           y == [x EXCEPT !.mirrors = m, !.status = "reversed"]
           k == [journal EXCEPT ![e] = y]
<1>1. x \in Entry /\ journal \in [Entries -> Entry] BY DEF Shape
<1>2. m \in Nat BY <1>1 DEF Entry
<1>3. Mirror(e) = k BY <1>1 DEF Mirror
<1> HIDE DEF m
<1>4. y \in Entry /\ y.status = "reversed" /\ y.doc = x.doc
  <2>1. y \in Entry BY <1>1, <1>2 DEF Entry
  <2> QED BY <1>1, <2>1 DEF Entry
<1> HIDE DEF y
<1>5. /\ k \in [Entries -> Entry] /\ k[e] = y
      /\ \A f \in Entries \ {e} : k[f] = journal[f]
  BY <1>1, <1>4
<1> HIDE DEF k
<1>6. BlankIn(k) BY <1>4, <1>5 DEF Blank, BlankIn
<1>7. ASSUME NEW c \in Docs \union {NoDoc}
      PROVE  PostedIn(k, c) = PostedIn(journal, c) \ {e}
  BY <1>4, <1>5 DEF PostedIn
<1>8. ASSUME NEW c \in Docs \union {NoDoc}, c # journal[e].doc
      PROVE  SameEntries(journal, k, c)
  <2>1. e \notin PostedIn(journal, c) BY <1>8 DEF PostedIn
  <2>2. PostedIn(k, c) = PostedIn(journal, c) BY <1>7, <2>1
  <2>3. \A f \in PostedIn(journal, c) : k[f].amount = journal[f].amount
    BY <1>5, <2>1 DEF PostedIn
  <2>4. \A f \in Entries : k[f].doc = c => journal[f].doc = c BY <1>4, <1>5
  <2> QED BY <2>2, <2>3, <2>4 DEF SameEntries
<1> QED BY <1>3, <1>5, <1>6, <1>7, <1>8

LEMMA ReversalPosts ==
    ASSUME Shape, Blank, NEW d \in Docs, NEW j \in Reversals(d)
    PROVE  /\ j \in [Entries -> Entry] /\ BlankIn(j)
           /\ \A c \in Docs \ {d} : SameEntries(journal, j, c)
           /\ \A e : PostedOf(d) \subseteq {e} => PostedIn(j, d) = {}
<1>1. PostedOf(d) = PostedIn(journal, d) BY DEF PostedOf, PostedIn
<1>2. CASE PostedOf(d) = {}
  <2>1. j = journal BY <1>2 DEF Reversals
  <2> QED BY <1>1, <1>2, <2>1 DEF Shape, Blank, SameEntries
<1>3. CASE PostedOf(d) # {}
  <2>1. PICK e \in PostedOf(d) : j = Mirror(e) BY <1>3 DEF Reversals
  <2>2. e \in Entries /\ journal[e].status = "posted" /\ journal[e].doc = d
    BY DEF PostedOf
  <2>3. /\ j \in [Entries -> Entry] /\ BlankIn(j)
        /\ PostedIn(j, d) = PostedIn(journal, d) \ {e}
        /\ \A c \in Docs \ {d} : SameEntries(journal, j, c)
    BY <2>1, <2>2, MirrorPosts
  <2> QED BY <1>1, <2>3
<1> QED BY <1>2, <1>3

LEMMA PostPosts ==
    ASSUME NEW j \in [Entries -> Entry], BlankIn(j), NEW e \in Entries,
           j[e].status = "absent",
           NEW d \in Docs \union {NoDoc}, NEW p \in Periods \union {NoPeriod},
           NEW a \in Nat
    PROVE  LET k == PostInto(j, d, p, a, e)
           IN  /\ k \in [Entries -> Entry] /\ BlankIn(k)
               /\ PostedIn(k, d) = PostedIn(j, d) \union {e} /\ k[e].amount = a
               /\ \A c \in Docs \ {d} : SameEntries(j, k, c)
<1> DEFINE x == [NoEntry EXCEPT !.status = "posted", !.doc = d, !.period = p,
                                !.amount = a]
           k == [j EXCEPT ![e] = x]
<1>1. NoEntry \in Entry BY DEF NoEntry, Entry
<1>2. x \in Entry /\ x.status = "posted" /\ x.doc = d /\ x.amount = a
  <2> HIDE DEF x
  <2>1. x = [NoEntry EXCEPT !.status = "posted", !.doc = d, !.period = p, !.amount = a]
    BY DEF x
  <2>2. x \in Entry BY <1>1, <2>1 DEF Entry
  <2> QED BY <1>1, <2>1, <2>2 DEF Entry
<1>3. PostInto(j, d, p, a, e) = k BY DEF PostInto
<1> HIDE DEF x
<1>4. /\ k \in [Entries -> Entry] /\ k[e] = x
      /\ \A f \in Entries \ {e} : k[f] = j[f]
  BY <1>2
<1> HIDE DEF k
<1>5. BlankIn(k) BY <1>2, <1>4 DEF BlankIn
<1>6. PostedIn(k, d) = PostedIn(j, d) \union {e} BY <1>2, <1>4 DEF PostedIn
<1>7. ASSUME NEW c \in Docs \ {d} PROVE SameEntries(j, k, c)
  <2>1. e \notin PostedIn(j, c) /\ e \notin PostedIn(k, c)
    BY <1>2, <1>4 DEF PostedIn
  <2>2. PostedIn(k, c) = PostedIn(j, c) BY <1>4, <2>1 DEF PostedIn
  <2>3. \A f \in PostedIn(j, c) : k[f].amount = j[f].amount
    BY <1>4, <2>1 DEF PostedIn
  <2>4. \A f \in Entries : k[f].doc = c => j[f].doc = c BY <1>2, <1>4
  <2> QED BY <2>2, <2>3, <2>4 DEF SameEntries
<1> QED BY <1>2, <1>3, <1>4, <1>5, <1>6, <1>7

\* Either an entry of d is added, or a failure that awaits d's repair.
LEMMA DocumentPosts ==
    ASSUME NEW j \in [Entries -> Entry], BlankIn(j), Blank,
           NEW d \in Docs, NEW p \in Periods \union {NoPeriod}, NEW a \in Nat,
           failure \in [Failures -> FailureShape], PostDocument(j, d, p, a)
    PROVE  /\ Blank'
           /\ \A c \in Docs \ {d} : SameEntries(j, journal', c)
           /\ \A f \in Failures : failure'[f] = failure[f] \/ failure'[f].doc = d
           /\ \A f \in Failures : failure'[f] = failure[f] \/ failure[f].doc = NoDoc
           /\ \/ /\ failure' = failure
                 /\ \E e \in Entries : /\ PostedIn(journal', d) = PostedIn(j, d) \union {e}
                                       /\ journal'[e].amount = a
              \/ /\ PostedIn(journal', d) = PostedIn(j, d)
                 /\ \E f \in Failures :
                       /\ failure'[f].doc = d /\ failure'[f].status = "pending"
                       /\ \A g \in Failures \ {f} : failure'[g] = failure[g]
<1>1. CASE /\ \E e \in Entries :
                 j[e].status = "absent" /\ journal' = PostInto(j, d, p, a, e)
           /\ UNCHANGED failure
  <2>1. PICK e \in Entries :
            j[e].status = "absent" /\ journal' = PostInto(j, d, p, a, e)
    BY <1>1
  <2>2. /\ BlankIn(journal')
        /\ PostedIn(journal', d) = PostedIn(j, d) \union {e} /\ journal'[e].amount = a
        /\ \A c \in Docs \ {d} : SameEntries(j, journal', c)
    BY <2>1, PostPosts
  <2>3. Blank' BY <1>1, <2>2 DEF Blank, BlankIn
  <2> QED BY <1>1, <2>2, <2>3
<1>2. CASE /\ \E f \in Failures :
                 /\ failure[f].status = "absent"
                 /\ failure' = [failure EXCEPT ![f] = [status |-> "pending", doc |-> d]]
           /\ journal' = j
  <2> DEFINE x == [status |-> "pending", doc |-> d]
  <2>1. PICK f \in Failures :
           failure[f].status = "absent" /\ failure' = [failure EXCEPT ![f] = x]
    BY <1>2
  <2>2. x.status = "pending" /\ x.doc = d OBVIOUS
  <2> HIDE DEF x
  <2>3. failure'[f] = x /\ \A g \in Failures \ {f} : failure'[g] = failure[g]
    BY <2>1
  <2>4. failure[f].doc = NoDoc BY <2>1 DEF Blank
  <2>5. Blank' BY <1>2, <2>2, <2>3 DEF Blank, BlankIn
  <2>6. \A c \in Docs \ {d} : SameEntries(j, journal', c) BY <1>2 DEF SameEntries
  <2> QED BY <1>2, <2>2, <2>3, <2>4, <2>5, <2>6
<1> QED BY <1>1, <1>2 DEF PostDocument

(* A document that a step does not concern is as well tracked as before.   *)
LEMMA OthersTracked ==
    ASSUME NEW c \in Docs, Tracked(c), doc'[c] = doc[c],
           SameEntries(journal, journal', c),
           \A f \in Failures : \/ failure'[f] = failure[f]
                               \/ failure'[f].doc # c /\ failure[f].doc # c
    PROVE  Tracked(c)'
<1>1. PostedOf(c)' = PostedOf(c) BY DEF SameEntries, PostedOf, PostedIn
<1>2. \A e \in PostedOf(c) : journal'[e].amount = journal[e].amount
  BY DEF SameEntries, PostedOf, PostedIn
<1>3. Booked(c) => Booked(c)' BY <1>1, <1>2 DEF Booked, Active
<1>4. /\ EverFailed(c)' <=> EverFailed(c)
      /\ Unresolved(c)' <=> Unresolved(c)
      /\ Awaited(c)' <=> Awaited(c)
  BY DEF EverFailed, Unresolved, Awaited
<1>5. \A e \in Entries : journal'[e].doc = c => journal[e].doc = c BY DEF SameEntries
<1>6. ASSUME NEW f \in Failures, NEW g \in Failures,
             failure'[f].doc = c, failure'[g].doc = c
      PROVE  failure[f].doc = c /\ failure[g].doc = c
  BY <1>6
<1> QED BY <1>1, <1>3, <1>4, <1>5, <1>6 DEF Tracked

-----------------------------------------------------------------------------
(* CInv is inductive                                                       *)

LEMMA AcceptCalm ==
    ASSUME IInv, CInv, NEW r \in Requests, NEW q \in Request, Accept(r, q),
           calm => Ready(q), q.op = "create" => q.period \in Periods,
           q.op \in {"create", "edit"} => q.amount # 0
    PROVE  CInv'
<1>1. /\ req[r] = Idle /\ req' = [req EXCEPT ![r] = q]
      /\ calm' = (calm /\ \A other \in Requests \ {r} : req[other] = Idle)
      /\ UNCHANGED <<period, doc, journal, failure>>
      /\ handled < MaxRequests /\ handled' = handled + 1
  BY DEF Accept, books
<1>2. /\ req'[r] = q /\ \A s \in Requests \ {r} : req'[s] = req[s]
  BY <1>1 DEF IInv, Shape
<1>3. handled' \in 0..MaxRequests BY <1>1, BooksAssumption DEF CInv, Dated
<1>4. Dated' BY <1>1, <1>2, <1>3 DEF CInv, Dated
<1>5. Blank' BY <1>1 DEF CInv, Blank, BlankIn
<1>6. calm' => calm /\ \A s \in Requests \ {r} : req'[s] = Idle
  BY <1>1, <1>2 DEF IInv, Shape
<1>7. OneOpenPeriod' BY <1>1, <1>6 DEF CInv, Reports, OneOpenPeriod, Open
<1>8. FrozenIsTrue' BY <1>1, <1>6 DEF CInv, Reports, FrozenIsTrue, SpentIn
<1>9. ASSUME calm', NEW s \in Requests PROVE Ready(req[s])'
  <2>1. CASE s = r
    <3>1. Ready(q) BY <1>6, <1>9
    <3> QED BY <1>1, <1>2, <2>1, <3>1 DEF Ready, Open, Worth, Active, PostedOf
  <2>2. CASE s # r
    <3>1. req'[s] = Idle BY <1>6, <1>9, <2>2
    <3> QED BY <3>1, IdleIsRequest DEF Ready
  <2> QED BY <2>1, <2>2
<1>10. AllTracked'
  BY <1>1, <1>6 DEF CInv, AllTracked, Tracked, Booked, Active, PostedOf, EverFailed,
     Unresolved, Awaited
<1> QED BY <1>4, <1>5, <1>7, <1>8, <1>9, <1>10 DEF CInv, Reports

\* A transaction commits: while requests come one by one, none is left.
LEMMA CommitCalm ==
    ASSUME IInv, CInv, NEW r \in Requests, req[r].op # "idle",
           req' = [req EXCEPT ![r] = Idle], calm' = calm, handled' = handled,
           period' \in [Periods -> Period],
           \A d \in Docs : doc'[d].status # "absent" =>
               doc'[d].period \in Periods /\ doc'[d].amount # 0,
           OneOpenPeriod', FrozenIsTrue', Blank', AllTracked'
    PROVE  CInv'
<1>1. /\ req'[r] = Idle /\ \A s \in Requests \ {r} : req'[s] = req[s]
  BY DEF IInv, Shape
<1>2. Idle.op = "idle" BY IdleIsRequest
<1>3. Dated' BY <1>1, <1>2 DEF CInv, Dated
<1>4. ASSUME calm', NEW s \in Requests PROVE Ready(req[s])'
  <2>1. req'[s] = Idle BY <1>1, <1>2, <1>4 DEF IInv, OneByOne
  <2> QED BY <1>2, <2>1 DEF Ready
<1> QED BY <1>3, <1>4 DEF CInv, Reports

\* A write to one document, in no closed period.
LEMMA WriteCalm ==
    ASSUME IInv, CInv, NEW d \in Docs, \A c \in Docs \ {d} : doc'[c] = doc[c],
           period' = period, calm' = calm,
           calm /\ doc[d].kind = "expense" /\ doc[d].status = "active"
               => Open(doc[d].period),
           calm /\ doc'[d].kind = "expense" /\ doc'[d].status = "active"
               => Open(doc'[d].period)
    PROVE  OneOpenPeriod' /\ FrozenIsTrue' /\ period' \in [Periods -> Period]
<1>1. OneOpenPeriod' BY DEF CInv, Reports, OneOpenPeriod, Open
<1>2. ASSUME calm', NEW p \in Periods, period'[p].status = "closed"
      PROVE  period'[p].frozen = SpentIn(p)'
  <2>1. period[p].frozen = SpentIn(p) BY <1>2 DEF CInv, Reports, FrozenIsTrue
  <2>2. ~Open(p) BY <1>2 DEF Open
  <2>3. SpentIn(p)' = SpentIn(p) BY <1>2, <2>2, SpentElsewhere
  <2> QED BY <2>1, <2>3
<1>3. FrozenIsTrue' BY <1>2 DEF FrozenIsTrue
<1> QED BY <1>1, <1>3 DEF CInv, Dated

\* Only the ledger and its failures are written.
LEMMA LedgerCalm ==
    ASSUME IInv, CInv, UNCHANGED <<period, doc, calm>>
    PROVE  /\ OneOpenPeriod' /\ FrozenIsTrue' /\ period' \in [Periods -> Period]
           /\ \A d \in Docs : doc'[d].status # "absent" =>
                 doc'[d].period \in Periods /\ doc'[d].amount # 0
  BY DEF CInv, Reports, OneOpenPeriod, Open, FrozenIsTrue, SpentIn, Dated

\* #performClose freezes the sum of the period it closes.
LEMMA CloseCalm ==
    ASSUME IInv, CInv, NEW p, NEW why \in {"manual", "auto"},
           PerformClose(p, why), doc' = doc, calm' => calm
    PROVE  /\ period' \in [Periods -> Period]
           /\ OneOpenPeriod' /\ FrozenIsTrue'
           /\ \A q \in Periods : period'[q].status = "open" => Open(q) /\ q # p
<1> DEFINE o == period[p]
           n == SpentIn(p)
           x == [o EXCEPT !.status = "closed", !.frozen = n, !.reason = why]
<1>0. period \in [Periods -> Period] BY DEF CInv, Dated
<1>1. CASE Open(p) /\ p \in Periods
  <2>1. o \in Period /\ n \in Nat BY <1>0, <1>1, SpentIsNat DEF IInv
  <2>2. period' = [period EXCEPT ![p] = x] BY <1>0, <1>1 DEF PerformClose
  <2> HIDE DEF o, n
  <2>3. x \in Period /\ x.status = "closed" /\ x.frozen = n
    <3>1. x \in Period BY <2>1 DEF Period
    <3> QED BY <2>1, <3>1 DEF Period
  <2> HIDE DEF x
  <2>4. /\ period' \in [Periods -> Period] /\ period'[p] = x
        /\ \A q \in Periods \ {p} : period'[q] = period[q]
    BY <1>0, <1>1, <2>2, <2>3
  <2>5. \A q \in Periods : period'[q].status = "open" => Open(q) /\ q # p
    BY <2>3, <2>4 DEF Open
  <2>6. OneOpenPeriod' BY <2>5 DEF CInv, Reports, OneOpenPeriod, Open
  <2>7. \A q : SpentIn(q)' = SpentIn(q) BY DEF SpentIn
  <2>8. ASSUME calm', NEW q \in Periods, period'[q].status = "closed"
        PROVE  period'[q].frozen = SpentIn(q)
    <3>1. CASE q = p BY <2>3, <2>4, <3>1 DEF n
    <3>2. CASE q # p BY <2>4, <2>8, <3>2 DEF CInv, Reports, FrozenIsTrue
    <3> QED BY <3>1, <3>2
  <2>9. FrozenIsTrue' BY <2>7, <2>8 DEF FrozenIsTrue
  <2> QED BY <2>4, <2>5, <2>6, <2>9
<1>2. CASE ~(Open(p) /\ p \in Periods)
  <2>1. period' = period BY <1>0, <1>2 DEF PerformClose
  <2>2. OneOpenPeriod' BY <2>1 DEF CInv, Reports, OneOpenPeriod, Open
  <2>3. FrozenIsTrue' BY <2>1 DEF CInv, Reports, FrozenIsTrue, SpentIn
  <2> QED BY <1>0, <1>2, <2>1, <2>2, <2>3 DEF Open
<1> QED BY <1>1, <1>2

\* The rows of documents and ledger stay.
LEMMA RowsStay ==
    ASSUME CInv, UNCHANGED <<doc, journal, failure>>, calm' => calm
    PROVE  /\ Blank' /\ AllTracked'
           /\ \A d \in Docs : doc'[d].status # "absent" =>
                 doc'[d].period \in Periods /\ doc'[d].amount # 0
  BY DEF CInv, Blank, BlankIn, AllTracked, Tracked, Booked, Active, PostedOf, EverFailed,
     Unresolved, Awaited, Dated

LEMMA PeriodCommitsCalm ==
    ASSUME IInv, CInv, NEW r \in Requests,
           CommitOpen(r) \/ CommitClose(r) \/ CommitAutoClose(r)
    PROVE  CInv'
<1>1. /\ req[r].op # "idle" /\ req' = [req EXCEPT ![r] = Idle] /\ calm' = calm
      /\ handled' = handled /\ UNCHANGED <<doc, journal, failure>>
      /\ req[r].step = "write"
  BY DEF CommitOpen, CommitClose, CommitAutoClose, Finish
<1>2. period' \in [Periods -> Period] /\ OneOpenPeriod' /\ FrozenIsTrue'
  <2>1. CASE CommitClose(r) BY <1>1, <2>1, CloseCalm DEF CommitClose
  <2>2. CASE CommitAutoClose(r) BY <1>1, <2>2, CloseCalm DEF CommitAutoClose
  <2>3. CASE CommitOpen(r)
    <3>1. PICK p \in Periods, auto \in BOOLEAN :
             /\ period[p].status = "absent"
             /\ period' = [period EXCEPT ![p] =
                             [NoPeriodRow EXCEPT !.status = "open", !.auto = auto]]
      BY <2>3 DEF CommitOpen
    <3> DEFINE x == [NoPeriodRow EXCEPT !.status = "open", !.auto = auto]
    <3>2. x \in Period /\ x.status = "open"
      <4>1. NoPeriodRow \in Period BY DEF NoPeriodRow, Period
      <4> QED BY <4>1 DEF Period
    <3> HIDE DEF x
    <3>3. /\ period' \in [Periods -> Period] /\ period'[p] = x
          /\ \A q \in Periods \ {p} : period'[q] = period[q]
      BY <3>1, <3>2 DEF CInv, Dated, x
    <3>4. calm => \A q \in Periods : ~Open(q)
      <4>1. req[r].op = "open" BY <2>3 DEF CommitOpen, Finish
      <4> QED BY <1>1, <4>1 DEF CInv, Reports, Ready
    <3>5. OneOpenPeriod' BY <1>1, <3>3, <3>4 DEF OneOpenPeriod, Open
    <3>6. \A q : SpentIn(q)' = SpentIn(q) BY <1>1 DEF SpentIn
    <3>7. FrozenIsTrue' BY <1>1, <3>2, <3>3, <3>6 DEF CInv, Reports, FrozenIsTrue
    <3> QED BY <3>3, <3>5, <3>7
  <2> QED BY <2>1, <2>2, <2>3
<1> QED BY <1>1, <1>2, RowsStay, CommitCalm

LEMMA CloseStaleCalm ==
    ASSUME IInv, CInv, NEW r \in Requests, CloseStale(r)
    PROVE  CInv'
<1> DEFINE o == req[r]
           x == [o EXCEPT !.step = "write", !.period = NoPeriod]
<1>1. /\ o.op = "open" /\ o.step = "close"
      /\ UNCHANGED <<doc, journal, failure, handled>>
      /\ req' = [req EXCEPT ![r].step = "write", ![r].period = NoPeriod]
      /\ \/ PerformClose(o.period, "auto") /\ (calm' = calm)
         \/ (calm' = FALSE) /\ (period' = period)
  BY DEF CloseStale
<1>2. o \in Request BY DEF IInv, Shape
<1>3. req' = [req EXCEPT ![r] = x] BY <1>1, <1>2 DEF IInv, Shape, Request
<1>4. x.op = "open" BY <1>1, <1>2 DEF Request
<1> HIDE DEF x
<1>5. req'[r] = x /\ \A s \in Requests \ {r} : req'[s] = req[s]
  BY <1>3 DEF IInv, Shape
<1>6. calm' => calm BY <1>1 DEF IInv, Shape
<1>7. /\ period' \in [Periods -> Period] /\ OneOpenPeriod' /\ FrozenIsTrue'
      /\ calm' => \A q \in Periods : ~Open(q)'
  <2>1. CASE PerformClose(o.period, "auto") /\ (calm' = calm)
    <3>1. /\ period' \in [Periods -> Period]
          /\ OneOpenPeriod' /\ FrozenIsTrue'
          /\ \A q \in Periods : period'[q].status = "open" => Open(q) /\ q # o.period
      BY <1>1, <1>6, <2>1, CloseCalm
    <3>2. calm => \A q \in Periods : Open(q) => q = o.period
      BY <1>1 DEF CInv, Reports, Ready
    <3> QED BY <1>6, <3>1, <3>2 DEF Open
  <2>2. CASE calm' = FALSE /\ period' = period
    BY <2>2 DEF CInv, Dated, OneOpenPeriod, FrozenIsTrue
  <2> QED BY <1>1, <2>1, <2>2
<1>8. ASSUME calm', NEW s \in Requests PROVE Ready(req[s])'
  <2>1. CASE s = r BY <1>4, <1>5, <1>7, <1>8, <2>1 DEF Ready
  <2>2. CASE s # r
    <3>1. req[r] # Idle BY <1>1, IdleIsRequest
    <3>2. req'[s] = Idle BY <1>5, <1>6, <1>8, <2>2, <3>1 DEF IInv, OneByOne
    <3> QED BY <3>2, IdleIsRequest DEF Ready
  <2> QED BY <2>1, <2>2
<1>9. Dated' BY <1>1, <1>4, <1>5, <1>7 DEF CInv, Dated
<1>10. Blank' /\ AllTracked' BY <1>1, <1>6, RowsStay
<1> QED BY <1>7, <1>8, <1>9, <1>10 DEF CInv, Reports

LEMMA AsideCalm ==
    ASSUME IInv, CInv, PeriodEnds \/ (\E r \in Requests : Abort(r)) \/ UNCHANGED vars
    PROVE  CInv'
<1>1. /\ UNCHANGED <<doc, journal, failure, calm, handled>>
      /\ \A s \in Requests : req'[s] = req[s] \/ req'[s] = Idle
  BY DEF PeriodEnds, Abort, vars, books, IInv, Shape
<1>2. /\ period' \in [Periods -> Period]
      /\ \A p \in Periods : /\ period'[p].status = period[p].status
                            /\ period'[p].frozen = period[p].frozen
  <2>1. CASE PeriodEnds
    <3>1. PICK p \in Periods : period' = [period EXCEPT ![p].due = TRUE]
      BY <2>1 DEF PeriodEnds
    <3> DEFINE x == [period[p] EXCEPT !.due = TRUE]
    <3>2. period[p] \in Period BY DEF CInv, Dated
    <3>3. /\ x \in Period /\ x.status = period[p].status
          /\ x.frozen = period[p].frozen
      BY <3>2 DEF Period
    <3>4. period' = [period EXCEPT ![p] = x] BY <3>1 DEF CInv, Dated
    <3> HIDE DEF x
    <3> QED BY <3>3, <3>4 DEF CInv, Dated
  <2>2. CASE period' = period BY <2>2 DEF CInv, Dated
  <2> QED BY <2>1, <2>2 DEF Abort, vars, books
<1>3. OneOpenPeriod' BY <1>1, <1>2 DEF CInv, Reports, OneOpenPeriod, Open
<1>4. FrozenIsTrue' BY <1>1, <1>2 DEF CInv, Reports, FrozenIsTrue, SpentIn
<1>5. ASSUME calm', NEW s \in Requests PROVE Ready(req[s])'
  <2>1. CASE req'[s] = Idle BY <2>1, IdleIsRequest DEF Ready
  <2>2. CASE req'[s] = req[s]
    <3>1. Ready(req[s]) /\ LinkedTo(req[s])
      BY <1>1, <1>5 DEF CInv, Reports, IInv, Linked
    <3>2. /\ req[s].op = "create" => req[s].period \in Periods
          /\ req[s].op \in {"edit", "delete"} => doc[req[s].doc].period \in Periods
      BY <3>1 DEF CInv, Dated, LinkedTo
    <3> QED BY <1>1, <1>2, <2>2, <3>1, <3>2 DEF Ready, Open, Worth, Active, PostedOf
  <2> QED BY <1>1, <2>1, <2>2
<1>6. Dated'
  <2>1. \A s \in Requests :
          /\ req'[s].op = "create" => req'[s].period \in Periods
          /\ req'[s].op \in {"create", "edit"} => req'[s].amount # 0
    BY <1>1, IdleIsRequest DEF CInv, Dated
  <2> QED BY <1>1, <1>2, <2>1 DEF CInv, Dated
<1>7. Blank' /\ AllTracked' BY <1>1, RowsStay
<1> QED BY <1>3, <1>4, <1>5, <1>6, <1>7 DEF CInv, Reports

LEMMA IgnoreFailureCalm ==
    ASSUME IInv, CInv, IgnoreFailure
    PROVE  CInv'
<1>1. PICK f \in Failures :
         /\ failure[f].status \notin {"absent", "ignored"}
         /\ failure' = [failure EXCEPT ![f].status = "ignored"]
         /\ UNCHANGED <<period, doc, journal, req, handled, calm>>
  BY DEF IgnoreFailure
<1>2. failure[f] \in FailureShape BY DEF IInv, Shape
<1> DEFINE x == [failure[f] EXCEPT !.status = "ignored"]
<1>3. x.status = "ignored" /\ x.doc = failure[f].doc
  BY <1>2 DEF FailureShape, Failure
<1>4. failure' = [failure EXCEPT ![f] = x] BY <1>1 DEF IInv, Shape
<1> HIDE DEF x
<1>5. failure'[f] = x /\ \A g \in Failures \ {f} : failure'[g] = failure[g]
  BY <1>4 DEF IInv, Shape
<1>6. \A g \in Failures :
          /\ failure'[g].doc = failure[g].doc
          /\ failure'[g].status = failure[g].status \/ failure'[g].status = "ignored"
          /\ failure[g].status = "absent" <=> failure'[g].status = "absent"
  BY <1>1, <1>3, <1>5
<1>7. ASSUME NEW d \in Docs, Tracked(d) PROVE Tracked(d)'
  <2>1. Booked(d)' <=> Booked(d) BY <1>1 DEF Booked, Active, PostedOf
  <2>2. EverFailed(d)' <=> EverFailed(d) BY <1>6 DEF EverFailed
  <2>3. Unresolved(d) => Unresolved(d)' BY <1>6 DEF Unresolved
  <2>4. Awaited(d)' => Awaited(d) BY <1>6 DEF Awaited
  <2>5. PostedOf(d)' = PostedOf(d) BY <1>1 DEF PostedOf
  <2> QED BY <1>1, <1>6, <1>7, <2>1, <2>2, <2>3, <2>4, <2>5 DEF Tracked
<1>8. AllTracked' BY <1>1, <1>7 DEF CInv, AllTracked
<1>9. Blank' BY <1>1, <1>6 DEF CInv, Blank, BlankIn
<1>10. ASSUME calm', NEW s \in Requests PROVE Ready(req[s])'
  <2>1. Ready(req[s]) /\ LinkedTo(req[s])
    BY <1>1, <1>10 DEF CInv, Reports, IInv, Linked
  <2>2. req[s].op = "repost" => failure'[req[s].id].doc = failure[req[s].id].doc
    BY <1>6, <2>1 DEF LinkedTo
  <2> QED BY <1>1, <2>1, <2>2 DEF Ready, Open, Worth, Active, PostedOf
<1>11. OneOpenPeriod' /\ FrozenIsTrue' BY <1>1, LedgerCalm
<1>12. Dated' BY <1>1 DEF CInv, Dated
<1> QED BY <1>8, <1>9, <1>10, <1>11, <1>12 DEF CInv, Reports

LEMMA RowsDated ==
    ASSUME NEW t \in Request
    PROVE  /\ Written(t).period = t.period /\ Written(t).amount = t.amount
           /\ Minted(Written(t)).period = t.period
           /\ Minted(Written(t)).amount = t.amount
<1>1. Written(t) \in DocShape BY RowsWritten
<1>2. Written(t).period = t.period /\ Written(t).amount = t.amount
  BY DEF Written, NoDocRow
<1> DEFINE w == Written(t)
           m == [w EXCEPT !.voucher = "active", !.paid = w.amount]
<1> HIDE DEF w
<1>3. w \in DocShape BY <1>1 DEF w
<1>4. m.period = w.period /\ m.amount = w.amount BY <1>3 DEF DocShape
<1>5. Minted(w) = m BY DEF Minted
<1> QED BY <1>2, <1>4, <1>5 DEF w

LEMMA InsertCalm ==
    ASSUME IInv, CInv, NEW r \in Requests, NEW k \in {"expense", "voucher", "transfer"},
           NEW row \in DocShape, Insert(r, k, row), row.kind = k,
           row.status = "active", row.period = req[r].period,
           row.amount = req[r].amount
    PROVE  CInv'
<1>1. PICK d \in Docs :
         /\ Finish(r, "create") /\ doc[d].status = "absent"
         /\ doc' = [doc EXCEPT ![d] = row]
         /\ PostDocument(journal, d, req[r].period, req[r].amount)
         /\ UNCHANGED period
  BY DEF Insert
<1>2. /\ req[r].op = "create" /\ req' = [req EXCEPT ![r] = Idle] /\ calm' = calm
      /\ handled' = handled
  BY <1>1 DEF Finish
<1>3. /\ req[r].period \in Periods /\ req[r].amount \in Nat /\ req[r].amount # 0
      /\ journal \in [Entries -> Entry] /\ BlankIn(journal) /\ Blank
      /\ failure \in [Failures -> FailureShape]
  BY <1>2 DEF IInv, Shape, Request, CInv, Dated, Blank
<1>4. doc'[d] = row /\ \A c \in Docs \ {d} : doc'[c] = doc[c]
  BY <1>1 DEF IInv, Shape
<1>5. calm => Open(req[r].period) BY <1>2 DEF CInv, Reports, Ready
<1>6. /\ OneOpenPeriod' /\ FrozenIsTrue' /\ period' \in [Periods -> Period]
  BY <1>1, <1>2, <1>4, <1>5, WriteCalm
<1>7. \A c \in Docs : doc'[c].status # "absent" =>
          doc'[c].period \in Periods /\ doc'[c].amount # 0
  BY <1>3, <1>4 DEF CInv, Dated
<1>8. /\ Blank'
      /\ \A c \in Docs \ {d} : SameEntries(journal, journal', c)
      /\ \A f \in Failures : failure'[f] = failure[f] \/ failure'[f].doc = d
      /\ \A f \in Failures : failure'[f] = failure[f] \/ failure[f].doc = NoDoc
      /\ \/ /\ failure' = failure
            /\ \E e \in Entries : /\ PostedIn(journal', d) = PostedIn(journal, d) \union {e}
                                  /\ journal'[e].amount = req[r].amount
         \/ /\ PostedIn(journal', d) = PostedIn(journal, d)
            /\ \E f \in Failures :
                  /\ failure'[f].doc = d /\ failure'[f].status = "pending"
                  /\ \A g \in Failures \ {f} : failure'[g] = failure[g]
  BY <1>1, <1>3, DocumentPosts
<1>9. ASSUME calm, NEW c \in Docs, c # d PROVE Tracked(c)'
  <2>1. \A f \in Failures : \/ failure'[f] = failure[f]
                            \/ failure'[f].doc # c /\ failure[f].doc # c
    BY <1>8, <1>9, BooksAssumption
  <2> QED BY <1>4, <1>8, <1>9, <2>1, OthersTracked DEF CInv, AllTracked
<1>10. ASSUME calm PROVE Tracked(d)'
  <2>1. /\ \A e \in Entries : journal[e].doc # d
        /\ \A f \in Failures : failure[f].doc # d
    BY <1>1, <1>10 DEF CInv, AllTracked, Tracked, EverFailed
  <2>2. PostedIn(journal, d) = {} BY <2>1 DEF PostedIn
  <2>3. PostedOf(d)' = PostedIn(journal', d) BY DEF PostedOf, PostedIn
  <2>4. CASE /\ failure' = failure
             /\ \E e \in Entries : /\ PostedIn(journal', d) = PostedIn(journal, d) \union {e}
                                   /\ journal'[e].amount = req[r].amount
    <3>1. Booked(d)' BY <1>4, <2>2, <2>3, <2>4 DEF Booked, Active
    <3>2. ~Awaited(d)' BY <2>1, <2>4 DEF Awaited
    <3> QED BY <1>4, <2>1, <2>4, <3>1, <3>2 DEF Tracked
  <2>5. CASE /\ PostedIn(journal', d) = PostedIn(journal, d)
             /\ \E f \in Failures :
                   /\ failure'[f].doc = d /\ failure'[f].status = "pending"
                   /\ \A g \in Failures \ {f} : failure'[g] = failure[g]
    <3>1. EverFailed(d)' /\ Unresolved(d)' BY <2>5 DEF EverFailed, Unresolved
    <3>2. PostedOf(d)' = {} BY <2>2, <2>3, <2>5
    <3>3. \A f, g \in Failures : failure'[f].doc = d /\ failure'[g].doc = d => f = g
      BY <2>1, <2>5
    <3> QED BY <1>4, <3>1, <3>2, <3>3 DEF Tracked
  <2> QED BY <1>8, <2>4, <2>5
<1>11. AllTracked' BY <1>2, <1>9, <1>10 DEF AllTracked
<1> QED BY <1>2, <1>6, <1>7, <1>8, <1>11, CommitCalm

LEMMA CreateCalm ==
    ASSUME IInv, CInv, NEW r \in Requests,
           CommitExpense(r) \/ CommitVoucher(r) \/ CommitTransfer(r)
    PROVE  CInv'
<1>1. req[r] \in Request BY DEF IInv, Shape
<1>2. CASE CommitExpense(r)
  <2>1. req[r].kind = "expense" BY <1>2 DEF CommitExpense, Insert
  <2> QED BY <1>1, <1>2, <2>1, RowsWritten, RowsDated, InsertCalm DEF CommitExpense
<1>3. CASE CommitVoucher(r)
  <2>1. req[r].kind = "voucher" BY <1>3 DEF CommitVoucher, Insert
  <2> QED BY <1>1, <1>3, <2>1, RowsWritten, RowsDated, InsertCalm DEF CommitVoucher
<1>4. CASE CommitTransfer(r)
  <2>1. req[r].kind = "transfer" BY <1>4 DEF CommitTransfer, Insert
  <2> QED BY <1>1, <1>4, <2>1, RowsWritten, RowsDated, InsertCalm DEF CommitTransfer
<1> QED BY <1>2, <1>3, <1>4

\* What the reversal of a booked document leaves posted of it.
LEMMA ReversalEmpties ==
    ASSUME Shape, Blank, NEW d \in Docs, NEW j \in Reversals(d),
           Booked(d) \/ PostedOf(d) = {}
    PROVE  PostedIn(j, d) = {}
<1>1. \E e : PostedOf(d) \subseteq {e} BY DEF Booked
<1> QED BY <1>1, ReversalPosts

LEMMA EditCalm ==
    ASSUME IInv, CInv, NEW r \in Requests, CommitEdit(r)
    PROVE  CInv'
<1>a. LinkedTo(req[r]) /\ req[r].op = "edit"
  BY DEF IInv, Linked, CommitEdit, Finish
<1>b. PICK d \in Docs : d = req[r].doc BY <1>a DEF LinkedTo
<1> DEFINE a == req[r].amount
           o == doc[d]
           x == [o EXCEPT !.amount = a, !.paid = a]
<1>1. /\ req[r].op = "edit" /\ req' = [req EXCEPT ![r] = Idle] /\ calm' = calm
      /\ handled' = handled
      /\ Active(d) /\ doc' = [doc EXCEPT ![d].amount = a, ![d].paid = a]
      /\ UNCHANGED period
  BY <1>b DEF CommitEdit, Finish
<1>2. PICK j \in Reversals(d) : PostDocument(j, d, doc[d].period, a)
  BY <1>b DEF CommitEdit
<1>4. a \in Nat /\ a # 0
  BY <1>1 DEF IInv, Shape, Request, CInv, Dated
<1>5. o \in DocShape /\ o.status = "active" BY <1>1, <1>4 DEF IInv, Shape, Active
<1>6. doc' = [doc EXCEPT ![d] = x] BY <1>1, <1>4, <1>5 DEF IInv, Shape, DocShape
<1>7. /\ x.status = "active" /\ x.kind = o.kind /\ x.period = o.period
      /\ x.amount = a
  BY <1>4, <1>5 DEF DocShape
<1> HIDE DEF x
<1>8. doc'[d] = x /\ \A c \in Docs \ {d} : doc'[c] = doc[c]
  BY <1>4, <1>6 DEF IInv, Shape
<1>9. calm => o.kind = "expense" /\ Open(o.period)
  BY <1>1, <1>b DEF CInv, Reports, Ready
<1>10. /\ OneOpenPeriod' /\ FrozenIsTrue' /\ period' \in [Periods -> Period]
  BY <1>1, <1>4, <1>7, <1>8, <1>9, WriteCalm
<1>11. \A c \in Docs : doc'[c].status # "absent" =>
          doc'[c].period \in Periods /\ doc'[c].amount # 0
  BY <1>4, <1>5, <1>7, <1>8 DEF CInv, Dated
<1>12. /\ j \in [Entries -> Entry] /\ BlankIn(j)
       /\ \A c \in Docs \ {d} : SameEntries(journal, j, c)
  BY <1>2, <1>4, ReversalPosts DEF IInv, CInv
<1>13. o.period \in Periods \union {NoPeriod} BY <1>5 DEF DocShape
<1>14. /\ Blank'
       /\ \A c \in Docs \ {d} : SameEntries(j, journal', c)
       /\ \A f \in Failures : failure'[f] = failure[f] \/ failure'[f].doc = d
       /\ \A f \in Failures : failure'[f] = failure[f] \/ failure[f].doc = NoDoc
       /\ \/ /\ failure' = failure
             /\ \E e \in Entries : /\ PostedIn(journal', d) = PostedIn(j, d) \union {e}
                                   /\ journal'[e].amount = a
          \/ /\ PostedIn(journal', d) = PostedIn(j, d)
             /\ \E f \in Failures :
                   /\ failure'[f].doc = d /\ failure'[f].status = "pending"
                   /\ \A g \in Failures \ {f} : failure'[g] = failure[g]
  BY <1>2, <1>4, <1>12, <1>13, DocumentPosts DEF IInv, Shape, CInv
<1>15. ASSUME calm, NEW c \in Docs, c # d PROVE Tracked(c)'
  <2>1. \A f \in Failures : \/ failure'[f] = failure[f]
                            \/ failure'[f].doc # c /\ failure[f].doc # c
    BY <1>14, <1>15, BooksAssumption
  <2>2. SameEntries(journal, journal', c) BY <1>12, <1>14, <1>15, SameTwice
  <2> QED BY <1>8, <1>15, <2>1, <2>2, OthersTracked DEF CInv, AllTracked
<1>16. ASSUME calm PROVE Tracked(d)'
  <2>1. Booked(d) \/ EverFailed(d)
    BY <1>4, <1>9, <1>16 DEF CInv, AllTracked, Tracked
  <2>2. EverFailed(d) => EverFailed(d)'
    BY <1>4, <1>14, BooksAssumption DEF EverFailed
  <2>3. ASSUME Booked(d) PROVE Booked(d)' \/ EverFailed(d)'
    <3>1. PostedIn(j, d) = {} BY <1>2, <1>4, <2>3, ReversalEmpties DEF IInv, CInv
    <3>2. PostedOf(d)' = PostedIn(journal', d)
      BY <1>1 DEF PostedOf, PostedIn
    <3>3. ASSUME NEW e \in Entries, PostedIn(journal', d) = PostedIn(j, d) \union {e},
                 journal'[e].amount = a
          PROVE  Booked(d)'
      BY <1>7, <1>8, <3>1, <3>2, <3>3 DEF Booked, Active
    <3>4. (\E f \in Failures : failure'[f].doc = d) => EverFailed(d)'
      BY DEF EverFailed
    <3> QED BY <1>14, <3>3, <3>4
  <2>4. doc'[d].status # "absent" /\ doc'[d].kind = "expense"
    BY <1>7, <1>8, <1>9, <1>16
  <2> QED BY <2>1, <2>2, <2>3, <2>4 DEF Tracked
<1>17. AllTracked' BY <1>1, <1>15, <1>16 DEF AllTracked
<1> QED BY <1>1, <1>10, <1>11, <1>14, <1>17, CommitCalm

LEMMA EndCalm ==
    ASSUME IInv, CInv, NEW r \in Requests, NEW d \in Docs, NEW x \in DocShape,
           req[r].op # "idle",
           req' = [req EXCEPT ![r] = Idle], calm' = calm, handled' = handled,
           doc' = [doc EXCEPT ![d] = x], x.status \in {"cancelled", "deleted"},
           doc[d].status # "absent",
           x.kind = doc[d].kind, x.period = doc[d].period, x.amount = doc[d].amount,
           calm /\ x.kind = "expense" => Open(x.period),
           journal' \in Reversals(d), UNCHANGED <<period, failure>>
    PROVE  CInv'
<1>1. doc'[d] = x /\ \A c \in Docs \ {d} : doc'[c] = doc[c] BY DEF IInv, Shape
<1>2. /\ OneOpenPeriod' /\ FrozenIsTrue' /\ period' \in [Periods -> Period]
  BY <1>1, WriteCalm
<1>3. \A c \in Docs : doc'[c].status # "absent" =>
          doc'[c].period \in Periods /\ doc'[c].amount # 0
  BY <1>1 DEF CInv, Dated
<1>4. BlankIn(journal') /\ \A c \in Docs \ {d} : SameEntries(journal, journal', c)
  BY ReversalPosts DEF IInv, CInv
<1>5. Blank' BY <1>4 DEF CInv, Blank, BlankIn
<1>6. ASSUME calm, NEW c \in Docs, c # d PROVE Tracked(c)'
  BY <1>1, <1>4, <1>6, OthersTracked DEF CInv, AllTracked
<1>7. ASSUME calm PROVE Tracked(d)'
  <2>1. Tracked(d) BY <1>7 DEF CInv, AllTracked
  <2>2. PostedOf(d)' = PostedIn(journal', d) BY DEF PostedOf, PostedIn
  <2>3. Booked(d) \/ PostedOf(d) = {} => PostedOf(d)' = {}
    BY <2>2, ReversalEmpties DEF IInv, CInv
  <2>4. PostedOf(d)' = {} => Booked(d)' BY <1>1 DEF Booked, Active
  <2>5. /\ EverFailed(d)' <=> EverFailed(d)
        /\ Unresolved(d)' <=> Unresolved(d)
        /\ Awaited(d)' <=> Awaited(d)
    BY DEF EverFailed, Unresolved, Awaited
  <2>6. doc'[d].status # "absent" /\ doc'[d].kind = doc[d].kind BY <1>1
  <2> QED BY <2>1, <2>3, <2>4, <2>5, <2>6 DEF Tracked
<1>8. AllTracked' BY <1>6, <1>7 DEF AllTracked
<1> QED BY <1>2, <1>3, <1>5, <1>8, CommitCalm

LEMMA DeleteCalm ==
    ASSUME IInv, CInv, NEW r \in Requests, CommitDelete(r)
    PROVE  CInv'
<1>1. LinkedTo(req[r]) /\ req[r].op = "delete"
  BY DEF IInv, Linked, CommitDelete, Finish
<1>2. PICK d \in Docs : d = req[r].doc BY <1>1 DEF LinkedTo
<1> DEFINE o == doc[d]
           x == [o EXCEPT !.status = "deleted", !.voucher = "cancelled"]
<1>3. /\ req' = [req EXCEPT ![r] = Idle] /\ calm' = calm /\ handled' = handled
      /\ journal' \in Reversals(d) /\ UNCHANGED <<period, failure>>
  BY <1>2 DEF CommitDelete, Finish
<1>4. o \in DocShape /\ o.status # "absent" BY <1>1, <1>2 DEF IInv, Shape, LinkedTo
<1>5. doc' = [doc EXCEPT ![d] = x]
  BY <1>2 DEF CommitDelete, Deleted, IInv, Shape
<1>6. calm => Open(o.period) BY <1>1, <1>2 DEF CInv, Reports, Ready
<1> HIDE DEF o
<1>7. x \in DocShape BY <1>4 DEF DocShape
<1>8. /\ x.status = "deleted" /\ x.kind = o.kind /\ x.period = o.period
      /\ x.amount = o.amount
  BY <1>4 DEF DocShape
<1> HIDE DEF x
<1>9. o = doc[d] BY DEF o
<1> QED BY <1>1, <1>3, <1>4, <1>5, <1>6, <1>7, <1>8, <1>9, EndCalm

LEMMA CancelCalm ==
    ASSUME IInv, CInv, NEW r \in Requests, NEW k \in {"voucher", "transfer"}, Cancel(r, k)
    PROVE  CInv'
<1>1. LinkedTo(req[r]) /\ req[r].op = "cancel" /\ req[r].kind = k
  BY DEF IInv, Linked, Cancel, Finish
<1>2. PICK d \in Docs : d = req[r].doc BY <1>1 DEF LinkedTo
<1> DEFINE o == doc[d]
           x == [o EXCEPT !.status = "cancelled"]
<1>3. /\ req' = [req EXCEPT ![r] = Idle] /\ calm' = calm /\ handled' = handled
      /\ journal' \in Reversals(d) /\ UNCHANGED <<period, failure>>
  BY <1>2 DEF Cancel, Finish
<1>4. o \in DocShape /\ o.status # "absent" /\ o.kind # "expense"
  BY <1>1, <1>2 DEF IInv, Shape, LinkedTo
<1>5. doc' = [doc EXCEPT ![d] = x] BY <1>2 DEF Cancel, IInv, Shape
<1> HIDE DEF o
<1>6. x \in DocShape BY <1>4 DEF DocShape
<1>7. /\ x.status = "cancelled" /\ x.kind = o.kind /\ x.period = o.period
      /\ x.amount = o.amount
  BY <1>4 DEF DocShape
<1> HIDE DEF x
<1>8. o = doc[d] BY DEF o
<1> QED BY <1>1, <1>3, <1>4, <1>5, <1>6, <1>7, <1>8, EndCalm

LEMMA ManualCalm ==
    ASSUME IInv, CInv, NEW r \in Requests, CommitManual(r) \/ CommitReverse(r)
    PROVE  CInv'
<1>1. /\ req[r].op # "idle" /\ req' = [req EXCEPT ![r] = Idle] /\ calm' = calm
      /\ handled' = handled /\ UNCHANGED <<period, doc, failure>>
  BY DEF CommitManual, CommitReverse, Finish
<1>2. BlankIn(journal') /\ \A c \in Docs : SameEntries(journal, journal', c)
  <2>1. CASE CommitManual(r)
    <3>1. PICK e \in Entries :
             /\ journal[e].status = "absent"
             /\ journal' = PostInto(journal, NoDoc, req[r].period, req[r].amount, e)
      BY <2>1 DEF CommitManual
    <3>2. /\ req[r].period \in Periods \union {NoPeriod} /\ req[r].amount \in Nat
          /\ journal \in [Entries -> Entry] /\ BlankIn(journal)
      BY DEF IInv, Shape, Request, CInv, Blank
    <3>3. Docs \ {NoDoc} = Docs BY BooksAssumption
    <3>4. /\ BlankIn(journal')
          /\ \A c \in Docs \ {NoDoc} : SameEntries(journal, journal', c)
      <4>1. NoDoc \in Docs \union {NoDoc} OBVIOUS
      <4>2. journal[e].status = "absent" BY <3>1
      <4>3. LET k == PostInto(journal, NoDoc, req[r].period, req[r].amount, e)
            IN  BlankIn(k) /\ \A c \in Docs \ {NoDoc} : SameEntries(journal, k, c)
        BY <3>2, <4>1, <4>2, PostPosts
      <4> QED BY <3>1, <4>3
    <3> QED BY <3>3, <3>4
  <2>2. CASE CommitReverse(r)
    <3>1. /\ req[r].id \in Entries /\ journal[req[r].id].doc = NoDoc
          /\ journal[req[r].id].status # "absent" /\ journal' = Mirror(req[r].id)
      BY <2>2 DEF CommitReverse, Finish, IInv, Linked, LinkedTo
    <3>2. \A c \in Docs : c # NoDoc BY BooksAssumption
    <3> QED BY <3>1, <3>2, MirrorPosts DEF IInv, CInv
  <2> QED BY <2>1, <2>2
<1>3. Blank' BY <1>1, <1>2 DEF CInv, Blank, BlankIn
<1>4. AllTracked' BY <1>1, <1>2, OthersTracked DEF CInv, AllTracked
<1> QED BY <1>1, <1>3, <1>4, LedgerCalm, CommitCalm

LEMMA RepostCalm ==
    ASSUME IInv, CInv, NEW r \in Requests, CommitRepost(r)
    PROVE  CInv'
<1>1. LinkedTo(req[r]) /\ req[r].op = "repost"
  BY DEF IInv, Linked, CommitRepost, Finish
<1>2. PICK g \in Failures : g = req[r].id BY <1>1 DEF LinkedTo
<1>3. PICK d \in Docs \union {NoDoc} : d = req[r].doc BY DEF IInv, Shape, Request
<1> DEFINE p == req[r].period
           a == req[r].amount
           x == [failure[g] EXCEPT !.status = "resolved"]
<1>4. /\ req' = [req EXCEPT ![r] = Idle] /\ calm' = calm
      /\ handled' = handled /\ UNCHANGED <<period, doc>>
      /\ failure' = [failure EXCEPT ![g].status = "resolved"]
      /\ IF a = 0 THEN UNCHANGED journal
         ELSE \E e \in Entries : /\ journal[e].status = "absent"
                                 /\ journal' = PostInto(journal, d, p, a, e)
  BY <1>2, <1>3 DEF CommitRepost, Finish
<1>5. /\ failure[g] \in FailureShape /\ failure[g].status # "absent"
      /\ p \in Periods \union {NoPeriod} /\ a \in Nat
      /\ journal \in [Entries -> Entry] /\ BlankIn(journal)
  BY <1>1, <1>2 DEF IInv, Shape, Request, LinkedTo, CInv, Blank
<1>6. x.status = "resolved" /\ x.doc = failure[g].doc
  BY <1>5 DEF FailureShape, Failure
<1>7. failure' = [failure EXCEPT ![g] = x] BY <1>4 DEF IInv, Shape
<1> HIDE DEF x
<1>8. failure'[g] = x /\ \A f \in Failures \ {g} : failure'[f] = failure[f]
  BY <1>7 DEF IInv, Shape
<1>9. \A f \in Failures : failure'[f].doc = failure[f].doc BY <1>6, <1>8
<1> HIDE DEF a, p
<1>10. /\ BlankIn(journal')
       /\ \A c \in Docs \ {d} : SameEntries(journal, journal', c)
       /\ \/ a = 0 /\ journal' = journal
          \/ \E e \in Entries : /\ PostedIn(journal', d) = PostedIn(journal, d) \union {e}
                                /\ journal'[e].amount = a
  <2>1. CASE a = 0 BY <1>4, <1>5, <2>1 DEF SameEntries
  <2>2. ASSUME NEW e \in Entries, journal[e].status = "absent",
               journal' = PostInto(journal, d, p, a, e)
        PROVE  /\ BlankIn(journal')
               /\ PostedIn(journal', d) = PostedIn(journal, d) \union {e}
               /\ journal'[e].amount = a
               /\ \A c \in Docs \ {d} : SameEntries(journal, journal', c)
    <3>1. LET k == PostInto(journal, d, p, a, e)
          IN  /\ BlankIn(k) /\ PostedIn(k, d) = PostedIn(journal, d) \union {e}
              /\ k[e].amount = a
              /\ \A c \in Docs \ {d} : SameEntries(journal, k, c)
      <4>1. journal[e].status = "absent" BY <2>2
      <4> QED BY <1>5, <4>1, PostPosts
    <3> QED BY <2>2, <3>1
  <2>3. CASE a # 0
    <3>1. PICK e \in Entries : journal[e].status = "absent"
                                /\ journal' = PostInto(journal, d, p, a, e)
      BY <1>4, <2>3
    <3>2. /\ BlankIn(journal') /\ e \in Entries
          /\ PostedIn(journal', d) = PostedIn(journal, d) \union {e}
          /\ journal'[e].amount = a
          /\ \A c \in Docs \ {d} : SameEntries(journal, journal', c)
      BY <2>2, <3>1
    <3> QED BY <3>2
  <2> QED BY <2>1, <2>3
<1>11. Blank' BY <1>5, <1>6, <1>8, <1>10 DEF CInv, Blank, BlankIn
<1>12. calm => d = failure[g].doc /\ d \in Docs
  BY <1>1, <1>2, <1>3, <1>5 DEF CInv, Reports, Ready, FailureShape
<1>13. ASSUME calm, NEW c \in Docs, c # d PROVE Tracked(c)'
  <2>1. \A f \in Failures : \/ failure'[f] = failure[f]
                            \/ failure'[f].doc # c /\ failure[f].doc # c
    BY <1>8, <1>9, <1>12, <1>13
  <2> QED BY <1>4, <1>10, <1>13, <2>1, OthersTracked DEF CInv, AllTracked
<1>14. ASSUME calm PROVE Tracked(d)'
  <2>1. Tracked(d) /\ d \in Docs BY <1>12, <1>14 DEF CInv, AllTracked
  <2>2. EverFailed(d)' BY <1>9, <1>12, <1>14 DEF EverFailed
  <2>3. doc'[d] = doc[d] /\ doc[d].status # "absent"
    BY <1>4, <1>12, <1>14, <2>1 DEF Tracked, EverFailed
  <2>4. CASE doc[d].kind = "expense" BY <2>2, <2>3, <2>4 DEF Tracked
  <2>5. CASE doc[d].kind # "expense"
    <3>1. PostedOf(d) = {} /\ a = Worth(d)
      BY <1>1, <1>3, <1>14, <2>5 DEF CInv, Reports, Ready, a
    <3>2. PostedOf(d)' = PostedIn(journal', d) /\ PostedOf(d) = PostedIn(journal, d)
      BY DEF PostedOf, PostedIn
    <3>3. Booked(d)'
      <4>1. CASE a = 0 /\ journal' = journal
        <5>1. ~Active(d)
          BY <2>1, <2>3, <3>1, <4>1 DEF Worth, Active, CInv, Dated
        <5> QED BY <2>3, <3>1, <3>2, <4>1, <5>1 DEF Booked, Active
      <4>2. ASSUME NEW e \in Entries, a # 0, journal'[e].amount = a,
                   PostedIn(journal', d) = PostedIn(journal, d) \union {e}
            PROVE  Booked(d)'
        <5>1. Active(d) /\ a = doc[d].amount BY <3>1, <4>2 DEF Worth
        <5> QED BY <2>3, <3>1, <3>2, <4>2, <5>1 DEF Booked, Active
      <4>3. a # 0 \/ journal' = journal BY <1>4
      <4> QED BY <1>4, <1>10, <4>1, <4>2
    <3>4. \A f, h \in Failures : failure'[f].doc = d /\ failure'[h].doc = d => f = h
      BY <1>9, <2>1, <2>5 DEF Tracked
    <3>5. ~Awaited(d)'
      <4>1. \A f \in Failures : failure'[f].doc = d => f = g
        BY <1>9, <1>12, <1>14, <3>4
      <4> QED BY <1>6, <1>8, <4>1 DEF Awaited
    <3> QED BY <2>3, <2>5, <3>3, <3>4, <3>5 DEF Tracked
  <2> QED BY <2>4, <2>5
<1>15. AllTracked' BY <1>4, <1>13, <1>14 DEF AllTracked
<1> QED BY <1>1, <1>4, <1>11, <1>15, LedgerCalm, CommitCalm

(* A request that relies on nothing but its document or its entry.         *)
LEMMA FreeBeginCalm ==
    ASSUME IInv, CInv, NEW r \in Requests, NEW q \in Request, Accept(r, q),
           q.op \in {"close", "autoClose", "cancel", "manual", "reverse"}
    PROVE  CInv'
<1>1. Ready(q) BY DEF Ready
<1> QED BY <1>1, AcceptCalm

LEMMA PeriodBeginsCalm ==
    ASSUME IInv, CInv, NEW r \in Requests,
           BeginOpen(r) \/ BeginClose(r) \/ BeginAutoClose(r)
    PROVE  CInv'
<1>1. CASE BeginClose(r) \/ BeginAutoClose(r)
  <2>1. ASSUME NEW o \in {"close", "autoClose"}, NEW p \in Periods,
               Accept(r, [Idle EXCEPT !.op = o, !.step = "write", !.period = p])
        PROVE  CInv'
    <3> DEFINE q == [Idle EXCEPT !.op = o, !.step = "write", !.period = p]
    <3>1. q \in Request BY IdleIsRequest DEF Request, OpNames
    <3>2. q.op = o BY IdleIsRequest DEF Request
    <3>3. Accept(r, q) BY <2>1
    <3> HIDE DEF q
    <3> QED BY <3>1, <3>2, <3>3, FreeBeginCalm
  <2> QED BY <1>1, <2>1 DEF BeginClose, BeginAutoClose
<1>2. CASE /\ \A p \in Periods : ~Open(p)
           /\ Accept(r, [Idle EXCEPT !.op = "open", !.step = "write"])
  <2> DEFINE q == [Idle EXCEPT !.op = "open", !.step = "write"]
  <2>1. q \in Request /\ q.op = "open" BY IdleIsRequest DEF Request, OpNames
  <2>2. Accept(r, q) BY <1>2
  <2> HIDE DEF q
  <2>3. Ready(q) BY <1>2, <2>1 DEF Ready
  <2> QED BY <2>1, <2>2, <2>3, AcceptCalm
<1>3. ASSUME NEW p \in Periods, Expired(p),
             Accept(r, [Idle EXCEPT !.op = "open", !.step = "close", !.period = p])
      PROVE  CInv'
  <2> DEFINE q == [Idle EXCEPT !.op = "open", !.step = "close", !.period = p]
  <2>1. q \in Request BY IdleIsRequest DEF Request, OpNames
  <2>2. q.op = "open" /\ q.step = "close" /\ q.period = p
    BY IdleIsRequest DEF Request
  <2>3. Accept(r, q) BY <1>3
  <2> HIDE DEF q
  <2>4. calm => Ready(q)
    BY <1>3, <2>2 DEF Ready, Expired, CInv, Reports, OneOpenPeriod
  <2> QED BY <2>1, <2>2, <2>3, <2>4, AcceptCalm
<1> QED BY <1>1, <1>2, <1>3 DEF BeginOpen

LEMMA BeginDocumentCalm ==
    ASSUME IInv, CInv, NEW r \in Requests, NEW k \in {"expense", "voucher", "transfer"},
           BeginDocument(r, k)
    PROVE  CInv'
<1>1. PICK p \in Periods, a \in Amounts :
         /\ Writable(p)
         /\ Accept(r, [Idle EXCEPT !.op = "create", !.step = "write",
                                   !.period = p, !.kind = k, !.amount = a])
  BY DEF BeginDocument
<1> DEFINE q == [Idle EXCEPT !.op = "create", !.step = "write",
                             !.period = p, !.kind = k, !.amount = a]
<1>2. a \in Nat /\ a # 0 BY BooksAssumption
<1>3. q \in Request BY <1>2, IdleIsRequest DEF Request, OpNames
<1>4. q.op = "create" /\ q.period = p /\ q.amount = a BY IdleIsRequest DEF Request
<1>5. Accept(r, q) BY <1>1
<1> HIDE DEF q
<1>6. Ready(q) BY <1>1, <1>4 DEF Ready, Writable
<1> QED BY <1>2, <1>3, <1>4, <1>5, <1>6, AcceptCalm

LEMMA BeginManualCalm ==
    ASSUME IInv, CInv, NEW r \in Requests, BeginManual(r)
    PROVE  CInv'
<1>1. PICK p \in Periods, a \in Amounts :
         Accept(r, [Idle EXCEPT !.op = "manual", !.step = "write",
                                !.period = p, !.amount = a])
  BY DEF BeginManual
<1> DEFINE q == [Idle EXCEPT !.op = "manual", !.step = "write",
                             !.period = p, !.amount = a]
<1>2. a \in Nat BY BooksAssumption
<1>3. q \in Request BY <1>2, IdleIsRequest DEF Request, OpNames
<1>4. q.op = "manual" BY IdleIsRequest DEF Request
<1>5. Accept(r, q) BY <1>1
<1> HIDE DEF q
<1> QED BY <1>3, <1>4, <1>5, FreeBeginCalm

LEMMA ExpenseBeginsCalm ==
    ASSUME IInv, CInv, NEW r \in Requests, BeginEdit(r) \/ BeginDelete(r)
    PROVE  CInv'
<1>1. ASSUME NEW d \in Docs, doc[d].kind = "expense", Writable(doc[d].period),
             NEW q \in Request, q.op \in {"edit", "delete"}, q.doc = d,
             q.op = "edit" => q.amount # 0, Accept(r, q)
      PROVE  CInv'
  <2>1. Ready(q) BY <1>1 DEF Ready, Writable
  <2> QED BY <1>1, <2>1, AcceptCalm
<1>2. CASE BeginEdit(r)
  <2>1. PICK d \in Docs, a \in Amounts :
           /\ doc[d].kind = "expense" /\ Writable(doc[d].period)
           /\ Accept(r, [Idle EXCEPT !.op = "edit", !.step = "write",
                                     !.doc = d, !.amount = a])
    BY <1>2 DEF BeginEdit
  <2> DEFINE q == [Idle EXCEPT !.op = "edit", !.step = "write",
                               !.doc = d, !.amount = a]
  <2>2. a \in Nat /\ a # 0 BY BooksAssumption
  <2>3. q \in Request BY <2>2, IdleIsRequest DEF Request, OpNames
  <2>4. q.op = "edit" /\ q.doc = d /\ q.amount = a BY IdleIsRequest DEF Request
  <2>5. Accept(r, q) BY <2>1
  <2> HIDE DEF q
  <2> QED BY <1>1, <2>1, <2>2, <2>3, <2>4, <2>5
<1>3. CASE BeginDelete(r)
  <2>1. PICK d \in Docs :
           /\ doc[d].kind = "expense" /\ Writable(doc[d].period)
           /\ Accept(r, [Idle EXCEPT !.op = "delete", !.step = "write", !.doc = d])
    BY <1>3 DEF BeginDelete
  <2> DEFINE q == [Idle EXCEPT !.op = "delete", !.step = "write", !.doc = d]
  <2>2. q \in Request BY IdleIsRequest DEF Request, OpNames
  <2>3. q.op = "delete" /\ q.doc = d BY IdleIsRequest DEF Request
  <2>4. Accept(r, q) BY <2>1
  <2> HIDE DEF q
  <2> QED BY <1>1, <2>1, <2>2, <2>3, <2>4
<1> QED BY <1>2, <1>3

LEMMA BeginCancelCalm ==
    ASSUME IInv, CInv, NEW r \in Requests, NEW k \in {"voucher", "transfer"},
           BeginCancel(r, k)
    PROVE  CInv'
<1>1. PICK d \in Docs :
         Accept(r, [Idle EXCEPT !.op = "cancel", !.step = "write", !.kind = k, !.doc = d])
  BY DEF BeginCancel
<1> DEFINE q == [Idle EXCEPT !.op = "cancel", !.step = "write", !.kind = k, !.doc = d]
<1>2. q \in Request BY IdleIsRequest DEF Request, OpNames
<1>3. q.op = "cancel" BY IdleIsRequest DEF Request
<1>4. Accept(r, q) BY <1>1
<1> HIDE DEF q
<1> QED BY <1>2, <1>3, <1>4, FreeBeginCalm

LEMMA BeginReverseCalm ==
    ASSUME IInv, CInv, NEW r \in Requests, BeginReverse(r)
    PROVE  CInv'
<1>1. PICK e \in Entries :
         Accept(r, [Idle EXCEPT !.op = "reverse", !.step = "write", !.id = e])
  BY DEF BeginReverse, PostedOf
<1> DEFINE q == [Idle EXCEPT !.op = "reverse", !.step = "write", !.id = e]
<1>2. q \in Request BY IdleIsRequest DEF Request, OpNames
<1>3. q.op = "reverse" BY IdleIsRequest DEF Request
<1>4. Accept(r, q) BY <1>1
<1> HIDE DEF q
<1> QED BY <1>2, <1>3, <1>4, FreeBeginCalm

\* What waits to be posted again has no entry, and the draft is its worth.
LEMMA BeginRepostCalm ==
    ASSUME IInv, CInv, NEW r \in Requests, BeginRepost(r)
    PROVE  CInv'
<1>1. PICK f \in Failures :
         /\ failure[f].status = "pending"
         /\ \E a \in Drafts(failure[f].doc) :
              Accept(r, [Idle EXCEPT !.op = "repost", !.step = "write", !.id = f,
                          !.doc = failure[f].doc,
                          !.period = doc[failure[f].doc].period, !.amount = a])
  BY DEF BeginRepost
<1>a. PICK a \in Drafts(failure[f].doc) :
         Accept(r, [Idle EXCEPT !.op = "repost", !.step = "write", !.id = f,
                          !.doc = failure[f].doc,
                          !.period = doc[failure[f].doc].period, !.amount = a])
  BY <1>1
<1>d. PICK d \in Docs : d = failure[f].doc
  BY <1>1 DEF IInv, Shape, FailureShape
<1> DEFINE p == doc[d].period
           q == [Idle EXCEPT !.op = "repost", !.step = "write", !.id = f,
                             !.doc = d, !.period = p, !.amount = a]
<1>3. /\ p \in Periods \union {NoPeriod} /\ doc[d].amount \in Nat
      /\ doc[d].kind \in {"none", "expense", "voucher", "transfer"}
  BY DEF IInv, Shape, DocShape
<1>4. a = doc[d].amount \/ a = 0
  BY <1>a, <1>d DEF Drafts, ExpenseDraft, VoucherDraft, TransferDraft
<1>5. doc[d].kind # "expense" => a = Worth(d)
  BY <1>a, <1>d DEF Drafts, VoucherDraft, TransferDraft, Worth
<1>6. Accept(r, q) BY <1>a, <1>d
<1>b. a \in Nat BY <1>3, <1>4
<1>c. p \in Periods \union {NoPeriod} BY <1>3
<1> HIDE DEF p
<1>7. q \in Request BY <1>1, <1>b, <1>c, IdleIsRequest DEF Request, OpNames
<1>8. q.op = "repost" /\ q.id = f /\ q.doc = d /\ q.amount = a
  BY IdleIsRequest DEF Request
<1> HIDE DEF q
<1>9. calm /\ doc[d].kind # "expense" => PostedOf(d) = {}
  BY <1>1, <1>d DEF CInv, AllTracked, Tracked, Awaited
<1>10. calm => Ready(q) BY <1>5, <1>8, <1>9, <1>d DEF Ready
<1> QED BY <1>6, <1>7, <1>8, <1>10, AcceptCalm

-----------------------------------------------------------------------------
LEMMA InitCalm == Init => CInv
<1> SUFFICES ASSUME Init PROVE CInv OBVIOUS
<1>1. NoPeriodRow \in Period BY DEF NoPeriodRow, Period
<1>2. Idle.op = "idle" BY IdleIsRequest
<1>3. /\ \A d \in Docs : doc[d] = NoDocRow
      /\ \A e \in Entries : journal[e] = NoEntry
      /\ \A f \in Failures : failure[f] = NoFailure
      /\ \A r \in Requests : req[r] = Idle
      /\ \A p \in Periods : period[p] = NoPeriodRow
  BY DEF Init
<1>4. Dated
  <2>1. 0 \in 0..MaxRequests BY BooksAssumption
  <2>2. period \in [Periods -> Period] BY <1>1 DEF Init
  <2> QED BY <1>2, <1>3, <2>1, <2>2 DEF Init, Dated, NoDocRow
<1>5. Blank BY <1>3 DEF Blank, BlankIn, NoEntry, NoFailure
<1>6. Reports
  BY <1>2, <1>3 DEF Reports, OneOpenPeriod, FrozenIsTrue, Open, Ready, NoPeriodRow
<1>7. ASSUME NEW d \in Docs PROVE Tracked(d)
  <2>1. PostedOf(d) = {} BY <1>3 DEF PostedOf, NoEntry
  <2>2. ~EverFailed(d) /\ \A e \in Entries : journal[e].doc # d
    BY <1>3, BooksAssumption DEF EverFailed, NoEntry, NoFailure
  <2> QED BY <1>3, <2>1, <2>2 DEF Tracked, Booked, Active, NoDocRow, EverFailed
<1> QED BY <1>4, <1>5, <1>6, <1>7 DEF CInv, AllTracked

LEMMA StepCalm == IInv /\ CInv /\ [Next]_vars => CInv'
<1> SUFFICES ASSUME IInv, CInv, [Next]_vars PROVE CInv' OBVIOUS
<1>1. ASSUME NEW r \in Requests, Step(r) PROVE CInv'
  <2>1. CASE BeginOpen(r) \/ BeginClose(r) \/ BeginAutoClose(r)
    BY <2>1, PeriodBeginsCalm
  <2>2. CASE CommitOpen(r) \/ CommitClose(r) \/ CommitAutoClose(r)
    BY <2>2, PeriodCommitsCalm
  <2>3. CASE CloseStale(r) BY <2>3, CloseStaleCalm
  <2>4. CASE BeginExpense(r) \/ BeginVoucher(r) \/ BeginTransfer(r)
    BY <2>4, BeginDocumentCalm DEF BeginExpense, BeginVoucher, BeginTransfer
  <2>5. CASE CommitExpense(r) \/ CommitVoucher(r) \/ CommitTransfer(r)
    BY <2>5, CreateCalm
  <2>6. CASE BeginEdit(r) \/ BeginDelete(r) BY <2>6, ExpenseBeginsCalm
  <2>7. CASE CommitEdit(r) BY <2>7, EditCalm
  <2>8. CASE CommitDelete(r) BY <2>8, DeleteCalm
  <2>9. CASE BeginCancelVoucher(r) \/ BeginCancelTransfer(r)
    BY <2>9, BeginCancelCalm DEF BeginCancelVoucher, BeginCancelTransfer
  <2>10. CASE CommitCancelVoucher(r) \/ CommitCancelTransfer(r)
    BY <2>10, CancelCalm DEF CommitCancelVoucher, CommitCancelTransfer
  <2>11. CASE BeginManual(r) BY <2>11, BeginManualCalm
  <2>12. CASE BeginReverse(r) BY <2>12, BeginReverseCalm
  <2>13. CASE CommitManual(r) \/ CommitReverse(r) BY <2>13, ManualCalm
  <2>14. CASE BeginRepost(r) BY <2>14, BeginRepostCalm
  <2>15. CASE CommitRepost(r) BY <2>15, RepostCalm
  <2>16. CASE Abort(r) BY <2>16, AsideCalm
  <2> QED BY <1>1, <2>1, <2>2, <2>3, <2>4, <2>5, <2>6, <2>7, <2>8, <2>9, <2>10,
             <2>11, <2>12, <2>13, <2>14, <2>15, <2>16 DEF Step
<1>2. CASE IgnoreFailure BY <1>2, IgnoreFailureCalm
<1>3. CASE PeriodEnds \/ UNCHANGED vars BY <1>3, AsideCalm
<1> QED BY <1>1, <1>2, <1>3 DEF Next

\* What every reachable state satisfies as long as requests come one by one
\* (accountingPeriodService, expensesService, voucherService, gl).
THEOREM CalmInvariant == Spec => [](IInv /\ CInv)
<1>1. Init => IInv /\ CInv BY InitHolds, InitCalm
<1>2. (IInv /\ CInv) /\ [Next]_vars => (IInv /\ CInv)' BY StepKeeps, StepCalm
<1> QED BY <1>1, <1>2, PTL DEF Spec

\* While requests do not overlap, a scope has one open period and the
\* expenses frozen in the report of a closed one are those that are stamped
\* with it (accountingPeriodService).
THEOREM ReportsCanBeTrusted == Spec => []PeriodsReliable
<1>1. ASSUME IInv, CInv PROVE PeriodsReliable
  <2>1. doc \in [Docs -> Doc]
    <3>1. \A d \in Docs : doc[d] \in Doc
      BY <1>1 DEF IInv, Shape, CInv, Dated, DocShape, Doc
    <3> QED BY <1>1, <3>1 DEF IInv, Shape
  <2>2. failure \in [Failures -> Failure]
    BY <1>1 DEF IInv, Shape, FailureShape
  <2>3. TypeOK BY <1>1, <2>1, <2>2 DEF IInv, Shape, CInv, Dated, TypeOK
  <2> QED BY <1>1, <2>3 DEF CInv, Reports, PeriodsReliable
<1> QED BY <1>1, CalmInvariant, PTL

\* While requests do not overlap, what the ledger holds of a document is
\* what the document is worth, or the list of failed postings says that it
\* is not (glPostingService, journalService).
THEOREM LedgerFollowsDocuments == Spec => []DriftOnRecord
<1>1. ASSUME IInv, CInv PROVE DriftOnRecord
  <2>1. ASSUME calm, NEW d \in Docs
        PROVE  \/ Net(d) = Worth(d)
               \/ Unresolved(d)
               \/ doc[d].kind = "expense" /\ EverFailed(d)
    <3>1. Tracked(d) BY <1>1, <2>1 DEF CInv, AllTracked
    <3>2. Booked(d) => Net(d) = Worth(d)
      BY <1>1, NetOfBooked DEF IInv, CInv
    <3> QED BY <3>1, <3>2 DEF Tracked
  <2> QED BY <2>1 DEF DriftOnRecord
<1> QED BY <1>1, CalmInvariant, PTL

=============================================================================
