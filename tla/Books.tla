------------------------------- MODULE Books -------------------------------
(***************************************************************************)
(* Accounting periods, money documents and the general ledger, with the    *)
(* features accountingPeriods, treasury and generalLedger switched on      *)
(* (accountingPeriodService, expensesService, voucherService,              *)
(* treasuryService, gl/glPostingService, gl/journalService).               *)
(*                                                                         *)
(* A writer first looks up, outside any transaction, the open period it    *)
(* will stamp on its document, or asserts that the period of an existing   *)
(* document is still open.  Its transaction then writes the document, the  *)
(* voucher minted for it, the reversal of its ledger entry and the new     *)
(* entry.  Posting has a failure valve: an entry that cannot be built      *)
(* leaves a gl_posting_failures row and the document commits without it,   *)
(* to be posted again later by hand.                                       *)
(*                                                                         *)
(* One scope (branch).  An entry is its amount; its balanced lines are not *)
(* modelled.  A mirror entry ("reversal") is counted on the entry it       *)
(* reverses.  Reversals are mirrors of entries that were accepted once and *)
(* are taken not to fail.                                                  *)
(***************************************************************************)
EXTENDS Integers, Sums

CONSTANTS
    Periods,        \* ids of accounting_periods rows
    NoPeriod,       \* the period of a request that concerns none
    Docs,           \* ids of expenses, vouchers and treasury transfers
    NoDoc,          \* the document of a manual entry
    Entries,        \* ids of journal_entries rows
    Failures,       \* ids of gl_posting_failures rows
    NoId,           \* a request that concerns no entry or failure
    Requests,       \* HTTP requests and jobs in flight at the same time
    Kinds,          \* the documents the clients of this instance write
    Amounts,        \* amounts they ask for
    MaxRequests     \* bound: requests accepted over a behaviour

ASSUME BooksAssumption ==
    /\ IsFiniteSet(Docs) /\ IsFiniteSet(Entries)
    /\ NoPeriod \notin Periods
    /\ NoDoc \notin Docs
    /\ NoId \notin Entries \union Failures
    /\ Kinds \subseteq {"expense", "voucher", "transfer"}
    /\ Amounts \subseteq Nat \ {0}
    /\ MaxRequests \in Nat

VARIABLES
    period,         \* accounting_periods with the frozen report snapshot
    doc,            \* the document with the voucher minted for it
    journal,        \* journal_entries
    failure,        \* gl_posting_failures
    req,            \* what each request in flight has read so far
    handled,        \* requests accepted so far, capped by MaxRequests
    calm            \* no two requests have overlapped, no close has failed

books == <<period, doc, journal, failure>>
vars == <<period, doc, journal, failure, req, handled, calm>>

\* due: ends_at has passed; frozen: the expenses of the report snapshot.
Period == [status : {"absent", "open", "closed"}, auto : BOOLEAN,
           due : BOOLEAN, frozen : Nat, reason : {"none", "manual", "auto"}]
\* voucher and paid: the status and amount of the voucher of an expense.
\* With the feature on, every document that was written carries a period.
Doc == {row \in [kind : {"none", "expense", "voucher", "transfer"},
                 status : {"absent", "active", "cancelled", "deleted"},
                 period : Periods \union {NoPeriod}, amount : Nat,
                 voucher : {"none", "active", "cancelled"}, paid : Nat] :
            row.status # "absent" => row.period \in Periods}
Entry == [status : {"absent", "posted", "reversed"}, doc : Docs \union {NoDoc},
          period : Periods \union {NoPeriod}, amount : Nat, mirrors : Nat]
Failure == [status : {"absent", "pending", "resolved", "ignored"},
            doc : Docs \union {NoDoc}]

OpNames == {"open", "close", "autoClose", "create", "edit", "delete", "cancel",
            "manual", "reverse", "repost"}
Request == [op : OpNames \union {"idle"}, step : {"idle", "close", "write"},
            period : Periods \union {NoPeriod}, doc : Docs \union {NoDoc},
            id : Entries \union Failures \union {NoId},
            kind : {"none", "expense", "voucher", "transfer"}, amount : Nat]

NoPeriodRow == [status |-> "absent", auto |-> FALSE, due |-> FALSE,
                frozen |-> 0, reason |-> "none"]
NoDocRow == [kind |-> "none", status |-> "absent", period |-> NoPeriod,
             amount |-> 0, voucher |-> "none", paid |-> 0]
NoEntry == [status |-> "absent", doc |-> NoDoc, period |-> NoPeriod,
            amount |-> 0, mirrors |-> 0]
NoFailure == [status |-> "absent", doc |-> NoDoc]
Idle == [op |-> "idle", step |-> "idle", period |-> NoPeriod, doc |-> NoDoc,
         id |-> NoId, kind |-> "none", amount |-> 0]

-----------------------------------------------------------------------------
(* Requests *)

\* A request arrives, passes the checks of its read phase and keeps what it
\* read.  Overlapping with another request ends the calm.
Accept(r, request) ==
    /\ req[r] = Idle
    /\ handled < MaxRequests
    /\ handled' = handled + 1
    /\ req' = [req EXCEPT ![r] = request]
    /\ calm' = (calm /\ \A other \in Requests \ {r} : req[other] = Idle)
    /\ UNCHANGED books

\* The request's transaction commits.
Finish(r, op) ==
    /\ req[r].op = op
    /\ req[r].step = "write"
    /\ req' = [req EXCEPT ![r] = Idle]
    /\ UNCHANGED <<handled, calm>>

\* A check outside this module fails, a statement throws, or the process
\* ends before COMMIT.
Abort(r) ==
    /\ req[r] # Idle
    /\ req' = [req EXCEPT ![r] = Idle]
    /\ UNCHANGED <<books, handled, calm>>

-----------------------------------------------------------------------------
(* Accounting periods *)

Open(p) == period[p].status = "open"

\* #isPeriodExpired, evaluated by the database.
Expired(p) == Open(p) /\ period[p].auto /\ period[p].due

\* A writer may use, or change a document of, an open period that has not
\* expired; meeting an expired one it closes it (BeginAutoClose) and refuses.
Writable(p) == Open(p) /\ ~Expired(p)

\* The expenses a snapshot adds up: the rows stamped with the period.
SpentIn(p) ==
    SumOver([d \in Docs |-> doc[d].amount],
        {d \in Docs : doc[d].kind = "expense" /\ doc[d].status = "active"
                        /\ doc[d].period = p})

\* open(): refused while a usable period is open; an expired one is closed
\* first (step "close").  With several open rows the look-up finds any.
BeginOpen(r) ==
    \/ /\ \A p \in Periods : ~Open(p)
       /\ Accept(r, [Idle EXCEPT !.op = "open", !.step = "write"])
    \/ \E p \in Periods :
        /\ Expired(p)
        /\ Accept(r, [Idle EXCEPT !.op = "open", !.step = "close", !.period = p])

CloseUnchecked(p, why) ==  \* mutant: the status is not read again under the lock
    period' = [period EXCEPT ![p].status = "closed", ![p].frozen = SpentIn(p),
                             ![p].reason = why]

\* #performClose: the row is locked and read again; one that is closed by
\* now stays as it is.
PerformClose(p, why) ==
    period' = IF Open(p)
                THEN [period EXCEPT ![p].status = "closed", ![p].frozen = SpentIn(p),
                                    ![p].reason = why]
                ELSE period

\* autoCloseExpiredPeriod never throws: the opening goes on either way.
CloseStale(r) ==
    /\ req[r].op = "open"
    /\ req[r].step = "close"
    /\ req' = [req EXCEPT ![r].step = "write", ![r].period = NoPeriod]
    /\ \/ PerformClose(req[r].period, "auto") /\ UNCHANGED calm
       \/ calm' = FALSE /\ UNCHANGED period
    /\ UNCHANGED <<doc, journal, failure, handled>>

\* The INSERT meets no unique index: none of the migrations creates the
\* partial one that the schema's comment mentions.
CommitOpen(r) ==
    \E p \in Periods, auto \in BOOLEAN :
        /\ Finish(r, "open")
        /\ period[p].status = "absent"
        /\ period' = [period EXCEPT ![p] =
                        [NoPeriodRow EXCEPT !.status = "open", !.auto = auto]]
        /\ UNCHANGED <<doc, journal, failure>>

\* A period's end time passes.
PeriodEnds ==
    \E p \in Periods :
        /\ Open(p)
        /\ ~period[p].due
        /\ period' = [period EXCEPT ![p].due = TRUE]
        /\ UNCHANGED <<doc, journal, failure, req, handled, calm>>

\* close(), by a manager.
BeginClose(r) ==
    \E p \in Periods :
        /\ Open(p)
        /\ Accept(r, [Idle EXCEPT !.op = "close", !.step = "write", !.period = p])

\* The sweep of the job, of the boot and of list(), and every look-up that
\* meets an expired period.
BeginAutoClose(r) ==
    \E p \in Periods :
        /\ Expired(p)
        /\ Accept(r, [Idle EXCEPT !.op = "autoClose", !.step = "write", !.period = p])

CommitClose(r) ==
    /\ Finish(r, "close")
    /\ PerformClose(req[r].period, "manual")
    /\ UNCHANGED <<doc, journal, failure>>

CommitAutoClose(r) ==
    /\ Finish(r, "autoClose")
    /\ PerformClose(req[r].period, "auto")
    /\ UNCHANGED <<doc, journal, failure>>

-----------------------------------------------------------------------------
(* Posting to the general ledger *)

PostedOf(d) == {e \in Entries : journal[e].status = "posted" /\ journal[e].doc = d}

PostInto(j, d, p, a, e) ==
    [j EXCEPT ![e] = [NoEntry EXCEPT !.status = "posted", !.doc = d,
                                     !.period = p, !.amount = a]]

PostOrForget(j, d, p, a) ==  \* mutant: a failure leaves no record
    /\ \/ \E e \in Entries :
            j[e].status = "absent" /\ journal' = PostInto(j, d, p, a, e)
       \/ journal' = j
    /\ UNCHANGED failure

\* postDocument: the entry, or (unmapped account, unbalanced lines) a
\* failure row in the same transaction.  There is no unique index on
\* either table.
PostDocument(j, d, p, a) ==
    \/ /\ \E e \in Entries :
            j[e].status = "absent" /\ journal' = PostInto(j, d, p, a, e)
       /\ UNCHANGED failure
    \/ /\ \E f \in Failures :
            /\ failure[f].status = "absent"
            /\ failure' = [failure EXCEPT ![f] = [status |-> "pending", doc |-> d]]
       /\ journal' = j

MirrorOnly(e) == [journal EXCEPT ![e].mirrors = @ + 1]  \* mutant: stays posted

\* A mirrored entry is inserted and the original marked.
Mirror(e) ==
    [journal EXCEPT ![e].mirrors = @ + 1, ![e].status = "reversed"]

\* reverseEntry: one posted entry of the document (LIMIT 1), if there is any.
Reversals(d) ==
    IF PostedOf(d) = {} THEN {journal} ELSE {Mirror(e) : e \in PostedOf(d)}

-----------------------------------------------------------------------------
(* Documents *)

Active(d) == doc[d].status = "active"

\* The look-up of an open period that a new document will be stamped with.
BeginDocument(r, k) ==
    \E p \in Periods, a \in Amounts :
        /\ k \in Kinds
        /\ Writable(p)
        /\ Accept(r, [Idle EXCEPT !.op = "create", !.step = "write",
                                  !.period = p, !.kind = k, !.amount = a])

\* Expenses, manual vouchers and treasury transfers all require one.
BeginExpense(r) == BeginDocument(r, "expense")
BeginVoucher(r) == BeginDocument(r, "voucher")
BeginTransfer(r) == BeginDocument(r, "transfer")

\* The row a request writes, before anything is minted for it.
Written(t) ==
    [NoDocRow EXCEPT !.kind = t.kind, !.status = "active", !.period = t.period,
                     !.amount = t.amount]

\* mintForExpense: the payment voucher, in the expense's transaction.
Minted(row) == [row EXCEPT !.voucher = "active", !.paid = row.amount]

\* The insert of a row, and its posting, in one transaction.
Insert(r, k, row) ==
    \E d \in Docs :
        /\ Finish(r, "create")
        /\ req[r].kind = k
        /\ doc[d].status = "absent"
        /\ doc' = [doc EXCEPT ![d] = row]
        /\ PostDocument(journal, d, req[r].period, req[r].amount)
        /\ UNCHANGED period

CommitExpense(r) == Insert(r, "expense", Minted(Written(req[r])))
CommitVoucher(r) == Insert(r, "voucher", Written(req[r]))
CommitTransfer(r) == Insert(r, "transfer", Written(req[r]))

EditAnywhere(r) ==  \* mutant: the period is not asserted writable
    \E d \in Docs, a \in Amounts :
        /\ doc[d].kind = "expense"
        /\ Active(d)
        /\ Accept(r, [Idle EXCEPT !.op = "edit", !.step = "write",
                                  !.doc = d, !.amount = a])

\* expensesService.update reads the expense and asserts its period.
BeginEdit(r) ==
    \E d \in Docs, a \in Amounts :
        /\ doc[d].kind = "expense"
        /\ Active(d)
        /\ Writable(doc[d].period)
        /\ Accept(r, [Idle EXCEPT !.op = "edit", !.step = "write",
                                  !.doc = d, !.amount = a])

\* The update of a deleted row returns none and the handler throws.
CommitEdit(r) ==
    LET d == req[r].doc
        a == req[r].amount
    IN  /\ Finish(r, "edit")
        /\ Active(d)
        /\ doc' = [doc EXCEPT ![d].amount = a, ![d].paid = a]
        /\ \E j \in Reversals(d) : PostDocument(j, d, doc[d].period, a)
        /\ UNCHANGED period

BeginDelete(r) ==
    \E d \in Docs :
        /\ doc[d].kind = "expense"
        /\ Active(d)
        /\ Writable(doc[d].period)
        /\ Accept(r, [Idle EXCEPT !.op = "delete", !.step = "write", !.doc = d])

DeletedAlone(row) == [row EXCEPT !.status = "deleted"]  \* mutant: voucher stays

\* cancelForSource cancels the minted voucher before the row goes.
Deleted(row) == [row EXCEPT !.status = "deleted", !.voucher = "cancelled"]

CommitDelete(r) ==
    LET d == req[r].doc
    IN  /\ Finish(r, "delete")
        /\ doc' = [doc EXCEPT ![d] = Deleted(@)]
        /\ journal' \in Reversals(d)
        /\ UNCHANGED <<period, failure>>

\* A cancellation reads the document as active and asserts its period.
BeginCancel(r, k) ==
    \E d \in Docs :
        /\ doc[d].kind = k
        /\ Active(d)
        /\ Writable(doc[d].period)
        /\ Accept(r, [Idle EXCEPT !.op = "cancel", !.step = "write",
                                  !.kind = k, !.doc = d])

\* Only manual vouchers: a minted one goes with its source document.
BeginCancelVoucher(r) == BeginCancel(r, "voucher")
BeginCancelTransfer(r) == BeginCancel(r, "transfer")

\* The status is written without looking at it again.
Cancel(r, k) ==
    LET d == req[r].doc
    IN  /\ Finish(r, "cancel")
        /\ req[r].kind = k
        /\ doc' = [doc EXCEPT ![d].status = "cancelled"]
        /\ journal' \in Reversals(d)
        /\ UNCHANGED <<period, failure>>

CommitCancelVoucher(r) == Cancel(r, "voucher")
CommitCancelTransfer(r) == Cancel(r, "transfer")

-----------------------------------------------------------------------------
(* Manual entries, and the repair of failed postings *)

BeginManual(r) ==
    \E p \in Periods, a \in Amounts :
        /\ Writable(p)
        /\ Accept(r, [Idle EXCEPT !.op = "manual", !.step = "write",
                                  !.period = p, !.amount = a])

\* createManual has no failure valve: it posts or throws.
CommitManual(r) ==
    \E e \in Entries :
        /\ Finish(r, "manual")
        /\ journal[e].status = "absent"
        /\ journal' = PostInto(journal, NoDoc, req[r].period, req[r].amount, e)
        /\ UNCHANGED <<period, doc, failure>>

BeginReverse(r) ==
    \E e \in PostedOf(NoDoc) :
        /\ Writable(journal[e].period)
        /\ Accept(r, [Idle EXCEPT !.op = "reverse", !.step = "write", !.id = e])

\* reverseManual mirrors the entry it read as posted, whatever it is now.
CommitReverse(r) ==
    /\ Finish(r, "reverse")
    /\ journal' = Mirror(req[r].id)
    /\ UNCHANGED <<period, doc, failure>>

\* The rules' drafts: an expense that is gone cannot be built (the rule
\* throws), a cancelled voucher or transfer has nothing to post (0).
ExpenseDraft(d) == IF Active(d) THEN {doc[d].amount} ELSE {}
VoucherDraft(d) == {IF Active(d) THEN doc[d].amount ELSE 0}
TransferDraft(d) == {IF Active(d) THEN doc[d].amount ELSE 0}
Drafts(d) == IF doc[d].kind = "expense" THEN ExpenseDraft(d)
             ELSE IF doc[d].kind = "voucher" THEN VoucherDraft(d) ELSE TransferDraft(d)

\* repostFailed reads the failure outside its transaction and builds the
\* entry from the document as it is; a throw leaves the failure pending.
BeginRepost(r) ==
    \E f \in {f \in Failures : failure[f].status = "pending"} :
      \E a \in Drafts(failure[f].doc) :
        Accept(r, [Idle EXCEPT !.op = "repost", !.step = "write", !.id = f,
                        !.doc = failure[f].doc,
                        !.period = doc[failure[f].doc].period, !.amount = a])

CommitRepost(r) ==
    LET t == req[r]
    IN  /\ Finish(r, "repost")
        /\ IF t.amount = 0
             THEN UNCHANGED journal
             ELSE \E e \in Entries :
                    /\ journal[e].status = "absent"
                    /\ journal' = PostInto(journal, t.doc, t.period, t.amount, e)
        /\ failure' = [failure EXCEPT ![t.id].status = "resolved"]
        /\ UNCHANGED <<period, doc>>

\* ignoreFailure updates the row whatever its status.
IgnoreFailure ==
    \E f \in Failures :
        /\ failure[f].status \notin {"absent", "ignored"}
        /\ failure' = [failure EXCEPT ![f].status = "ignored"]
        /\ UNCHANGED <<period, doc, journal, req, handled, calm>>

-----------------------------------------------------------------------------

Init ==
    /\ period = [p \in Periods |-> NoPeriodRow]
    /\ doc = [d \in Docs |-> NoDocRow]
    /\ journal = [e \in Entries |-> NoEntry]
    /\ failure = [f \in Failures |-> NoFailure]
    /\ req = [r \in Requests |-> Idle]
    /\ handled = 0
    /\ calm = TRUE

Step(r) ==
    \/ BeginOpen(r)      \/ CloseStale(r)  \/ CommitOpen(r)
    \/ BeginClose(r)     \/ CommitClose(r)
    \/ BeginAutoClose(r) \/ CommitAutoClose(r)
    \/ BeginExpense(r)   \/ CommitExpense(r)
    \/ BeginVoucher(r)   \/ CommitVoucher(r)
    \/ BeginTransfer(r)  \/ CommitTransfer(r)
    \/ BeginEdit(r)      \/ CommitEdit(r)
    \/ BeginDelete(r)    \/ CommitDelete(r)
    \/ BeginCancelVoucher(r)  \/ CommitCancelVoucher(r)
    \/ BeginCancelTransfer(r) \/ CommitCancelTransfer(r)
    \/ BeginManual(r)    \/ CommitManual(r)
    \/ BeginReverse(r)   \/ CommitReverse(r)
    \/ BeginRepost(r)    \/ CommitRepost(r)
    \/ Abort(r)

Next == PeriodEnds \/ IgnoreFailure \/ \E r \in Requests : Step(r)

Spec == Init /\ [][Next]_vars

-----------------------------------------------------------------------------
(* Properties of every interleaving *)

TypeOK ==
    /\ period \in [Periods -> Period]
    /\ doc \in [Docs -> Doc]
    /\ journal \in [Entries -> Entry]
    /\ failure \in [Failures -> Failure]
    /\ req \in [Requests -> Request]
    /\ handled \in 0..MaxRequests
    /\ calm \in BOOLEAN

\* "Two concurrent closes can't both win": the manager, the sweep and every
\* look-up race to close a period, and a writer that passed its check may
\* still commit into it; once closed a period stays closed and the report
\* frozen for it is never computed again.
ClosedForGood ==
    [][\A p \in Periods : period[p].status = "closed" => period'[p] = period[p]]_vars

\* "So the cashbox balance always mirrors the expense": whatever edits and
\* deletions race, a standing expense has an active voucher of its amount
\* and a deleted one has none.
VoucherMirrorsExpense ==
    \A d \in Docs : doc[d].kind = "expense" =>
        IF Active(d) THEN doc[d].voucher = "active" /\ doc[d].paid = doc[d].amount
                     ELSE doc[d].voucher = "cancelled"

\* An entry of a document is mirrored once at most, and marked reversed with
\* it; of a manual entry that is only true as long as requests do not
\* overlap, because its reversal is not guarded.
ReversedOnce ==
    \A e \in Entries :
        journal[e].doc # NoDoc \/ calm =>
            journal[e].mirrors = (IF journal[e].status = "reversed" THEN 1 ELSE 0)

-----------------------------------------------------------------------------
(* Properties of calm: no overlap so far, no automatic close has failed *)

\* The schema: "Exactly one OPEN period per scope".
OneOpenPeriod ==
    calm => \A p, q \in Periods : Open(p) /\ Open(q) => p = q

\* The frozen report of a closed period stays true to the expenses that are
\* stamped with it: nothing lands in, leaves or changes inside it.
FrozenIsTrue ==
    calm => \A p \in Periods :
                period[p].status = "closed" => period[p].frozen = SpentIn(p)

\* The periods of a scope can be relied upon: one is open, and what the
\* closed ones report stays true.
PeriodsReliable == TypeOK /\ OneOpenPeriod /\ FrozenIsTrue

\* What the ledger holds of a document: entries less their mirrors.
Net(d) ==
    SumOver([e \in Entries |-> (1 - journal[e].mirrors) * journal[e].amount],
            {e \in Entries : journal[e].doc = d})
Worth(d) == IF Active(d) THEN doc[d].amount ELSE 0

Unresolved(d) ==
    \E f \in Failures : failure[f].doc = d /\ failure[f].status \in {"pending", "ignored"}
EverFailed(d) == \E f \in Failures : failure[f].doc = d

\* The ledger says what the documents say, or the failure list says that it
\* does not.  For an expense a resolved failure is enough to doubt it: an
\* edit posts the expense and the repost of its old failure posts it again.
DriftOnRecord ==
    calm => \A d \in Docs :
        \/ Net(d) = Worth(d)
        \/ Unresolved(d)
        \/ doc[d].kind = "expense" /\ EverFailed(d)
=============================================================================
