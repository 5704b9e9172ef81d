------------------------------ MODULE Payments ------------------------------
(***************************************************************************)
(* The payment registry of a node (vls-core node.rs NodeState): the        *)
(* invoices and keysends approved for payment, the invoices issued, and    *)
(* for every payment hash what each channel's commitments carry in and     *)
(* out.  A payment is approved once (Preapprove), its HTLCs then appear in *)
(* commitments of several channels (SignCounterparty, ValidateHolder,      *)
(* Revoke), and heartbeats prune what has ended.  A restart rebuilds the   *)
(* registry from the persisted node state and the channels' commitments.   *)
(*                                                                         *)
(* Amounts are in one unit.  The balance register (excess_amount) is not   *)
(* modelled: enforce_balance is off in every policy the code ships.        *)
(***************************************************************************)
EXTENDS Velocity, Integers, FiniteSetsExt

CONSTANTS
    None,
    Channels, Hashes,
    Requests,       \* payments the node may ask approval for
    InHtlcs,        \* HTLCs a peer may offer, [amt, cltv]
    OutHtlcs,       \* HTLCs the node may offer
    IssuedAmount,   \* amount of the invoices the node issues
    MaxFee,         \* policy.max_routing_fee_msat
    MaxFeePercent,  \* policy.max_feerate_percentage
    CltvDelta,      \* policy.cltv_delta
    MaxInvoices,    \* policy.max_invoices
    NodeLimit,      \* limit of the node's velocity control
    ApproverLimit,  \* limit of the VelocityApprover
    KeysendExpiry, InvoicePruneTime, MinInvoiceExpiry, IssuedExpiry,
    Ordered,        \* the node updates commitments in the order of BOLT 2
    MaxTime, MaxSetbacks, MaxRestarts

VARIABLES
    now,        \* the clock
    setbacks,   \* times the clock was set back
    invoices,   \* NodeState.invoices
    issued,     \* NodeState.issued_invoices
    payments,   \* NodeState.payments
    control,    \* NodeState.velocity_control
    approver,   \* the VelocityApprover's control
    memo,       \* the MemoApprover's approvals
    commits,    \* current and next commitments of every channel, as persisted
    ledger,       \* the node state last persisted
    restarts,
    settled,    \* hashes whose preimage was disclosed
    spent,      \* amounts added to the node's control, per second
    auto        \* amounts the approver let through, per second

payVars == <<now, setbacks, invoices, issued, payments, control, approver, memo,
             commits, ledger, restarts, settled, spent, auto>>
chainVars == <<commits, settled, restarts>>
timeVars == <<now, setbacks>>
approvalVars == <<control, approver, memo, spent, auto>>

NoHtlcs == [in |-> [h \in Hashes |-> {}], out |-> [h \in Hashes |-> {}]]
Infos == [in : [Hashes -> SUBSET InHtlcs], out : [Hashes -> SUBSET OutHtlcs]]

NewPayment == [in |-> [c \in Channels |-> 0], out |-> [c \in Channels |-> 0],
               inMin |-> None, outMax |-> None, pre |-> FALSE]

Sum(f) == MapThenSumSet(LAMBDA c : f[c], Channels)
Amount(htlcs) == MapThenSumSet(LAMBDA x : x.amt, htlcs)
Smaller(a, b) == IF a < b THEN a ELSE b
Larger(a, b) == IF a > b THEN a ELSE b

-----------------------------------------------------------------------------
(* What a channel carries: the larger of the two commitments for outgoing, *)
(* the smaller for incoming, which counts only once it is in both.         *)

Outgoing(hold, cp, h) == Larger(Amount(hold.out[h]), Amount(cp.out[h]))

Incoming(hold, cp, h) ==
    IF hold.in[h] = {} \/ cp.in[h] = {}
    THEN 0
    ELSE Smaller(Amount(hold.in[h]), Amount(cp.in[h]))

(* The hashes of a summary: those of the new pair of commitments, and      *)
(* those of the current pair, which count zero once they are gone.         *)
Mentioned(c, hold, cp) ==
    {h \in Hashes : \/ hold.out[h] # {} \/ cp.out[h] # {}
                    \/ hold.in[h] # {} /\ cp.in[h] # {}
                    \/ \E i \in {commits[c].hold, commits[c].cp} :
                          i.in[h] # {} \/ i.out[h] # {}}

(* updated_incoming_outgoing                                               *)
Total(p, dir, c, new) ==
    IF p = None THEN new ELSE Sum([p[dir] EXCEPT ![c] = new])

(* validate_payment_balance, with the exception for an uninvoiced payment  *)
(* that is already known.                                                  *)
Overpays(in, out, invoice) ==
    \/ in + (IF invoice = None THEN 0 ELSE invoice.amount + MaxFee) < out
    \/ /\ invoice # None
       /\ invoice.amount + in <= out
       /\ ((out - invoice.amount - in) * 100) \div Larger(invoice.amount, 1) > MaxFeePercent

CltvOk(p) ==
    (p.inMin # None /\ p.outMax # None) =>
      (p.inMin > p.outMax /\ p.inMin - p.outMax >= CltvDelta)

(* A bug that checks a channel's payments alone, without the other         *)
(* channels' part of the same payment.                                     *)
PaymentValidAlone(c, hold, cp, h) ==
    /\ payments[h] # None => CltvOk(payments[h])
    /\ Overpays(Incoming(hold, cp, h), Outgoing(hold, cp, h), invoices[h])
         => payments[h] # None /\ invoices[h] = None

PaymentValid(c, hold, cp, h) ==
    /\ payments[h] # None => CltvOk(payments[h])
    /\ Overpays(Total(payments[h], "in", c, Incoming(hold, cp, h)),
                Total(payments[h], "out", c, Outgoing(hold, cp, h)), invoices[h])
         => payments[h] # None /\ invoices[h] = None

PaymentsValid(c, hold, cp) ==
    \A h \in Mentioned(c, hold, cp) : PaymentValid(c, hold, cp, h)

Tightest(old, cltvs, Choice(_)) ==
    IF cltvs = {} THEN old ELSE Choice(cltvs \cup ({old} \ {None}))

(* RoutedPayment::apply                                                    *)
AppliedInfos(p, c, hold, cp, info, h) ==
    [p EXCEPT !.in[c] = Incoming(hold, cp, h),
              !.out[c] = Outgoing(hold, cp, h),
              !.inMin = Tightest(p.inMin, {x.cltv : x \in info.in[h]}, Min),
              !.outMax = Tightest(p.outMax, {x.cltv : x \in info.out[h]}, Max)]

OrNew(p) == IF p = None THEN NewPayment ELSE p

(* An issued invoice is fulfilled once more comes in than it asks.         *)
IssuedPaid(c, hold, cp, h) ==
    /\ issued[h] # None
    /\ ~OrNew(payments[h]).pre
    /\ Total(payments[h], "in", c, Incoming(hold, cp, h))
         >= Total(payments[h], "out", c, Outgoing(hold, cp, h)) + issued[h].amount

ApplyPayments(c, hold, cp, info) ==
    LET touched == Mentioned(c, hold, cp)
    IN  /\ payments' = [h \in Hashes |->
                          IF h \in touched
                          THEN AppliedInfos(OrNew(payments[h]), c, hold, cp, info, h)
                          ELSE payments[h]]
        /\ issued' = [h \in Hashes |->
                        IF h \in touched /\ IssuedPaid(c, hold, cp, h)
                        THEN [issued[h] EXCEPT !.done = TRUE]
                        ELSE issued[h]]

-----------------------------------------------------------------------------
(* The channel operations that move payments.                              *)

InOrder(hold, cp) ==
    Ordered => \A h \in Hashes : cp.in[h] \subseteq hold.in[h] /\ hold.out[h] \subseteq cp.out[h]

NextOr(c) == IF commits[c].next = None THEN commits[c].hold ELSE commits[c].next

(* sign_counterparty_commitment_tx_phase2: validated and applied at once.  *)
SignCounterparty(c, info) ==
    /\ InOrder(commits[c].hold, info) /\ InOrder(NextOr(c), info)
    /\ info # commits[c].cp
    /\ PaymentsValid(c, commits[c].hold, info)
    /\ ApplyPayments(c, commits[c].hold, info, info)
    /\ commits' = [commits EXCEPT ![c].cp = info]
    /\ UNCHANGED <<timeVars, invoices, approvalVars, ledger, restarts, settled>>

(* validate_holder_commitment_tx_phase2: validated, applied by Revoke.     *)
ValidateHolder(c, info) ==
    /\ InOrder(info, commits[c].cp)
    /\ info # commits[c].hold
    /\ PaymentsValid(c, info, commits[c].cp)
    /\ commits' = [commits EXCEPT ![c].next = info]
    /\ UNCHANGED <<timeVars, invoices, issued, payments, approvalVars, ledger, restarts, settled>>

(* revoke_previous_holder_commitment: applied as it was validated.         *)
Revoke(c) ==
    /\ commits[c].next # None
    /\ ApplyPayments(c, commits[c].next, commits[c].cp, commits[c].next)
    /\ commits' = [commits EXCEPT ![c].hold = commits[c].next, ![c].next = None]
    /\ UNCHANGED <<timeVars, invoices, approvalVars, ledger, restarts, settled>>

(* htlc_fulfilled: a preimage settles the payment and an issued invoice.   *)
Fulfill(h) ==
    /\ payments[h] # None \/ issued[h] # None
    /\ payments' = [payments EXCEPT ![h] = IF @ = None THEN @ ELSE [@ EXCEPT !.pre = TRUE]]
    /\ issued' = [issued EXCEPT ![h] = IF @ = None THEN @ ELSE [@ EXCEPT !.done = TRUE]]
    /\ settled' = settled \cup {h}
    /\ UNCHANGED <<timeVars, invoices, approvalVars, commits, ledger, restarts>>

(* sign_bolt11_invoice, sign_bolt12_invoice: the limit is absolute, then a *)
(* known hash is signed again only for the same invoice.  Not persisted.   *)
Known(m) == {h \in Hashes : m[h] # None}

SignInvoice(h, id) ==
    /\ Cardinality(Known(issued)) < MaxInvoices
    /\ issued[h] = None
    /\ issued' = [issued EXCEPT ![h] = [id |-> id, amount |-> IssuedAmount,
                                        until |-> now + IssuedExpiry, done |-> FALSE]]
    /\ UNCHANGED <<timeVars, invoices, payments, approvalVars, commits, ledger, restarts, settled>>

-----------------------------------------------------------------------------
(* Approval of an outgoing payment.                                        *)

(* update_node                                                             *)
NodeSaved(inv, iss, pay) ==
    [invoices |-> inv, issued |-> iss,
     pres |-> {h \in Hashes : pay[h] # None /\ pay[h].pre}]

(* validate_invoice; a keysend is not dated.                               *)
RequestValid(r) ==
    r.kind = "invoice" => /\ r.created <= now
                          /\ now + MinInvoiceExpiry <= r.until

PaymentState(r) ==
    [id |-> r.id, amount |-> r.amount,
     until |-> IF r.kind = "keysend" THEN now + KeysendExpiry
               ELSE r.until + InvoicePruneTime]

(* add_invoice and add_keysend, once the request is approved; an amount    *)
(* over the velocity limit is refused and the buckets have still moved on. *)
AddInvoice(r) ==
    LET full == Cardinality(Known(invoices)) >= MaxInvoices
        fits == InsertFits(control, now, r.amount)
    IN  IF full \/ ~RequestValid(r)
        THEN UNCHANGED <<control, invoices, payments, ledger, spent>>
        ELSE /\ control' = Inserted(control, now, r.amount)
             /\ IF fits
                THEN /\ invoices' = [invoices EXCEPT ![r.hash] = PaymentState(r)]
                     /\ payments' = [payments EXCEPT ![r.hash] = OrNew(@)]
                     /\ ledger' = NodeSaved(invoices', issued, payments')
                     /\ spent' = [spent EXCEPT ![now] = @ + r.amount]
                ELSE UNCHANGED <<invoices, payments, ledger, spent>>

(* handle_proposed_invoice and handle_proposed_keysend with a memo and a   *)
(* velocity approver in front of the user, whose decision is `user`.  A    *)
(* hash that is already approved, with the same or another invoice, is     *)
(* answered without asking; an invoice of an allowlisted payee is added    *)
(* without asking.                                                         *)
Preapprove(r, user) ==
    /\ invoices[r.hash] = None
    /\ IF r.kind = "invoice" /\ r.listed
       THEN /\ AddInvoice(r)
            /\ UNCHANGED <<memo, approver, auto>>
       ELSE LET fits == InsertFits(approver, now, r.amount)
            IN  /\ memo' = {}
                /\ IF r \in memo
                   THEN UNCHANGED <<approver, auto>>
                   ELSE /\ approver' = VelocityAfter(approver, now, r.amount, user)
                        /\ auto' = IF fits THEN [auto EXCEPT ![now] = @ + r.amount]
                                   ELSE IF user THEN [t \in 0..MaxTime |-> 0]
                                   ELSE auto
                /\ IF MemoApproves(memo, r, VelocityApproves(approver, now, r.amount, user))
                   THEN AddInvoice(r)
                   ELSE UNCHANGED <<control, invoices, payments, ledger, spent>>
    /\ UNCHANGED <<timeVars, issued, commits, restarts, settled>>

(* MemoApprover::approve                                                   *)
Memorize(rs) ==
    /\ memo' = rs
    /\ UNCHANGED <<timeVars, invoices, issued, payments, control, approver, commits,
                   ledger, restarts, settled, spent, auto>>

-----------------------------------------------------------------------------
(* Time, heartbeats and restarts.                                          *)

(* is_invoice_prunable: past its time, and settled or with nothing going   *)
(* out.                                                                    *)
InvoicePrunable(h) ==
    /\ invoices[h] # None
    /\ now > invoices[h].until
    /\ payments[h].pre \/ Sum(payments[h].out) = 0

(* get_heartbeat: prune_invoices, prune_issued_invoices, then              *)
(* prune_forwarded_payments; saved if anything went.                       *)
Heartbeat ==
    LET gone == {h \in Hashes : InvoicePrunable(h)}
        inv == [h \in Hashes |-> IF h \in gone THEN None ELSE invoices[h]]
        iss == [h \in Hashes |-> IF issued[h] # None /\ issued[h].until <= now
                                 THEN None ELSE issued[h]]
        ended(h) == /\ payments[h] # None /\ inv[h] = None /\ iss[h] = None
                    /\ Sum(payments[h].in) = 0 /\ Sum(payments[h].out) = 0
        pay == [h \in Hashes |-> IF h \in gone \/ ended(h) THEN None ELSE payments[h]]
    IN  /\ <<inv, iss, pay>> # <<invoices, issued, payments>>
        /\ invoices' = inv
        /\ issued' = iss
        /\ payments' = pay
        /\ ledger' = NodeSaved(inv, iss, pay)
        /\ UNCHANGED <<timeVars, approvalVars, chainVars>>

Tick ==
    /\ now < MaxTime
    /\ now' = now + 1
    /\ UNCHANGED <<setbacks, invoices, issued, payments, approvalVars, chainVars, ledger>>

(* The system clock the daemon reads may be set back.                      *)
SetBack(t) ==
    /\ setbacks < MaxSetbacks
    /\ now' = t
    /\ setbacks' = setbacks + 1
    /\ UNCHANGED <<invoices, issued, payments, approvalVars, chainVars, ledger>>

(* restore_payments: one channel's part of a payment after a restart, with *)
(* the expiries of our own commitment if it carries the hash.              *)
RestoredInfo(c) ==
    LET hold == commits[c].hold
        cp == commits[c].cp
        first(a, b) == IF a # {} THEN a ELSE b
    IN  [in |-> [h \in Hashes |-> first(hold.in[h], cp.in[h])],
         out |-> [h \in Hashes |-> first(hold.out[h], cp.out[h])]]

(* A bug that restores the invoices' payments and not the channels' part.  *)
RestoredEmpty(h) == IF ledger.invoices[h] # None THEN NewPayment ELSE None

(* NodeState::restore, restore_node and new_from_persistence: settled      *)
(* payments come back by their preimage, every invoice starts afresh, and  *)
(* every channel adds its part.                                            *)
RestoredPayment(h) ==
    LET mention == {c \in Channels : h \in Mentioned(c, commits[c].hold, commits[c].cp)}
        start == IF ledger.invoices[h] # None THEN NewPayment
                 ELSE IF h \in ledger.pres THEN [NewPayment EXCEPT !.pre = TRUE]
                 ELSE IF mention # {} THEN NewPayment
                 ELSE None
    IN  FoldSet(LAMBDA c, p : AppliedInfos(p, c, commits[c].hold, commits[c].cp, RestoredInfo(c), h),
                start, mention)

(* The velocity controls and the approvals start afresh.                   *)
PayRestart ==
    /\ restarts < MaxRestarts
    /\ restarts' = restarts + 1
    /\ invoices' = ledger.invoices
    /\ issued' = ledger.issued
    /\ payments' = [h \in Hashes |-> RestoredPayment(h)]
    /\ control' = FreshControl(NodeLimit)
    /\ approver' = FreshControl(ApproverLimit)
    /\ auto' = [t \in 0..MaxTime |-> 0]
    /\ memo' = {}
    /\ UNCHANGED <<timeVars, commits, ledger, settled, spent>>

NothingSpent == [t \in 0..MaxTime |-> 0]

PayInit ==
    /\ now = 0 /\ setbacks = 0 /\ restarts = 0
    /\ invoices = [h \in Hashes |-> None]
    /\ issued = [h \in Hashes |-> None]
    /\ payments = [h \in Hashes |-> None]
    /\ control = FreshControl(NodeLimit)
    /\ approver = FreshControl(ApproverLimit)
    /\ memo = {}
    /\ commits = [c \in Channels |-> [hold |-> NoHtlcs, cp |-> NoHtlcs, next |-> None]]
    /\ ledger = NodeSaved(invoices, issued, payments)
    /\ settled = {}
    /\ spent = NothingSpent
    /\ auto = NothingSpent

PayNext ==
    \/ \E r \in Requests, user \in BOOLEAN : Preapprove(r, user)
    \/ \E rs \in SUBSET Requests : Memorize(rs)
    \/ \E c \in Channels, i \in Infos : SignCounterparty(c, i) \/ ValidateHolder(c, i)
    \/ \E c \in Channels : Revoke(c)
    \/ \E h \in Hashes : Fulfill(h) \/ SignInvoice(h, "issued")
    \/ Heartbeat \/ Tick \/ PayRestart
    \/ \E t \in 0..MaxTime : SetBack(t)

PaySpec == PayInit /\ [][PayNext]_payVars

-----------------------------------------------------------------------------
(* Properties.                                                             *)

Carried(c, h) == Outgoing(commits[c].hold, commits[c].cp, h)

(* The registry knows exactly what the channels' commitments carry out for *)
(* every hash that has not been settled, and never credits more incoming   *)
(* than they carry, whatever was pruned, approved again or restored:       *)
(* validate_payments judges a commitment by the registry alone.            *)
LedgerMatches ==
    \A h \in Hashes \ settled, c \in Channels :
        /\ Carried(c, h) = IF payments[h] = None THEN 0 ELSE payments[h].out[c]
        /\ payments[h] # None =>
             payments[h].in[c] <= Incoming(commits[c].hold, commits[c].cp, h)

TotalOut(h) == Sum([c \in Channels |-> Carried(c, h)])
TotalIn(h) == Sum([c \in Channels |-> Incoming(commits[c].hold, commits[c].cp, h)])

(* No commitment takes a payment with an invoice or a keysend beyond its   *)
(* amount, the fee allowed and what comes in for the same hash, summed     *)
(* over the channels: the "no overpayment for any invoice" of              *)
(* validate_payments.                                                      *)
NoOverpay ==
    [][\A h \in Hashes \ settled :
         (/\ invoices[h] # None
          /\ <<TotalIn(h), TotalOut(h)>>' # <<TotalIn(h), TotalOut(h)>>)
            => TotalOut(h)' <= TotalIn(h)' + invoices[h].amount + MaxFee]_payVars

(* Every invoice has its payment entry, which prune_invoices panics        *)
(* without, in memory and in what a restart would load.                    *)
InvoicesTracked == \A h \in Hashes : invoices[h] # None => payments[h] # None

\* The ledger is that of the commitments, and each invoice has its payment in it.
LedgerHolds == LedgerMatches /\ InvoicesTracked

WithinLimit(log, limit) ==
    limit # NoLimit =>
      \A t \in {u \in 0..MaxTime : log[u] > 0} :
        MapThenSumSet(LAMBDA u : log[u], t..Smaller(MaxTime, t + Interval * (NumBuckets - 1)))
          <= limit

(* In any stretch as long as all the buckets but one, the payments added   *)
(* stay within the node's limit, and those the approver let through on its *)
(* own since the user last agreed within the approver's, in a process that *)
(* has not restarted and whose clock was not set back.                     *)
VelocityBounded ==
    (restarts = 0 /\ setbacks = 0) =>
      (WithinLimit(spent, NodeLimit) /\ WithinLimit(auto, ApproverLimit))

=============================================================================
