------------------------------ MODULE BudgetLedger -----------------------------
(***************************************************************************)
(* The tenant budgets (cost/persistent_budget.py): accounts that form a    *)
(* hierarchy, a ledger, and the balances derived from it.  Every operation *)
(* is one SQLite transaction that begins with BEGIN IMMEDIATE, so callers  *)
(* in several tasks and processes interleave whole operations; an          *)
(* operation that raises or whose process dies rolls back and leaves no    *)
(* trace.  Amounts are microdollars.                                       *)
(***************************************************************************)
EXTENDS Integers, Sequences, FiniteSets, FiniteSetsExt

CONSTANTS
  Tenants, NoParent,
  Parents,      \* Parents[t]: the parents an administrator may give to t
  Kinds,        \* Kinds[t]: the reset periods an administrator may give to t
  Limits,       \* the limits an administrator may give
  Debits,       \* reservations, retried at will: [key, tenant, amount, run]
  Finals,       \* settlements: [key, tenant, run, actual]
  LastDay       \* bound: the days 1 .. LastDay, two of which make a month

BudgetAssumption ==
  /\ NoParent \notin Tenants /\ IsFiniteSet(Tenants) /\ LastDay \in Nat
  /\ Parents \in [Tenants -> SUBSET (Tenants \cup {NoParent})]
  /\ Kinds \in [Tenants -> SUBSET {"daily", "monthly", "none"}]
  /\ Limits \subseteq Nat
  /\ \A d \in Debits : d.tenant \in Tenants /\ d.amount \in Int
  /\ \A f \in Finals : f.tenant \in Tenants /\ f.actual \in Int

VARIABLES
  accounts,   \* budget_accounts: a function on the tenants that have one
  ledger,     \* budget_ledger, in the order of its ids
  balances,   \* budget_balances: a function on pairs of tenant and period
  today

vars == <<accounts, ledger, balances, today>>

Month(day) == (day - 1) \div 2
Period(kind, day) == IF kind = "daily" THEN <<"daily", day>> ELSE <<"monthly", Month(day)>>
Periods == {Period(k, d) : k \in {"daily", "monthly"}, d \in 1 .. LastDay}

Init == accounts = << >> /\ ledger = << >> /\ balances = << >> /\ today = 1

HasAccount(t) == t \in DOMAIN accounts

(* The nth parent of t, and all of them with t itself; Cyclic when they    *)
(* never end.                                                              *)
Climb(t) ==
  LET up[n \in 0 .. Cardinality(Tenants)] ==
        IF n = 0 THEN t
        ELSE IF up[n - 1] = NoParent THEN NoParent ELSE accounts[up[n - 1]].parent
  IN  up
Chain(t)  == {Climb(t)[n] : n \in DOMAIN Climb(t)} \ {NoParent}
Cyclic(t) == Climb(t)[Cardinality(Tenants)] # NoParent

Spent(t, p) == IF <<t, p>> \in DOMAIN balances THEN balances[<<t, p>>] ELSE 0

(* create_account: an upsert, with a balance row for the current period.   *)
CreateAccount(t, parent, limit, kind) ==
  /\ parent \in DOMAIN accounts \cup {NoParent}      \* FOREIGN KEY
  /\ accounts' = [s \in DOMAIN accounts \cup {t} |->
                    IF s = t THEN [parent |-> parent, limit |-> limit, kind |-> kind]
                    ELSE accounts[s]]
  /\ LET row == <<t, Period(kind, today)>>
     IN  balances' = [x \in DOMAIN balances \cup {row} |-> Spent(x[1], x[2])]
  /\ UNCHANGED <<ledger, today>>

(* check_and_debit looks the key up; the UNIQUE column says the same.      *)
Fresh(key, p) == \A i \in DOMAIN ledger : ledger[i].key # key

Slip_Affordable(t, amount, p) == Spent(t, p) + amount <= accounts[t].limit
Affordable(t, amount, p) ==
  \A s \in Chain(t) : Spent(s, p) + amount <= accounts[s].limit

(* Every tenant of the chain is charged in the period of the first one.    *)
(* The row that each ancestor gets has a key made of this one's key and    *)
(* its own name: it is there exactly when this row is, no settlement looks *)
(* for it, and the model leaves it out.                                    *)
Debit(d) ==
  LET p == Period(accounts[d.tenant].kind, today)
  IN  /\ HasAccount(d.tenant)
      /\ Fresh(d.key, p)
      /\ ~Cyclic(d.tenant) /\ Affordable(d.tenant, d.amount, p)
      /\ balances' = [x \in DOMAIN balances \cup (Chain(d.tenant) \X {p}) |->
                        Spent(x[1], x[2])
                          + (IF x[1] \in Chain(d.tenant) /\ x[2] = p THEN d.amount ELSE 0)]
      /\ ledger' = Append(ledger, [type |-> "debit_estimate", tenant |-> d.tenant,
                                   amount |-> d.amount, run |-> d.run, key |-> d.key,
                                   period |-> p])
      /\ UNCHANGED <<accounts, today>>

(* adjust_actual finds the first estimate of the run.  A correction has no *)
(* limit, and only reaches balance rows that exist.                        *)
Estimates(f) ==
  {i \in DOMAIN ledger : /\ ledger[i].type = "debit_estimate"
                         /\ ledger[i].run = f.run /\ ledger[i].tenant = f.tenant}
Diff(f, e) == f.actual - e.amount
Slip_Corrected(t) == {t}
Corrected(t) == Chain(t)
Adjust(f) ==
  LET e    == ledger[Min(Estimates(f))]
      diff == Diff(f, e)
  IN  /\ Estimates(f) # {}
      /\ Fresh(f.key, e.period) /\ ~Cyclic(f.tenant)
      /\ ledger' = Append(ledger, [type |-> "credit_correction", tenant |-> f.tenant,
                                   amount |-> 0 - diff, run |-> f.run, key |-> f.key,
                                   period |-> e.period])
      /\ balances' = [x \in DOMAIN balances |->
                        balances[x]
                          + (IF x[1] \in Corrected(f.tenant) /\ x[2] = e.period THEN diff ELSE 0)]
      /\ UNCHANGED <<accounts, today>>

NextDay ==
  /\ today < LastDay /\ today' = today + 1
  /\ UNCHANGED <<accounts, ledger, balances>>

Next ==
  \/ \E t \in Tenants : \E parent \in Parents[t], limit \in Limits, kind \in Kinds[t] :
       CreateAccount(t, parent, limit, kind)
  \/ \E d \in Debits : Debit(d)
  \/ \E f \in Finals : Adjust(f)
  \/ NextDay

Spec == Init /\ [][Next]_vars

--------------------------------------------------------------------------------
(* Properties.                                                             *)

EntryTypes == {"debit_estimate", "credit_correction"}
TypeOK ==
  /\ DOMAIN accounts \subseteq Tenants
  /\ \A t \in DOMAIN accounts : /\ accounts[t].parent \in Parents[t]
                                /\ accounts[t].limit \in Limits /\ accounts[t].kind \in Kinds[t]
  /\ \A i \in DOMAIN ledger : /\ ledger[i].type \in EntryTypes
                              /\ HasAccount(ledger[i].tenant)
                              /\ ledger[i].period \in Periods
  /\ DOMAIN balances \subseteq (DOMAIN accounts) \X Periods
  /\ \A x \in DOMAIN balances : balances[x] \in Nat
  /\ today \in 1 .. LastDay

(* What a ledger entry costs, what the entries of ledger l at the places   *)
(* Counted cost, and the entries of t and of the tenants below it.         *)
Cost(e) == IF e.type = "debit_estimate" THEN e.amount ELSE 0 - e.amount
Total(l, Counted) ==
  LET upto[n \in 0 .. Len(l)] ==
        IF n = 0 THEN 0 ELSE upto[n - 1] + (IF n \in Counted THEN Cost(l[n]) ELSE 0)
  IN  upto[Len(l)]
Below(t) == {i \in DOMAIN ledger : t \in Chain(ledger[i].tenant)}

(* The balance of every tenant in every period is what the ledger says it  *)
(* and the tenants below it have spent: retries, corrections, roll-overs   *)
(* and refused debits leave no difference.                                 *)
BalanceMatchesLedger ==
  \A t \in DOMAIN accounts : \A p \in Periods :
    Spent(t, p) = Total(ledger, {i \in Below(t) : ledger[i].period = p})

(* A reservation is charged once, however often and on whatever day its    *)
(* request is retried.                                                     *)
ChargedOnce ==
  \A i, j \in DOMAIN ledger : ledger[i].key = ledger[j].key => i = j

(* Together: the ledger is what was spent, once, and the balances are it.  *)
LedgerSound == BalanceMatchesLedger /\ ChargedOnce

(* No debit takes a tenant, or one above it, past its limit: in the day,   *)
(* the month or (for a budget that is never reset) all the time its limit  *)
(* is for.                                                                 *)
Within(p, kind) ==
  \/ kind = "none"
  \/ p = Period(kind, today)
  \/ kind = "monthly" /\ p[1] = "daily" /\ Month(p[2]) = Month(today)
Debited == Len(ledger') > Len(ledger) /\ ledger'[Len(ledger')].type = "debit_estimate"
SpentByAll(t) == Total(ledger, {i \in Below(t) : Within(ledger[i].period, accounts[t].kind)})
DebitsFit ==
  Debited => LET e == ledger'[Len(ledger')]
             IN  \A t \in Chain(e.tenant) : SpentByAll(t) + e.amount <= accounts[t].limit
LimitHeld == [][DebitsFit]_vars
================================================================================
