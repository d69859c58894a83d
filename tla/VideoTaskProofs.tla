-------------------------- MODULE VideoTaskProofs --------------------------
(***************************************************************************)
(* Proofs about VideoTask, for every number of tasks, create calls and     *)
(* polls, every price and horizon.  First what the statements of the       *)
(* repository do to one row, then the invariant.                           *)
(*                                                                         *)
(* A settlement computes the bill from the row it holds and writes it to   *)
(* the row there is.  So the invariant says of whoever may settle that the *)
(* two agree on all the bill is made of, and of every row that its         *)
(* estimate is a whole number of its seconds' price.                       *)
(***************************************************************************)
EXTENDS VideoTask, FiniteSetTheorems, WellFoundedInduction, TLAPS

USE TaskAssumption, NumbersAssumption

Statuses == {"none"} \cup NonTerminal \cup Terminal

\* An ask is a price for each of its seconds.
Priced(seconds, ask) == seconds > 0 /\ \E unit \in Nat : ask = seconds * unit

\* What is true of a row at any time.
RowOK(r) ==
  /\ r.status = "none" => r.polled = 0
  /\ r.status # "none" => Priced(r.seconds, r.estimated)
  /\ r.billed => r.status = "completed" /\ r.micros * r.seconds = r.usage * r.estimated
  /\ ~r.billed => r.micros = 0

\* What a step may make of a row.
Becomes(r, s) ==
  /\ r.status # "none" => /\ s.status # "none"
                          /\ s.seconds = r.seconds /\ s.estimated = r.estimated
  /\ r.status \in Terminal => s.status = r.status /\ s.usage = r.usage
  /\ r.billed => s.billed
  /\ s.polled # r.polled => r.polled = 0 \/ s.polled >= r.polled + Interval

\* A row that is well and has become one that is well.
Good(r, s) == s \in Rows /\ RowOK(s) /\ Becomes(r, s)
----------------------------------------
(* One row. *)

\* What the fields of a row are.
LEMMA RowFields ==
  ASSUME NEW r \in Rows
  PROVE  /\ r.status \in Statuses /\ r.billed \in BOOLEAN
         /\ r.seconds \in Nat /\ r.estimated \in Nat /\ r.usage \in Nat
         /\ r.micros \in Nat /\ r.polled \in Nat /\ r.expires \in Nat
         /\ r.version \in Nat
BY DEF Rows, Statuses

\* Changing one field within its type leaves a row.
LEMMA RowUpdates ==
  ASSUME NEW r \in Rows
  PROVE  /\ \A x \in Statuses : [r EXCEPT !.status = x] \in Rows
         /\ \A x \in Nat : [r EXCEPT !.usage = x] \in Rows
         /\ \A x \in BOOLEAN : [r EXCEPT !.billed = x] \in Rows
         /\ \A x \in Nat : [r EXCEPT !.micros = x] \in Rows
         /\ \A x \in Nat : [r EXCEPT !.polled = x] \in Rows
         /\ \A x \in Nat : [r EXCEPT !.estimated = x] \in Rows
         /\ \A x \in Nat : [r EXCEPT !.seconds = x] \in Rows
         /\ \A x \in Nat : [r EXCEPT !.version = x] \in Rows
         /\ \A x \in Nat : [r EXCEPT !.expires = x] \in Rows
BY DEF Rows, Statuses

LEMMA StatusSets ==
  /\ Statuses = {"none", "pending", "processing", "completed", "failed", "cancelled", "expired"}
  /\ "none" \notin NonTerminal \cup Terminal
  /\ NonTerminal \cap Terminal = {}
  /\ NonTerminal \subseteq Statuses /\ Terminal \subseteq Statuses
BY DEF Statuses, NonTerminal, Terminal

\* A row that does not change stays well.
LEMMA Unchanged ==
  ASSUME NEW r \in Rows, RowOK(r)
  PROVE  Good(r, r)
BY DEF Good, Becomes

\* Division gives the price of a second back.
LEMMA UnitPrice ==
  ASSUME NEW seconds \in Nat, NEW ask \in Nat, Priced(seconds, ask)
  PROVE  ask \div seconds \in Nat /\ (ask \div seconds) * seconds = ask
<1>1. PICK unit \in Nat : ask = seconds * unit BY DEF Priced
<1>2. seconds > 0 BY DEF Priced
<1>3. (seconds * unit) \div seconds = unit BY <1>2
<1> QED BY <1>1, <1>3

\* A bill is the price of the seconds delivered.
LEMMA BillOfDelivery ==
  ASSUME NEW r \in Rows, Priced(r.seconds, r.estimated)
  PROVE  Bill(r) \in Nat /\ Bill(r) * r.seconds = r.usage * r.estimated
<1>1. r.usage \in Nat /\ r.estimated \in Nat /\ r.seconds \in Nat BY RowFields
<1>2. r.seconds > 0 BY DEF Priced
<1> DEFINE unit == r.estimated \div r.seconds
<1>3. unit \in Nat /\ unit * r.seconds = r.estimated BY <1>1, UnitPrice
<1> HIDE DEF unit
<1>4. CASE r.estimated > 0
  <2>1. Bill(r) = r.usage * unit BY <1>2, <1>4 DEF Bill, unit
  <2>2. (r.usage * unit) * r.seconds = r.usage * (unit * r.seconds) BY <1>1, <1>3
  <2>3. r.usage * unit \in Nat BY <1>1, <1>3
  <2> QED BY <1>3, <2>1, <2>2, <2>3
<1>5. CASE r.estimated = 0
  <2>1. Bill(r) = 0 BY <1>1, <1>5 DEF Bill
  <2>2. r.usage * 0 = 0 /\ 0 * r.seconds = 0 BY <1>1
  <2> QED BY <1>5, <2>1, <2>2
<1> QED BY <1>1, <1>4, <1>5

\* What billing does to a row's fields.
LEMMA BilledRow ==
  ASSUME NEW r \in Rows, NEW m \in Nat
  PROVE  LET b == Billed(r, m) IN
         /\ b \in Rows /\ b.billed /\ b.micros = m
         /\ b.status = r.status /\ b.seconds = r.seconds /\ b.estimated = r.estimated
         /\ b.usage = r.usage /\ b.polled = r.polled
<1> DEFINE a == [r EXCEPT !.billed = TRUE]
           b == [a EXCEPT !.micros = m]
<1>1. a \in Rows BY RowUpdates
<1>2. /\ a.billed /\ a.status = r.status /\ a.seconds = r.seconds
      /\ a.estimated = r.estimated /\ a.usage = r.usage /\ a.polled = r.polled BY DEF Rows
<1> HIDE DEF a
<1>3. b \in Rows BY <1>1, RowUpdates
<1>4. /\ b.micros = m /\ b.billed = a.billed /\ b.status = a.status /\ b.seconds = a.seconds
      /\ b.estimated = a.estimated /\ b.usage = a.usage /\ b.polled = a.polled BY <1>1 DEF Rows
<1>5. Billed(r, m) = b BY DEF Billed, a
<1> HIDE DEF b
<1> QED BY <1>2, <1>3, <1>4, <1>5

\* What saving a result does to the fields of a row that takes it.
LEMMA SavedRow ==
  ASSUME NEW r \in Rows, r.status \in NonTerminal, NEW o, o.status \in Statuses, o.usage \in Nat
  PROVE  LET s == SaveResult(r, o) IN
         /\ s \in Rows /\ s.status = o.status /\ s.usage = o.usage
         /\ s.seconds = r.seconds /\ s.estimated = r.estimated
         /\ s.billed = r.billed /\ s.micros = r.micros /\ s.polled = r.polled
<1> DEFINE a == [r EXCEPT !.status = o.status]
           b == [a EXCEPT !.usage = o.usage]
<1>1. a \in Rows BY RowUpdates
<1>2. /\ a.status = o.status /\ a.seconds = r.seconds /\ a.estimated = r.estimated
      /\ a.billed = r.billed /\ a.micros = r.micros /\ a.polled = r.polled BY DEF Rows
<1> HIDE DEF a
<1>3. b \in Rows BY <1>1, RowUpdates
<1>4. /\ b.usage = o.usage /\ b.status = a.status /\ b.seconds = a.seconds
      /\ b.estimated = a.estimated
      /\ b.billed = a.billed /\ b.micros = a.micros /\ b.polled = a.polled BY <1>1 DEF Rows
<1>5. SaveResult(r, o) = b BY DEF SaveResult, a
<1> HIDE DEF b
<1> QED BY <1>2, <1>3, <1>4, <1>5
\* A result leaves a row well, whether or not the row takes it.
LEMMA SavingIsGood ==
  ASSUME NEW r \in Rows, RowOK(r), NEW o, o.status \in NonTerminal \cup Terminal, o.usage \in Nat
  PROVE  Good(r, SaveResult(r, o))
<1>1. CASE r.status \notin NonTerminal BY <1>1, Unchanged DEF SaveResult
<1>2. CASE r.status \in NonTerminal
  <2> DEFINE s == SaveResult(r, o)
  <2>1. /\ s \in Rows /\ s.status = o.status /\ s.usage = o.usage
        /\ s.seconds = r.seconds /\ s.estimated = r.estimated
        /\ s.billed = r.billed /\ s.micros = r.micros /\ s.polled = r.polled
    BY <1>2, SavedRow, StatusSets
  <2> HIDE DEF s
  <2>2. r.status # "none" /\ r.status # "completed" /\ r.status \notin Terminal
    BY <1>2 DEF NonTerminal, Terminal
  <2>3. s.status # "none" BY <2>1 DEF NonTerminal, Terminal
  <2>4. Good(r, s) BY <2>1, <2>2, <2>3 DEF Good, RowOK, Becomes
  <2> QED BY <2>4 DEF s
<1> QED BY <1>1, <1>2

\* So does an expiry.
LEMMA ExpiryIsGood ==
  ASSUME NEW r \in Rows, RowOK(r), r.status \in NonTerminal
  PROVE  Good(r, Expired(r)) /\ Expired(r).status = "expired"
<1> DEFINE s == Expired(r)
<1>1. "expired" \in Statuses BY StatusSets
<1>2. s = [r EXCEPT !.status = "expired"] BY DEF Expired
<1>3. s \in Rows BY <1>1, <1>2, RowUpdates
<1>4. /\ s.status = "expired" /\ s.usage = r.usage /\ s.seconds = r.seconds
      /\ s.estimated = r.estimated /\ s.billed = r.billed /\ s.micros = r.micros
      /\ s.polled = r.polled BY <1>2 DEF Rows
<1> HIDE DEF s
<1>5. r.status # "none" /\ r.status # "completed" /\ r.status \notin Terminal
  BY DEF NonTerminal, Terminal
<1>6. Good(r, s) BY <1>3, <1>4, <1>5 DEF Good, RowOK, Becomes
<1> QED BY <1>4, <1>6 DEF s

\* A held row agrees with the row there is.
Agrees(held, r) == /\ held.seconds = r.seconds /\ held.estimated = r.estimated
                   /\ held.status \in Terminal =>
                         held.status = r.status /\ held.usage = r.usage

\* A bill computed from a row that agrees with a completed one leaves it well.
LEMMA BillingIsGood ==
  ASSUME NEW r \in Rows, RowOK(r), Chargeable(r),
         NEW held \in Rows, held.status = "completed", Agrees(held, r)
  PROVE  Good(r, Billed(r, Bill(held))) /\ Bill(held) \in Nat
         /\ Billed(r, Bill(held)).billed
<1>1. r.status = "completed" /\ ~r.billed BY DEF Chargeable
<1>2. Priced(r.seconds, r.estimated) BY <1>1 DEF RowOK
<1>3. "completed" \in Terminal BY DEF Terminal
<1>4. held.usage = r.usage /\ held.seconds = r.seconds /\ held.estimated = r.estimated
  BY <1>3 DEF Agrees
<1> DEFINE m == Bill(held)
<1>5. m \in Nat /\ m * r.seconds = r.usage * r.estimated BY <1>2, <1>4, BillOfDelivery
<1> HIDE DEF m
<1> DEFINE s == Billed(r, m)
<1>6. /\ s \in Rows /\ s.billed /\ s.micros = m
      /\ s.status = r.status /\ s.seconds = r.seconds /\ s.estimated = r.estimated
      /\ s.usage = r.usage /\ s.polled = r.polled BY <1>5, BilledRow
<1> HIDE DEF s
<1>7. Good(r, s) BY <1>1, <1>2, <1>5, <1>6 DEF Good, RowOK, Becomes
<1> QED BY <1>5, <1>6, <1>7 DEF s, m

\* A claim that is due, on the stamp the row still has, leaves it well.
LEMMA ClaimIsGood ==
  ASSUME NEW r \in Rows, RowOK(r), r.status \in NonTerminal, NEW at \in Nat,
         r.polled = 0 \/ at >= r.polled + Interval
  PROVE  Good(r, [r EXCEPT !.polled = at])
<1> DEFINE s == [r EXCEPT !.polled = at]
<1>1. s \in Rows BY RowUpdates
<1>2. /\ s.status = r.status /\ s.usage = r.usage /\ s.seconds = r.seconds
      /\ s.estimated = r.estimated /\ s.billed = r.billed /\ s.micros = r.micros
      /\ s.polled = at BY DEF Rows
<1> HIDE DEF s
<1>3. r.status # "none" BY DEF NonTerminal
<1>4. Good(r, s) BY <1>1, <1>2, <1>3 DEF Good, RowOK, Becomes
<1> QED BY <1>4 DEF s

\* The fields of a row not yet inserted.
LEMMA BlankRow ==
  /\ NoRow \in Rows /\ RowOK(NoRow) /\ NoRow.status = "none"
  /\ NoRow.billed = FALSE /\ NoRow.polled = 0 /\ NoRow.micros = 0
<1>1. NoRow \in Rows BY DEF NoRow, Rows
<1>2. /\ NoRow.status = "none" /\ NoRow.billed = FALSE /\ NoRow.polled = 0
      /\ NoRow.micros = 0 BY DEF NoRow
<1>3. RowOK(NoRow) BY <1>2 DEF RowOK
<1> QED BY <1>1, <1>2, <1>3

\* A new row is well.
LEMMA InsertIsGood ==
  ASSUME NEW r \in Rows, RowOK(r), r.status = "none",
         NEW seconds \in Nat, NEW ask \in Nat, Priced(seconds, ask), NEW v \in Nat, NEW e \in Nat
  PROVE  Good(r, [status |-> "pending", seconds |-> seconds, estimated |-> ask, usage |-> 0,
                  billed |-> FALSE, micros |-> 0, polled |-> 0, expires |-> e, version |-> v])
<1> DEFINE s == [status |-> "pending", seconds |-> seconds, estimated |-> ask, usage |-> 0,
                 billed |-> FALSE, micros |-> 0, polled |-> 0, expires |-> e, version |-> v]
<1>1. s \in Rows BY DEF Rows, NonTerminal
<1>2. /\ s.status = "pending" /\ s.seconds = seconds /\ s.estimated = ask
      /\ s.micros = 0 /\ s.billed = FALSE /\ s.polled = 0 OBVIOUS
<1> HIDE DEF s
<1>3. r.billed = FALSE
  <2>1. r.billed \in BOOLEAN BY RowFields
  <2> QED BY <2>1 DEF RowOK
<1>4. r.status \notin Terminal BY DEF Terminal
<1>5. r.polled = 0 BY DEF RowOK
<1>6. RowOK(s) BY <1>2 DEF RowOK
<1>7. Becomes(r, s) BY <1>2, <1>3, <1>4, <1>5 DEF Becomes
<1> QED BY <1>1, <1>6, <1>7 DEF Good, s
----------------------------------------
(* The invariant. *)

\* A create call that may still insert asks for a priced task.
CreateOK(c) == c.pc # "idle" => Priced(c.seconds, c.ask)

\* What a poll holds of its task, whose row is r.
Holding(p, r) ==
  p.pc # "idle" => /\ r.status # "none" /\ Agrees(p.seen, r)
                   /\ p.pc = "asking" => p.seen.status \in NonTerminal
                   /\ p.pc = "settling" => p.seen.status = "completed"

RowsOK == \A t \in Tasks : RowOK(row[t])
CreatesOK == \A s \in Submits : CreateOK(submit[s])
PollsOK == \A g \in Gets : Holding(get[g], row[get[g].task])
LogsOK == \A t \in digest : row[t].billed

IInv == TypeOK /\ RowsOK /\ CreatesOK /\ PollsOK /\ LogsOK /\ ToldIsOnRecord

\* A step that leaves every row well.
RowsGood == row' \in [Tasks -> Rows] /\ \A t \in Tasks : Good(row[t], row'[t])

CreatesGood == submit' \in [Submits -> Creates] /\ CreatesOK'

PollsGood == get' \in [Gets -> Polls] /\ PollsOK'

ToldGood == told' \in [Tasks -> SUBSET Terminal] /\ ToldIsOnRecord'

LogsGood == digest' \in SUBSET Tasks /\ LogsOK'

\* Changing one field within its type leaves a create call, and a poll.
LEMMA CreateUpdates ==
  ASSUME NEW c \in Creates
  PROVE  /\ \A x \in {"idle", "accepted", "gate", "insert"} : [c EXCEPT !.pc = x] \in Creates
         /\ \A x \in Nat : [c EXCEPT !.seconds = x] \in Creates
         /\ \A x \in Nat : [c EXCEPT !.ask = x] \in Creates
         /\ \A x \in Nat : [c EXCEPT !.version = x] \in Creates
         /\ \A x \in Nat : [c EXCEPT !.at = x] \in Creates
         /\ \A x \in Nat : [c EXCEPT !.spent = x] \in Creates
BY DEF Creates

LEMMA PollUpdates ==
  ASSUME NEW p \in Polls
  PROVE  /\ \A x \in {"idle", "read", "asking", "settling"} : [p EXCEPT !.pc = x] \in Polls
         /\ \A x \in Rows : [p EXCEPT !.seen = x] \in Polls
         /\ \A x \in BOOLEAN : [p EXCEPT !.home = x] \in Polls
BY DEF Polls

\* The resting states.
LEMMA Resting ==
  /\ IdleSubmit \in Creates /\ IdleSubmit.pc = "idle"
  /\ IdleGet \in Polls /\ IdleGet.pc = "idle"
<1>1. IdleSubmit \in Creates /\ IdleSubmit.pc = "idle" BY DEF IdleSubmit, Creates
<1> DEFINE any == CHOOSE t \in Tasks : TRUE
<1>2. \E t \in Tasks : TRUE BY TaskAssumption
<1>3. any \in Tasks BY <1>2, Zenon
<1> HIDE DEF any
<1> DEFINE p == [pc |-> "idle", task |-> any, seen |-> NoRow, at |-> 0, home |-> FALSE]
<1>4. p \in Polls /\ p.pc = "idle" BY <1>3, BlankRow DEF Polls
<1>5. IdleGet = p BY Zenon DEF IdleGet, any
<1> QED BY <1>1, <1>4, <1>5

\* The system starts well.
LEMMA Initially == Init => IInv
<1> SUFFICES ASSUME Init PROVE IInv OBVIOUS
<1>1. TypeOK
  <2>1. now \in Nat /\ version \in Nat /\ spent \in Nat /\ digest \subseteq Tasks BY DEF Init
  <2>2. row \in [Tasks -> Rows] BY BlankRow DEF Init
  <2>3. submit \in [Submits -> Creates] /\ get \in [Gets -> Polls] BY Resting DEF Init
  <2>4. sweep \in [pc : {"idle", "listing", "settling"}, todo : SUBSET Tasks]
    BY DEF Init, IdleSweep
  <2>5. told \in [Tasks -> SUBSET Terminal] BY DEF Init
  <2> QED BY <2>1, <2>2, <2>3, <2>4, <2>5 DEF TypeOK
<1>2. RowsOK BY BlankRow DEF Init, RowsOK
<1>3. CreatesOK BY Resting DEF Init, CreatesOK, CreateOK
<1>4. PollsOK BY Resting DEF Init, PollsOK, Holding
<1>5. LogsOK /\ ToldIsOnRecord BY DEF Init, LogsOK, ToldIsOnRecord
<1> QED BY <1>1, <1>2, <1>3, <1>4, <1>5 DEF IInv
----------------------------------------
(* What steps do to the rows. *)

\* One row becomes another that is well.
LEMMA OneRow ==
  ASSUME IInv, NEW t \in Tasks, NEW x, Good(row[t], x), row' = [row EXCEPT ![t] = x]
  PROVE  RowsGood
<1>1. row \in [Tasks -> Rows] BY DEF IInv, TypeOK
<1>2. x \in Rows BY DEF Good
<1>3. row' \in [Tasks -> Rows] BY <1>1, <1>2
<1>4. ASSUME NEW u \in Tasks PROVE Good(row[u], row'[u])
  <2>1. CASE u = t BY <1>1, <2>1
  <2>2. CASE u # t
    <3>1. row'[u] = row[u] BY <1>1, <2>2
    <3> QED BY <1>1, <3>1, Unchanged DEF IInv, RowsOK
  <2> QED BY <2>1, <2>2
<1> QED BY <1>3, <1>4 DEF RowsGood

\* The rows stay as they are.
LEMMA SameRows ==
  ASSUME IInv, row' = row
  PROVE  RowsGood
<1>1. row \in [Tasks -> Rows] BY DEF IInv, TypeOK
<1> QED BY <1>1, Unchanged DEF RowsGood, IInv, RowsOK

\* Some unfinished rows expire.
LEMMA SomeExpire ==
  ASSUME IInv, NEW S, row' = [t \in Tasks |-> IF t \in S THEN Expired(row[t]) ELSE row[t]],
         \A t \in Tasks \cap S : row[t].status \in NonTerminal
  PROVE  RowsGood
<1>1. row \in [Tasks -> Rows] BY DEF IInv, TypeOK
<1>2. ASSUME NEW t \in Tasks PROVE Good(row[t], row'[t])
  <2>1. CASE t \in S BY <1>1, <2>1, ExpiryIsGood DEF IInv, RowsOK
  <2>2. CASE t \notin S BY <1>1, <2>2, Unchanged DEF IInv, RowsOK
  <2> QED BY <2>1, <2>2
<1>3. ASSUME NEW t \in Tasks PROVE row'[t] \in Rows BY <1>2 DEF Good
<1> QED BY <1>2, <1>3 DEF RowsGood

\* A charge of a row by whoever holds one that agrees.
LEMMA ChargeStep ==
  ASSUME IInv, NEW t \in Tasks, NEW held \in Rows, Charge(t, held),
         Chargeable(row[t]) => held.status = "completed" /\ Agrees(held, row[t])
  PROVE  RowsGood /\ spent' \in Nat /\ LogsGood
<1>1. row \in [Tasks -> Rows] /\ spent \in Nat /\ digest \in SUBSET Tasks BY DEF IInv, TypeOK
<1>2. CASE Chargeable(row[t])
  <2> DEFINE x == Billed(row[t], Bill(held))
  <2>1. Good(row[t], x) /\ Bill(held) \in Nat /\ x.billed
    BY <1>1, <1>2, BillingIsGood DEF IInv, RowsOK
  <2>2. row' = [row EXCEPT ![t] = x] BY <1>2 DEF Charge
  <2>3. spent' = spent + Bill(held) /\ digest' \in {digest, digest \cup {t}} BY <1>2 DEF Charge
  <2> HIDE DEF x
  <2>4. RowsGood BY <2>1, <2>2, OneRow
  <2>5. ASSUME NEW u \in digest' PROVE row'[u].billed
    <3>1. CASE u = t BY <1>1, <2>1, <2>2, <3>1
    <3>2. CASE u # t
      <4>1. u \in digest /\ row'[u] = row[u] BY <1>1, <2>2, <2>3, <3>2
      <4> QED BY <4>1 DEF IInv, LogsOK
    <3> QED BY <3>1, <3>2
  <2>6. LogsGood BY <1>1, <2>3, <2>5 DEF LogsGood, LogsOK
  <2> QED BY <1>1, <2>1, <2>3, <2>4, <2>6
<1>3. CASE ~Chargeable(row[t])
  <2>1. row' = row /\ spent' = spent /\ digest' = digest BY <1>3 DEF Charge
  <2>2. RowsGood BY <2>1, SameRows
  <2> QED BY <1>1, <2>1, <2>2 DEF LogsGood, LogsOK, IInv
<1> QED BY <1>2, <1>3
----------------------------------------
(* What steps do to the create calls. *)

\* One call changes, beside calls that are well.
LEMMA OneCreate ==
  ASSUME NEW f \in [Submits -> Creates], \A s \in Submits : CreateOK(f[s]),
         NEW s \in Submits, NEW c \in Creates, CreateOK(c), submit' = [f EXCEPT ![s] = c]
  PROVE  CreatesGood
BY DEF CreatesGood, CreatesOK

LEMMA SameCreates ==
  ASSUME IInv, submit' = submit
  PROVE  CreatesGood
BY DEF CreatesGood, CreatesOK, IInv, TypeOK

\* The upstream accepts a task of some seconds at some price.
LEMMA AcceptedStep ==
  ASSUME IInv, NEW s \in Submits, NEW seconds \in Lengths, NEW unit \in Units,
         Accepted(s, seconds, unit)
  PROVE  CreatesGood
<1>1. submit \in [Submits -> Creates] /\ version \in Nat BY DEF IInv, TypeOK
<1>2. seconds \in Nat /\ seconds > 0 /\ unit \in Nat /\ seconds * unit \in Nat
  BY NumbersAssumption
<1> DEFINE a == [IdleSubmit EXCEPT !.pc = "accepted"]
           b == [a EXCEPT !.seconds = seconds]
           c == [b EXCEPT !.ask = seconds * unit]
           d == [c EXCEPT !.version = version]
<1>3. submit' = [submit EXCEPT ![s] = d] BY DEF Accepted
<1>4. a \in Creates BY Resting, CreateUpdates
<1> HIDE DEF a
<1>5. b \in Creates /\ b.seconds = seconds
  <2>1. b \in Creates BY <1>2, <1>4, CreateUpdates
  <2> QED BY <1>4, <2>1 DEF Creates
<1> HIDE DEF b
<1>6. c \in Creates /\ c.seconds = seconds /\ c.ask = seconds * unit
  <2>1. c \in Creates BY <1>2, <1>5, CreateUpdates
  <2> QED BY <1>5, <2>1 DEF Creates
<1> HIDE DEF c
<1>7. d \in Creates /\ d.seconds = seconds /\ d.ask = seconds * unit
  <2>1. d \in Creates BY <1>1, <1>6, CreateUpdates
  <2> QED BY <1>6, <2>1 DEF Creates
<1> HIDE DEF d
<1>8. CreateOK(d) BY <1>2, <1>7 DEF CreateOK, Priced
<1> QED BY <1>1, <1>3, <1>7, <1>8, OneCreate DEF IInv, CreatesOK

\* The key is read.
LEMMA ReadKeyStep ==
  ASSUME IInv, NEW s \in Submits, ReadKey(s)
  PROVE  CreatesGood
<1>1. submit \in [Submits -> Creates] /\ now \in Nat /\ spent \in Nat /\ submit[s] \in Creates
  BY DEF IInv, TypeOK
<1>2. Priced(submit[s].seconds, submit[s].ask) BY DEF ReadKey, IInv, CreatesOK, CreateOK
<1> DEFINE a == [submit[s] EXCEPT !.pc = "gate"]
           b == [a EXCEPT !.at = now]
           c == [b EXCEPT !.spent = spent]
<1>3. submit' = [submit EXCEPT ![s] = c] BY DEF ReadKey
<1>4. a \in Creates /\ a.seconds = submit[s].seconds /\ a.ask = submit[s].ask
  <2>1. a \in Creates BY <1>1, CreateUpdates
  <2> QED BY <1>1, <2>1 DEF Creates
<1> HIDE DEF a
<1>5. b \in Creates /\ b.seconds = a.seconds /\ b.ask = a.ask
  <2>1. b \in Creates BY <1>1, <1>4, CreateUpdates
  <2> QED BY <1>4, <2>1 DEF Creates
<1> HIDE DEF b
<1>6. c \in Creates /\ c.seconds = b.seconds /\ c.ask = b.ask
  <2>1. c \in Creates BY <1>1, <1>5, CreateUpdates
  <2> QED BY <1>5, <2>1 DEF Creates
<1> HIDE DEF c
<1>7. CreateOK(c) BY <1>2, <1>4, <1>5, <1>6 DEF CreateOK
<1> QED BY <1>1, <1>3, <1>6, <1>7, OneCreate DEF IInv, CreatesOK

\* The gate lets the call on or ends it.
LEMMA GateStep ==
  ASSUME IInv, NEW s \in Submits, Gate(s)
  PROVE  CreatesGood
<1>1. submit \in [Submits -> Creates] /\ submit[s] \in Creates BY DEF IInv, TypeOK
<1>2. Priced(submit[s].seconds, submit[s].ask) BY DEF Gate, IInv, CreatesOK, CreateOK
<1> DEFINE a == [submit[s] EXCEPT !.pc = "insert"]
<1>3. a \in Creates /\ a.seconds = submit[s].seconds /\ a.ask = submit[s].ask
  <2>1. a \in Creates BY <1>1, CreateUpdates
  <2> QED BY <1>1, <2>1 DEF Creates
<1>4. \/ submit' = [submit EXCEPT ![s] = a]
      \/ submit' = [submit EXCEPT ![s] = IdleSubmit] BY Zenon DEF Gate
<1> HIDE DEF a
<1>5. CreateOK(a) /\ CreateOK(IdleSubmit) BY <1>2, <1>3, Resting DEF CreateOK
<1> QED BY <1>1, <1>3, <1>4, <1>5, Resting, OneCreate DEF IInv, CreatesOK

\* The row is inserted.
LEMMA InsertStep ==
  ASSUME IInv, NEW s \in Submits, NEW t \in Tasks, Insert(s, t)
  PROVE  RowsGood /\ CreatesGood
<1>1. /\ submit[s] \in Creates /\ row \in [Tasks -> Rows] BY DEF IInv, TypeOK
<1>2. Priced(submit[s].seconds, submit[s].ask) BY DEF Insert, IInv, CreatesOK, CreateOK
<1>3. /\ submit[s].seconds \in Nat /\ submit[s].ask \in Nat /\ submit[s].version \in Nat
      /\ submit[s].at + Horizon \in Nat BY <1>1, NumbersAssumption DEF Creates
<1> DEFINE x == [status |-> "pending", seconds |-> submit[s].seconds,
                 estimated |-> submit[s].ask, usage |-> 0, billed |-> FALSE, micros |-> 0,
                 polled |-> 0, expires |-> submit[s].at + Horizon,
                 version |-> submit[s].version]
<1>4. row[t].status = "none" /\ row' = [row EXCEPT ![t] = x] BY DEF Insert
<1>5. Good(row[t], x) BY <1>1, <1>2, <1>3, <1>4, InsertIsGood DEF IInv, RowsOK
<1> HIDE DEF x
<1>6. RowsGood BY <1>4, <1>5, OneRow
<1>7. submit' = [submit EXCEPT ![s] = IdleSubmit] BY DEF Insert
<1>8. CreatesGood
  <2>1. CreateOK(IdleSubmit) BY Resting DEF CreateOK
  <2> QED BY <1>7, <2>1, Resting, OneCreate DEF IInv, TypeOK, CreatesOK
<1> QED BY <1>6, <1>8
----------------------------------------
(* What steps do to the polls, and what they answer. *)

\* What a poll holds still agrees with its row after a step.
LEMMA StillHolding ==
  ASSUME NEW r, NEW s, Good(r, s), NEW p, Holding(p, r)
  PROVE  Holding(p, s)
BY DEF Good, Becomes, Holding, Agrees

LEMMA SamePolls ==
  ASSUME IInv, RowsGood, get' = get
  PROVE  PollsGood
<1>1. get \in [Gets -> Polls] BY DEF IInv, TypeOK
<1>2. ASSUME NEW g \in Gets PROVE Holding(get'[g], row'[get'[g].task])
  <2>1. get[g].task \in Tasks BY <1>1 DEF Polls
  <2>2. Good(row[get[g].task], row'[get[g].task]) BY <2>1 DEF RowsGood
  <2>3. Holding(get[g], row[get[g].task]) BY DEF IInv, PollsOK
  <2> QED BY <2>2, <2>3, StillHolding
<1> QED BY <1>1, <1>2 DEF PollsGood, PollsOK

\* One poll changes.
LEMMA OnePoll ==
  ASSUME IInv, RowsGood, NEW g \in Gets, NEW p \in Polls, Holding(p, row'[p.task]),
         get' = [get EXCEPT ![g] = p]
  PROVE  PollsGood
<1>1. get \in [Gets -> Polls] BY DEF IInv, TypeOK
<1>2. get' \in [Gets -> Polls] BY <1>1
<1>3. ASSUME NEW h \in Gets PROVE Holding(get'[h], row'[get'[h].task])
  <2>1. CASE h = g BY <1>1, <2>1
  <2>2. CASE h # g
    <3>1. get'[h] = get[h] BY <1>1, <2>2
    <3>2. get[h].task \in Tasks BY <1>1 DEF Polls
    <3>3. Good(row[get[h].task], row'[get[h].task]) BY <3>2 DEF RowsGood
    <3>4. Holding(get[h], row[get[h].task]) BY DEF IInv, PollsOK
    <3> QED BY <3>1, <3>3, <3>4, StillHolding
  <2> QED BY <2>1, <2>2
<1> QED BY <1>2, <1>3 DEF PollsGood, PollsOK

\* What was told of a task stays on its row.
LEMMA SameTold ==
  ASSUME IInv, RowsGood, told' = told
  PROVE  ToldGood
<1>1. told \in [Tasks -> SUBSET Terminal] BY DEF IInv, TypeOK
<1>2. ASSUME NEW t \in Tasks PROVE told[t] \ {"expired"} \subseteq {row'[t].status}
  <2>1. Good(row[t], row'[t]) BY DEF RowsGood
  <2>2. told[t] \ {"expired"} \subseteq {row[t].status} BY DEF IInv, ToldIsOnRecord
  <2> QED BY <1>1, <2>1, <2>2 DEF Good, Becomes
<1> QED BY <1>1, <1>2 DEF ToldGood, ToldIsOnRecord

\* An answer that is on the row, or is no final one, or is an expiry.
LEMMA AnswerStep ==
  ASSUME IInv, RowsGood, NEW g \in Gets, NEW status, Answer(g, status),
         status \in Terminal \ {"expired"} => row'[get[g].task].status = status
  PROVE  PollsGood /\ ToldGood
<1>1. get \in [Gets -> Polls] /\ told \in [Tasks -> SUBSET Terminal] BY DEF IInv, TypeOK
<1> DEFINE t == get[g].task
<1>2. t \in Tasks BY <1>1 DEF Polls
<1>3. PollsGood
  <2>1. Holding(IdleGet, row'[IdleGet.task]) BY Resting DEF Holding
  <2> QED BY <2>1, Resting, OnePoll DEF Answer
<1> HIDE DEF t
<1>4. told' = [told EXCEPT ![t] = told[t] \cup ({status} \cap Terminal)] BY DEF Answer, t
<1>5. told' \in [Tasks -> SUBSET Terminal] BY <1>1, <1>2, <1>4
<1>6. ASSUME NEW u \in Tasks PROVE told'[u] \ {"expired"} \subseteq {row'[u].status}
  <2>1. Good(row[u], row'[u]) BY DEF RowsGood
  <2>2. told[u] \ {"expired"} \subseteq {row[u].status} BY DEF IInv, ToldIsOnRecord
  <2>3. told[u] \ {"expired"} \subseteq {row'[u].status} BY <1>1, <2>1, <2>2 DEF Good, Becomes
  <2>4. CASE u = t
    <3>1. told'[u] = told[u] \cup ({status} \cap Terminal) BY <1>1, <1>4, <2>4
    <3>2. status \in Terminal \ {"expired"} => row'[u].status = status BY <2>4 DEF t
    <3> QED BY <2>3, <3>1, <3>2
  <2>5. CASE u # t BY <1>1, <1>4, <2>3, <2>5
  <2> QED BY <2>4, <2>5
<1> QED BY <1>3, <1>5, <1>6 DEF ToldGood, ToldIsOnRecord

\* The types and what is held, for one poll in flight.
LEMMA PollFacts ==
  ASSUME IInv, NEW g \in Gets, get[g].pc # "idle"
  PROVE  /\ get[g] \in Polls /\ get[g].task \in Tasks /\ get[g].seen \in Rows
         /\ get[g].at \in Nat
         /\ row \in [Tasks -> Rows] /\ row[get[g].task] \in Rows /\ RowOK(row[get[g].task])
         /\ row[get[g].task].status # "none" /\ Agrees(get[g].seen, row[get[g].task])
         /\ get[g].pc = "asking" => get[g].seen.status \in NonTerminal
         /\ get[g].pc = "settling" => get[g].seen.status = "completed"
<1>1. get[g] \in Polls /\ row \in [Tasks -> Rows] BY DEF IInv, TypeOK
<1>2. get[g].task \in Tasks /\ get[g].seen \in Rows /\ get[g].at \in Nat BY <1>1 DEF Polls
<1>3. RowOK(row[get[g].task]) BY <1>2 DEF IInv, RowsOK
<1>4. Holding(get[g], row[get[g].task]) BY DEF IInv, PollsOK
<1> QED BY <1>1, <1>2, <1>3, <1>4 DEF Holding

LEMMA ReadStep ==
  ASSUME IInv, NEW g \in Gets, NEW t \in Tasks, Read(g, t)
  PROVE  RowsGood /\ PollsGood /\ ToldGood
<1>1. RowsGood BY SameRows DEF Read, rows
<1>2. ToldGood BY <1>1, SameTold DEF Read
<1> DEFINE p == [pc |-> "read", task |-> t, seen |-> row[t], at |-> now, home |-> FALSE]
<1>3. row[t] \in Rows /\ now \in Nat BY DEF IInv, TypeOK
<1>4. p \in Polls BY <1>3 DEF Polls
<1>5. p.pc = "read" /\ p.seen = row[t] /\ p.task = t OBVIOUS
<1>6. get' = [get EXCEPT ![g] = p] /\ row' = row /\ row[t].status # "none" BY DEF Read, rows
<1> HIDE DEF p
<1>7. Holding(p, row'[p.task]) BY <1>5, <1>6 DEF Holding, Agrees
<1> QED BY <1>1, <1>2, <1>4, <1>6, <1>7, OnePoll

LEMMA StoredStep ==
  ASSUME IInv, NEW g \in Gets, Stored(g)
  PROVE  RowsGood /\ PollsGood /\ ToldGood
<1>1. RowsGood /\ row' = row BY SameRows DEF Stored, rows
<1>2. get[g].pc # "idle" BY DEF Stored
<1>3. get[g].seen.status \in Terminal => row[get[g].task].status = get[g].seen.status
  BY <1>2, PollFacts DEF Agrees
<1>4. Answer(g, get[g].seen.status) BY DEF Stored
<1> QED BY <1>1, <1>3, <1>4, AnswerStep

LEMMA ExpireOnSightStep ==
  ASSUME IInv, NEW g \in Gets, ExpireOnSight(g)
  PROVE  RowsGood /\ PollsGood /\ ToldGood
<1> DEFINE t == get[g].task
           o == [status |-> "expired", usage |-> row[t].usage]
<1>1. get[g].pc # "idle" BY DEF ExpireOnSight, Open
<1>2. t \in Tasks /\ row[t] \in Rows /\ RowOK(row[t]) BY <1>1, PollFacts
<1>3. o.status \in NonTerminal \cup Terminal /\ o.usage \in Nat BY <1>2, RowFields DEF Terminal
<1>4. row' = [row EXCEPT ![t] = SaveResult(row[t], o)] BY DEF ExpireOnSight
<1> HIDE DEF o
<1>5. Good(row[t], SaveResult(row[t], o)) BY <1>2, <1>3, SavingIsGood
<1>6. RowsGood BY <1>2, <1>4, <1>5, OneRow
<1>7. Answer(g, "expired") BY DEF ExpireOnSight
<1> QED BY <1>6, <1>7, AnswerStep

LEMMA ClaimStep ==
  ASSUME IInv, NEW g \in Gets, Claim(g)
  PROVE  RowsGood /\ PollsGood /\ ToldGood
<1> DEFINE t == get[g].task
<1>1. get[g].pc = "read" /\ get[g].seen.status \in NonTerminal /\ Due(g) BY DEF Claim, Open
<1>2. /\ get[g] \in Polls /\ t \in Tasks /\ row[t] \in Rows /\ RowOK(row[t])
      /\ row[t].status # "none" /\ get[g].at \in Nat /\ Agrees(get[g].seen, row[t])
  BY <1>1, PollFacts
<1>3. CASE Claimable(row[t], get[g].seen)
  <2> DEFINE x == [row[t] EXCEPT !.polled = get[g].at]
             a == [get[g] EXCEPT !.pc = "asking"]
             b == [a EXCEPT !.home = (get[g].seen.version = version)]
  <2>1. row[t].status \in NonTerminal /\ row[t].polled = get[g].seen.polled BY <1>3 DEF Claimable
  <2>2. row[t].polled = 0 \/ get[g].at >= row[t].polled + Interval BY <1>1, <2>1 DEF Due
  <2>3. Good(row[t], x) BY <1>2, <2>1, <2>2, ClaimIsGood
  <2>4. row' = [row EXCEPT ![t] = x] BY <1>3 DEF Claim
  <2> HIDE DEF x
  <2>5. RowsGood BY <1>2, <2>3, <2>4, OneRow
  <2>6. told' = told /\ get' = [get EXCEPT ![g] = b] BY <1>3 DEF Claim
  <2>7. a \in Polls /\ a.pc = "asking" /\ a.task = t /\ a.seen = get[g].seen
    <3>1. a \in Polls BY <1>2, PollUpdates
    <3> QED BY <1>2, <3>1 DEF Polls
  <2> HIDE DEF a
  <2>8. b \in Polls /\ b.pc = "asking" /\ b.task = t /\ b.seen = get[g].seen
    <3>1. b \in Polls BY <2>7, PollUpdates
    <3> QED BY <2>7, <3>1 DEF Polls
  <2> HIDE DEF b
  <2>9. Good(row[t], row'[t]) BY <1>2, <2>5 DEF RowsGood
  <2>10. Holding(b, row[t]) BY <1>1, <1>2, <2>8 DEF Holding
  <2>11. Holding(b, row'[b.task]) BY <2>8, <2>9, <2>10, StillHolding
  <2> QED BY <2>5, <2>6, <2>8, <2>11, OnePoll, SameTold
<1>4. CASE ~Claimable(row[t], get[g].seen)
  <2>1. row' = row /\ Answer(g, get[g].seen.status) BY <1>4 DEF Claim
  <2>2. RowsGood BY <2>1, SameRows
  <2>3. get[g].seen.status \notin Terminal BY <1>1, StatusSets
  <2> QED BY <2>1, <2>2, <2>3, AnswerStep
<1> QED BY <1>3, <1>4

\* Any vendor's answer has a status of the vocabulary and a number of seconds.
LEMMA ObservationType ==
  ASSUME NEW o \in Observations
  PROVE  o.status \in NonTerminal \cup Terminal /\ o.usage \in Nat
<1>1. CASE \E s \in (NonTerminal \cup Terminal) \ {"completed"} :
               o = [status |-> s, usage |-> 0] BY <1>1
<1>2. CASE \E u \in Usages : o = [status |-> "completed", usage |-> u]
  BY <1>2, NumbersAssumption DEF Terminal
<1> QED BY <1>1, <1>2 DEF Observations

LEMMA ObserveStep ==
  ASSUME IInv, NEW g \in Gets, NEW o \in Observations, Observe(g, o)
  PROVE  RowsGood /\ PollsGood /\ ToldGood
<1> DEFINE t == get[g].task
<1>1. get[g].pc = "asking" BY DEF Observe
<1>2. /\ get[g] \in Polls /\ t \in Tasks /\ row[t] \in Rows /\ RowOK(row[t])
      /\ row[t].status # "none" /\ Agrees(get[g].seen, row[t]) /\ get[g].seen \in Rows
      /\ get[g].seen.status \in NonTerminal /\ row \in [Tasks -> Rows] BY <1>1, PollFacts
<1>3. o.status \in NonTerminal \cup Terminal /\ o.usage \in Nat /\ o.status \in Statuses
  BY ObservationType, StatusSets
<1> DEFINE x == SaveResult(row[t], o)
<1>4. row' = [row EXCEPT ![t] = x] BY DEF Observe
<1>5. Good(row[t], x) BY <1>2, <1>3, SavingIsGood
<1>6. RowsGood BY <1>2, <1>4, <1>5, OneRow
<1>7. row'[t] = x BY <1>2, <1>4
<1>8. CASE row[t].status \in NonTerminal /\ o.status = "completed"
  <2> DEFINE h == SaveResult(get[g].seen, o)
             a == [get[g] EXCEPT !.pc = "settling"]
             b == [a EXCEPT !.seen = h]
  <2>1. told' = told /\ get' = [get EXCEPT ![g] = b] BY <1>8 DEF Observe
  <2>2. /\ x.status = "completed" /\ x.usage = o.usage
        /\ x.seconds = row[t].seconds /\ x.estimated = row[t].estimated
    BY <1>2, <1>3, <1>8, SavedRow
  <2>3. /\ h \in Rows /\ h.status = "completed" /\ h.usage = o.usage
        /\ h.seconds = get[g].seen.seconds /\ h.estimated = get[g].seen.estimated
    BY <1>2, <1>3, <1>8, SavedRow
  <2> HIDE DEF x, h
  <2>4. Agrees(h, x) BY <1>2, <2>2, <2>3 DEF Agrees
  <2>5. a \in Polls /\ a.pc = "settling" /\ a.task = t
    <3>1. a \in Polls BY <1>2, PollUpdates
    <3> QED BY <1>2, <3>1 DEF Polls
  <2> HIDE DEF a
  <2>6. b \in Polls /\ b.pc = "settling" /\ b.task = t /\ b.seen = h
    <3>1. b \in Polls BY <2>3, <2>5, PollUpdates
    <3> QED BY <2>5, <3>1 DEF Polls
  <2> HIDE DEF b
  <2>7. Holding(b, row'[b.task]) BY <1>7, <2>2, <2>3, <2>4, <2>6 DEF Holding
  <2> QED BY <1>6, <2>1, <2>6, <2>7, OnePoll, SameTold
<1>9. CASE row[t].status \in NonTerminal /\ o.status # "completed"
  <2>1. Answer(g, o.status) BY <1>9 DEF Observe
  <2>2. x.status = o.status BY <1>2, <1>3, <1>9, SavedRow
  <2> HIDE DEF x
  <2> QED BY <1>6, <1>7, <2>1, <2>2, AnswerStep
<1>10. CASE row[t].status \notin NonTerminal
  <2>1. Answer(g, get[g].seen.status) BY <1>10 DEF Observe
  <2>2. get[g].seen.status \notin Terminal BY <1>2, StatusSets
  <2> QED BY <1>6, <2>1, <2>2, AnswerStep
<1> QED BY <1>8, <1>9, <1>10

LEMMA UnansweredStep ==
  ASSUME IInv, NEW g \in Gets, Unanswered(g)
  PROVE  RowsGood /\ PollsGood /\ ToldGood
<1>1. RowsGood BY SameRows DEF Unanswered, rows
<1>2. get[g].pc = "asking" /\ Answer(g, get[g].seen.status) BY DEF Unanswered
<1>3. get[g].seen.status \notin Terminal BY <1>2, PollFacts, StatusSets
<1> QED BY <1>1, <1>2, <1>3, AnswerStep

\* Whoever must settle holds a completed row that agrees with the one there is.
LEMMA SettlerHolds ==
  ASSUME IInv, NEW g \in Gets, MustSettle(g)
  PROVE  /\ get[g].task \in Tasks /\ get[g].seen \in Rows
         /\ get[g].seen.status = "completed" /\ row[get[g].task].status = "completed"
         /\ Agrees(get[g].seen, row[get[g].task])
<1>1. get[g].pc # "idle" BY DEF MustSettle
<1>2. get[g].seen.status = "completed" BY <1>1, PollFacts DEF MustSettle, Chargeable
<1>3. "completed" \in Terminal BY DEF Terminal
<1> QED BY <1>1, <1>2, <1>3, PollFacts DEF Agrees

LEMMA SettleStep ==
  ASSUME IInv, NEW g \in Gets, Settle(g)
  PROVE  RowsGood /\ PollsGood /\ ToldGood /\ CreatesGood /\ LogsGood /\ spent' \in Nat
<1> DEFINE t == get[g].task
<1>1. /\ t \in Tasks /\ get[g].seen \in Rows /\ get[g].seen.status = "completed"
      /\ row[t].status = "completed" /\ Agrees(get[g].seen, row[t]) BY SettlerHolds DEF Settle
<1>2. Charge(t, get[g].seen) /\ Answer(g, "completed") BY DEF Settle
<1>3. RowsGood /\ LogsGood /\ spent' \in Nat BY <1>1, <1>2, ChargeStep
<1>4. CreatesGood BY SameCreates DEF Settle
<1>5. Good(row[t], row'[t]) BY <1>1, <1>3 DEF RowsGood
<1>6. row'[t].status = "completed" BY <1>1, <1>5 DEF Good, Becomes, Terminal
<1> QED BY <1>2, <1>3, <1>4, <1>6, AnswerStep

LEMMA SettleFailsStep ==
  ASSUME IInv, NEW g \in Gets, SettleFails(g)
  PROVE  RowsGood /\ PollsGood /\ ToldGood
<1>1. RowsGood /\ row' = row BY SameRows DEF SettleFails, rows
<1>2. row[get[g].task].status = "completed" BY SettlerHolds DEF SettleFails
<1>3. Answer(g, "completed") BY DEF SettleFails
<1> QED BY <1>1, <1>2, <1>3, AnswerStep
----------------------------------------
(* All steps. *)

Sweeps == [pc : {"idle", "listing", "settling"}, todo : SUBSET Tasks]

\* The logs after a step that leaves the rows well and settles nothing.
LEMMA SameLogs ==
  ASSUME IInv, RowsGood, digest' = digest
  PROVE  LogsGood
<1>1. digest \in SUBSET Tasks BY DEF IInv, TypeOK
<1>2. ASSUME NEW t \in digest PROVE row'[t].billed
  <2>1. row[t].billed /\ Good(row[t], row'[t]) BY <1>1 DEF IInv, LogsOK, RowsGood
  <2> QED BY <2>1 DEF Good, Becomes
<1> QED BY <1>1, <1>2 DEF LogsGood, LogsOK

\* The sweep's record and the rows, calls and polls through the reaper's steps.
LEMMA ReapingStep ==
  ASSUME IInv, Reaping
  PROVE  /\ RowsGood /\ CreatesGood /\ LogsGood /\ spent' \in Nat /\ sweep' \in Sweeps
         /\ get' = get /\ told' = told /\ now' = now /\ version' = version
<1>1. /\ row \in [Tasks -> Rows] /\ spent \in Nat /\ sweep \in Sweeps
      /\ digest \in SUBSET Tasks BY DEF IInv, TypeOK, Sweeps
<1>2. IdleSweep \in Sweeps BY DEF IdleSweep, Sweeps
<1>3. ASSUME NEW t PROVE Done(t) \in Sweeps
  <2>1. [sweep EXCEPT !.todo = sweep.todo \ {t}] \in Sweeps BY <1>1 DEF Sweeps
  <2> QED BY <1>2, <2>1 DEF Done
<1>4. ASSUME row' = row, digest' = digest PROVE RowsGood /\ LogsGood BY <1>4, SameRows, SameLogs
<1>5. CASE SweepExpire
  <2>1. row' = [t \in Tasks |-> IF t \in {u \in Tasks : Stale(row[u])}
                                THEN Expired(row[t]) ELSE row[t]] BY <1>5 DEF SweepExpire
  <2>2. RowsGood BY <2>1, SomeExpire DEF Stale
  <2>3. /\ sweep' \in Sweeps /\ spent' = spent /\ digest' = digest
        /\ submit' = submit /\ get' = get /\ told' = told /\ now' = now /\ version' = version
    BY <1>5 DEF SweepExpire, Sweeps
  <2> QED BY <2>2, <2>3, <1>1, SameLogs, SameCreates
<1>6. CASE SweepList
  <2>1. PICK todo \in SUBSET Tasks :
            sweep' = IF todo = {} THEN IdleSweep ELSE [pc |-> "settling", todo |-> todo]
    BY <1>6 DEF SweepList
  <2>2. sweep' \in Sweeps BY <1>2, <2>1 DEF Sweeps
  <2>3. /\ row' = row /\ digest' = digest /\ spent' = spent /\ submit' = submit
        /\ get' = get /\ told' = told /\ now' = now /\ version' = version
    BY <1>6 DEF SweepList, rows
  <2> QED BY <1>1, <1>4, <2>2, <2>3, SameCreates
<1>7. CASE \E t \in Tasks : SweepSettle(t)
  <2>1. PICK t \in Tasks : SweepSettle(t) BY <1>7
  <2>2. /\ Charge(t, row[t]) /\ sweep' = Done(t)
        /\ get' = get /\ told' = told /\ now' = now /\ version' = version
        /\ submit' = submit BY <2>1 DEF SweepSettle
  <2>3. Chargeable(row[t]) => row[t].status = "completed" /\ Agrees(row[t], row[t])
    BY DEF Chargeable, Agrees
  <2>4. RowsGood /\ spent' \in Nat /\ LogsGood BY <1>1, <2>2, <2>3, ChargeStep
  <2> QED BY <1>3, <2>2, <2>4, SameCreates
<1>8. CASE SweepFails
  <2>1. sweep' \in Sweeps BY <1>2, <1>3, <1>8 DEF SweepFails
  <2>2. /\ row' = row /\ digest' = digest /\ spent' = spent /\ submit' = submit
        /\ get' = get /\ told' = told /\ now' = now /\ version' = version
    BY <1>8 DEF SweepFails, rows
  <2> QED BY <1>1, <1>4, <2>1, <2>2, SameCreates
<1> QED BY <1>5, <1>6, <1>7, <1>8 DEF Reaping

\* Everything a step must leave well.
AllGood == /\ RowsGood /\ CreatesGood /\ PollsGood /\ ToldGood /\ LogsGood
           /\ now' \in Nat /\ version' \in Nat /\ spent' \in Nat /\ sweep' \in Sweeps

LEMMA AllGoodSuffices ==
  ASSUME AllGood
  PROVE  IInv'
<1>1. TypeOK' BY DEF AllGood, RowsGood, CreatesGood, PollsGood, ToldGood, LogsGood, Sweeps, TypeOK
<1>2. RowsOK' BY DEF AllGood, RowsGood, Good, RowsOK
<1>3. CreatesOK' /\ PollsOK' /\ LogsOK' /\ ToldIsOnRecord'
  BY DEF AllGood, CreatesGood, PollsGood, LogsGood, ToldGood
<1> QED BY <1>1, <1>2, <1>3 DEF IInv

LEMMA CreatingStep ==
  ASSUME IInv, NEW s \in Submits, Creating(s)
  PROVE  AllGood
<1>1. /\ now \in Nat /\ version \in Nat /\ spent \in Nat /\ sweep \in Sweeps
  BY DEF IInv, TypeOK, Sweeps
<1>2. CASE \/ \E seconds \in Lengths, unit \in Units : Accepted(s, seconds, unit)
           \/ ReadKey(s) \/ Gate(s)
  <2>1. CreatesGood
    <3>1. CASE \E seconds \in Lengths, unit \in Units : Accepted(s, seconds, unit)
      <4>1. PICK seconds \in Lengths : \E unit \in Units : Accepted(s, seconds, unit) BY <3>1
      <4>2. PICK unit \in Units : Accepted(s, seconds, unit) BY <4>1
      <4> QED BY <4>2, AcceptedStep
    <3>2. CASE ReadKey(s) BY <3>2, ReadKeyStep
    <3>3. CASE Gate(s) BY <3>3, GateStep
    <3> QED BY <1>2, <3>1, <3>2, <3>3
  <2>2. /\ now' = now /\ version' = version /\ spent' = spent /\ sweep' = sweep
        /\ row' = row /\ digest' = digest /\ get' = get /\ told' = told
    BY <1>2 DEF Accepted, ReadKey, Gate, rows
  <2>3. RowsGood BY <2>2, SameRows
  <2> QED BY <1>1, <2>1, <2>2, <2>3, SamePolls, SameTold, SameLogs DEF AllGood
<1>3. CASE \E t \in Tasks : Insert(s, t)
  <2>1. PICK t \in Tasks : Insert(s, t) BY <1>3
  <2>2. /\ now' = now /\ version' = version /\ spent' = spent /\ sweep' = sweep
        /\ digest' = digest /\ get' = get /\ told' = told BY <2>1 DEF Insert
  <2> QED BY <1>1, <2>1, <2>2, InsertStep, SamePolls, SameTold, SameLogs DEF AllGood
<1> QED BY <1>2, <1>3 DEF Creating

LEMMA PollingStep ==
  ASSUME IInv, NEW g \in Gets, Polling(g)
  PROVE  AllGood
<1>1. /\ now \in Nat /\ version \in Nat /\ spent \in Nat /\ sweep \in Sweeps
  BY DEF IInv, TypeOK, Sweeps
<1>2. CASE Settle(g)
  <2>1. now' = now /\ version' = version /\ sweep' = sweep BY <1>2 DEF Settle
  <2> QED BY <1>1, <1>2, <2>1, SettleStep DEF AllGood
<1>3. CASE ~Settle(g)
  <2>1. RowsGood /\ PollsGood /\ ToldGood
    BY <1>3, ReadStep, StoredStep, ExpireOnSightStep, ClaimStep, ObserveStep,
       UnansweredStep, SettleFailsStep DEF Polling
  <2>2. /\ now' = now /\ version' = version /\ spent' = spent /\ sweep' = sweep
        /\ digest' = digest /\ submit' = submit
    BY <1>3 DEF Polling, Read, Stored, ExpireOnSight, Claim, Observe, Unanswered,
                SettleFails, rows
  <2> QED BY <1>1, <2>1, <2>2, SameLogs, SameCreates DEF AllGood
<1> QED BY <1>2, <1>3

\* The provider retires the tasks of other versions.
LEMMA RetiringStep ==
  ASSUME IInv, Move \/ LastKeyDeleted
  PROVE  AllGood
<1>1. /\ now \in Nat /\ version \in Nat /\ spent \in Nat /\ sweep \in Sweeps
  BY DEF IInv, TypeOK, Sweeps
<1>2. PICK v : row' = Retired(v) BY DEF Move, LastKeyDeleted
<1> DEFINE S == {t \in Tasks : row[t].status \in NonTerminal /\ row[t].version # v}
<1>3. row' = [t \in Tasks |-> IF t \in S THEN Expired(row[t]) ELSE row[t]] BY <1>2 DEF Retired
<1>4. \A t \in Tasks \cap S : row[t].status \in NonTerminal OBVIOUS
<1> HIDE DEF S
<1>5. RowsGood BY <1>3, <1>4, SomeExpire
<1>6. /\ now' = now /\ version' \in Nat /\ spent' = spent /\ sweep' = sweep
      /\ digest' = digest /\ submit' = submit /\ get' = get /\ told' = told
  BY <1>1 DEF Move, LastKeyDeleted
<1> QED BY <1>1, <1>5, <1>6, SamePolls, SameTold, SameLogs, SameCreates DEF AllGood

LEMMA CrashStep ==
  ASSUME IInv, Crash
  PROVE  AllGood
<1>1. /\ now' = now /\ version' = version /\ spent' = spent /\ digest' = digest
      /\ told' = told /\ row' = row /\ sweep' = IdleSweep
      /\ submit' = [s \in Submits |-> IdleSubmit] /\ get' = [g \in Gets |-> IdleGet]
  BY DEF Crash, rows
<1>2. now \in Nat /\ version \in Nat /\ spent \in Nat BY DEF IInv, TypeOK
<1>3. RowsGood BY <1>1, SameRows
<1>4. CreatesGood BY <1>1, Resting DEF CreatesGood, CreatesOK, CreateOK
<1>5. PollsGood BY <1>1, Resting DEF PollsGood, PollsOK, Holding
<1>6. IdleSweep \in Sweeps BY DEF IdleSweep, Sweeps
<1> QED BY <1>1, <1>2, <1>3, <1>4, <1>5, <1>6, SameTold, SameLogs DEF AllGood

\* A tick of the clock, or nothing at all.
LEMMA QuietStep ==
  ASSUME IInv, Tick \/ UNCHANGED vars
  PROVE  AllGood
<1>1. /\ version' = version /\ spent' = spent /\ digest' = digest /\ sweep' = sweep
      /\ told' = told /\ row' = row /\ submit' = submit /\ get' = get BY DEF Tick, vars, rows
<1>2. now \in Nat /\ version \in Nat /\ spent \in Nat /\ sweep \in Sweeps
  BY DEF IInv, TypeOK, Sweeps
<1>3. now' \in Nat BY <1>2 DEF Tick, vars
<1>4. RowsGood BY <1>1, SameRows
<1> QED BY <1>1, <1>2, <1>3, <1>4, SamePolls, SameTold, SameLogs, SameCreates DEF AllGood

LEMMA StepIsGood == IInv /\ [Next]_vars => AllGood
<1> SUFFICES ASSUME IInv, [Next]_vars PROVE AllGood OBVIOUS
<1>1. CASE \E s \in Submits : Creating(s) BY <1>1, CreatingStep
<1>2. CASE \E g \in Gets : Polling(g) BY <1>2, PollingStep
<1>3. CASE Reaping
  <2>1. /\ RowsGood /\ CreatesGood /\ LogsGood /\ spent' \in Nat /\ sweep' \in Sweeps
        /\ get' = get /\ told' = told /\ now' = now /\ version' = version BY <1>3, ReapingStep
  <2>2. now \in Nat /\ version \in Nat BY DEF IInv, TypeOK
  <2> QED BY <2>1, <2>2, SamePolls, SameTold DEF AllGood
<1>4. CASE Move \/ LastKeyDeleted BY <1>4, RetiringStep
<1>5. CASE Crash BY <1>5, CrashStep
<1>6. CASE Tick \/ UNCHANGED vars BY <1>6, QuietStep
<1> QED BY <1>1, <1>2, <1>3, <1>4, <1>5, <1>6 DEF Next

LEMMA Inductive == IInv /\ [Next]_vars => IInv'
BY StepIsGood, AllGoodSuffices
----------------------------------------
(* The theorems. *)

\* The invariant holds in every reachable state.
THEOREM Invariance == Spec => []IInv
<1> QED BY Initially, Inductive, PTL DEF Spec

\* The variables keep their types.
THEOREM TypeCorrect == Spec => []TypeOK
<1>1. IInv => TypeOK BY DEF IInv
<1> QED BY <1>1, Invariance, PTL

\* A bill is of a completed task, for what was delivered at the price asked: though
\* settle multiplies what it holds, and any poll or sweep may be the one that charges.
THEOREM BillsAreDue == Spec => []BillIsOfTheDelivery
<1>1. IInv => BillIsOfTheDelivery
  <2> SUFFICES ASSUME IInv, NEW t \in Tasks
               PROVE  /\ row[t].billed =>
                           /\ row[t].status = "completed"
                           /\ row[t].micros * row[t].seconds = row[t].usage * row[t].estimated
                      /\ ~row[t].billed => row[t].micros = 0 /\ t \notin digest
    BY DEF BillIsOfTheDelivery
  <2>1. RowOK(row[t]) BY DEF IInv, RowsOK
  <2>2. t \in digest => row[t].billed BY DEF IInv, LogsOK
  <2> QED BY <2>1, <2>2 DEF RowOK
<1> QED BY <1>1, Invariance, PTL

\* What a poll told of a task's end, but for an expiry it saw coming, is on its row.
THEOREM AnswersAreOnRecord == Spec => []ToldIsOnRecord
<1>1. IInv => ToldIsOnRecord BY DEF IInv
<1> QED BY <1>1, Invariance, PTL

\* A finished task stays as it finished.
THEOREM FinalStays == Spec => TerminalIsFinal
<1>1. IInv /\ [Next]_vars =>
          [\A t \in Tasks : row[t].status \in Terminal =>
               row'[t].status = row[t].status /\ row'[t].usage = row[t].usage]_vars
  BY StepIsGood DEF AllGood, RowsGood, Good, Becomes
<1> QED BY <1>1, Invariance, AnswersAreOnRecord, PTL DEF Spec, TerminalIsFinal

\* Whatever the polls hold, one task is asked about at most once an interval.
THEOREM PollsPaced == Spec => PollsArePaced
<1>1. IInv /\ [Next]_vars =>
          [\A t \in Tasks : row'[t].polled # row[t].polled =>
               row[t].polled = 0 \/ row'[t].polled >= row[t].polled + Interval]_vars
  BY StepIsGood DEF AllGood, RowsGood, Good, Becomes
<1> QED BY <1>1, Invariance, PTL DEF Spec, PollsArePaced

\* All of it.
THEOREM RowsKept == Spec => RowsAreKept
<1> QED BY BillsAreDue, FinalStays, PollsPaced, PTL DEF RowsAreKept
----------------------------------------
(* Sums over the tasks.  A fold is defined through a function on sets of   *)
(* tasks that equals its own unfolding; that there is one, and what it     *)
(* comes to, is shown on a smallest set that would be an exception.        *)

\* A set of numbers that has a member has a least one.
LEMMA Least ==
  ASSUME NEW T, T \subseteq Nat, T # {}
  PROVE  \E n \in T : \A m \in T : ~(m < n)
<1> DEFINE R == OpToRel(<, Nat)
<1>1. \E n \in T : \A m \in T : ~(<<m, n>> \in R)
  <2>1. IsWellFoundedOn(R, Nat) BY NatLessThanWellFounded, Zenon
  <2> HIDE DEF R
  <2> QED BY <2>1, WFMin
<1>2. \A m, n \in Nat : m < n => <<m, n>> \in R BY Zenon DEF OpToRel
<1> HIDE DEF R
<1> QED BY <1>1, <1>2

\* Taking an element out of a set of tasks leaves fewer.
LEMMA Fewer ==
  ASSUME NEW s \in SUBSET Tasks, NEW x \in s
  PROVE  /\ s \ {x} \in SUBSET Tasks
         /\ Cardinality(s) \in Nat /\ Cardinality(s \ {x}) \in Nat
         /\ Cardinality(s \ {x}) < Cardinality(s)
<1>1. IsFiniteSet(s) BY FS_Subset
<1>2. IsFiniteSet(s \ {x}) /\ Cardinality(s \ {x}) = Cardinality(s) - 1 BY <1>1, FS_RemoveElement
<1>3. Cardinality(s) \in Nat /\ Cardinality(s \ {x}) \in Nat BY <1>1, <1>2, FS_CardinalityType
<1> QED BY <1>2, <1>3

\* Among some sets of tasks there is one that none of them is smaller than.
LEMMA Smallest ==
  ASSUME NEW S, S \subseteq SUBSET Tasks, S # {}
  PROVE  \E s \in S : \A x \in s : s \ {x} \notin S
<1> DEFINE T == {Cardinality(s) : s \in S}
<1>1. \A s \in S : IsFiniteSet(s) BY FS_Subset
<1>2. T \subseteq Nat BY <1>1, FS_CardinalityType
<1>3. \E n \in T : \A m \in T : ~(m < n)
  <2>1. T # {} OBVIOUS
  <2> HIDE DEF T
  <2> QED BY <1>2, <2>1, Least
<1>4. PICK s \in S : \A u \in S : ~(Cardinality(u) < Cardinality(s)) BY <1>3
<1>5. \A x \in s : s \ {x} \notin S BY <1>4, Fewer
<1> QED BY <1>5

\* How the sum over a set of tasks is made up: an element is picked, and the rest summed.
Pick(s) == CHOOSE x \in s : TRUE
Summed(W, iter, D) ==
  iter = [s \in D |-> IF s = {} THEN 0 ELSE W[Pick(s)].micros + iter[s \ {Pick(s)}]]

LEMMA PickIsIn ==
  ASSUME NEW s, s # {}
  PROVE  Pick(s) \in s
<1>1. \E x \in s : TRUE OBVIOUS
<1> QED BY <1>1, Zenon DEF Pick

\* What the rows say is charged.
Charged(W) == MapThenSumSet(LAMBDA t : W[t].micros, Tasks)

LEMMA Unfolds ==
  ASSUME NEW W
  PROVE  Charged(W) = (CHOOSE iter : Summed(W, iter, SUBSET Tasks))[Tasks]
BY Zenon DEF Charged, MapThenSumSet, MapThenFoldSet, Summed, Pick

\* The sets of at most n tasks.
UpTo(n) == {s \in SUBSET Tasks : Cardinality(s) <= n}

\* Such a function there is: on the sets of n elements it is made of its values on
\* those of n - 1.
LEMMA SumExtends ==
  ASSUME NEW W, NEW n \in Nat, n > 0 => \E iter : Summed(W, iter, UpTo(n - 1))
  PROVE  \E iter : Summed(W, iter, UpTo(n))
<1>1. \A s \in UpTo(n) : s # {} => s \ {Pick(s)} \in UpTo(n) /\ n > 0 /\ s \ {Pick(s)} \in UpTo(n - 1)
  <2> SUFFICES ASSUME NEW s \in UpTo(n), s # {}
               PROVE  s \ {Pick(s)} \in UpTo(n) /\ n > 0 /\ s \ {Pick(s)} \in UpTo(n - 1) OBVIOUS
  <2>1. Pick(s) \in s BY PickIsIn
  <2> DEFINE u == s \ {Pick(s)}
  <2>2. /\ u \in SUBSET Tasks /\ Cardinality(s) \in Nat /\ Cardinality(u) \in Nat
        /\ Cardinality(u) < Cardinality(s) /\ Cardinality(s) <= n BY <2>1, Fewer DEF UpTo
  <2> HIDE DEF u
  <2>3. u \in UpTo(n) /\ n > 0 /\ u \in UpTo(n - 1) BY <2>2 DEF UpTo
  <2> QED BY <2>3 DEF u
<1>2. CASE n = 0
  <2>1. \A s \in UpTo(n) : s = {} BY <1>1, <1>2
  <2> DEFINE h == [s \in UpTo(n) |-> 0]
  <2>2. h = [s \in UpTo(n) |-> IF s = {} THEN 0 ELSE W[Pick(s)].micros + h[s \ {Pick(s)}]] BY <2>1
  <2> HIDE DEF h
  <2> QED BY <2>2 DEF Summed
<1>3. CASE n > 0
  <2>1. PICK g : Summed(W, g, UpTo(n - 1)) BY <1>3
  <2> DEFINE h == [s \in UpTo(n) |->
                       IF s = {} THEN 0 ELSE W[Pick(s)].micros + g[s \ {Pick(s)}]]
  <2>2. \A s \in UpTo(n - 1) : s \in UpTo(n)
    <3>1. \A s \in SUBSET Tasks : Cardinality(s) \in Nat BY FS_Subset, FS_CardinalityType
    <3> QED BY <1>3, <3>1 DEF UpTo
  <2>3. \A s \in UpTo(n - 1) :
            g[s] = IF s = {} THEN 0 ELSE W[Pick(s)].micros + g[s \ {Pick(s)}] BY <2>1 DEF Summed
  <2>4. \A s \in UpTo(n - 1) : h[s] = g[s] BY <2>2, <2>3
  <2>5. \A s \in UpTo(n) : s # {} => h[s \ {Pick(s)}] = g[s \ {Pick(s)}]
    <3> HIDE DEF h
    <3> QED BY <1>1, <2>4
  <2>6. h = [s \in UpTo(n) |-> IF s = {} THEN 0 ELSE W[Pick(s)].micros + h[s \ {Pick(s)}]]
    <3> DEFINE k == [s \in UpTo(n) |->
                         IF s = {} THEN 0 ELSE W[Pick(s)].micros + h[s \ {Pick(s)}]]
    <3>1. \A s \in UpTo(n) : h[s] = k[s] BY <2>5
    <3> QED BY <3>1
  <2> HIDE DEF h
  <2> QED BY <2>6 DEF Summed
<1> QED BY <1>2, <1>3

LEMMA SumExists ==
  ASSUME NEW W
  PROVE  \E iter : Summed(W, iter, SUBSET Tasks)
<1> DEFINE T == {n \in Nat : ~\E iter : Summed(W, iter, UpTo(n))}
<1>1. T = {}
  <2> SUFFICES ASSUME T # {} PROVE FALSE OBVIOUS
  <2>1. T \subseteq Nat OBVIOUS
  <2>2. \E n \in T : \A m \in T : ~(m < n)
    <3> HIDE DEF T
    <3> QED BY <2>1, Least
  <2>3. PICK n \in T : \A m \in T : ~(m < n) BY <2>2
  <2>4. n \in Nat /\ (n > 0 => n - 1 \in Nat /\ n - 1 < n) BY <2>1
  <2>5. n > 0 => n - 1 \notin T BY <2>3, <2>4
  <2>6. n > 0 => \E iter : Summed(W, iter, UpTo(n - 1)) BY <2>4, <2>5
  <2> QED BY <2>3, <2>4, <2>6, SumExtends
<1>2. Cardinality(Tasks) \in Nat BY FS_CardinalityType
<1>3. \E iter : Summed(W, iter, UpTo(Cardinality(Tasks))) BY <1>1, <1>2
<1>4. UpTo(Cardinality(Tasks)) = SUBSET Tasks BY FS_Subset DEF UpTo
<1> QED BY <1>3, <1>4

\* The sum over nothing, and over a set and the set without what is picked.
AddsUp(W, iter) ==
  /\ iter[{}] = 0
  /\ \A s \in (SUBSET Tasks) \ {{}} : iter[s] = W[Pick(s)].micros + iter[s \ {Pick(s)}]

LEMMA SumUnfolds ==
  ASSUME NEW W, NEW iter, Summed(W, iter, SUBSET Tasks)
  PROVE  AddsUp(W, iter)
<1>1. ASSUME NEW s \in SUBSET Tasks
      PROVE  iter[s] = IF s = {} THEN 0 ELSE W[Pick(s)].micros + iter[s \ {Pick(s)}] BY DEF Summed
<1>2. iter[{}] = 0 BY <1>1
<1>3. ASSUME NEW s \in (SUBSET Tasks) \ {{}}
      PROVE  iter[s] = W[Pick(s)].micros + iter[s \ {Pick(s)}] BY <1>1, <1>3
<1> QED BY <1>2, <1>3 DEF AddsUp

\* A step that changes the charge of one task changes the total by as much.
LEMMA ChargedStep ==
  ASSUME NEW W, NEW V, \A u \in Tasks : W[u].micros \in Nat /\ V[u].micros \in Nat,
         NEW t \in Tasks, \A u \in Tasks \ {t} : V[u].micros = W[u].micros
  PROVE  /\ Charged(W) \in Nat /\ Charged(V) \in Nat
         /\ Charged(V) + W[t].micros = Charged(W) + V[t].micros
<1> DEFINE f == CHOOSE iter : Summed(W, iter, SUBSET Tasks)
           h == CHOOSE iter : Summed(V, iter, SUBSET Tasks)
<1>1. Summed(W, f, SUBSET Tasks) /\ Summed(V, h, SUBSET Tasks) BY SumExists, Zenon
<1>2. Charged(W) = f[Tasks] /\ Charged(V) = h[Tasks] BY Unfolds, Zenon
<1> HIDE DEF f, h
<1>3. /\ f[{}] = 0
      /\ \A s \in (SUBSET Tasks) \ {{}} : f[s] = W[Pick(s)].micros + f[s \ {Pick(s)}]
  <2>1. AddsUp(W, f) BY <1>1, SumUnfolds
  <2> QED BY <2>1 DEF AddsUp
<1>4. /\ h[{}] = 0
      /\ \A s \in (SUBSET Tasks) \ {{}} : h[s] = V[Pick(s)].micros + h[s \ {Pick(s)}]
  <2>1. AddsUp(V, h) BY <1>1, SumUnfolds
  <2> QED BY <2>1 DEF AddsUp
<1> DEFINE Fits(s) == /\ f[s] \in Nat /\ h[s] \in Nat
                      /\ t \notin s => h[s] = f[s]
                      /\ t \in s => h[s] + W[t].micros = f[s] + V[t].micros
           S == {s \in SUBSET Tasks : ~Fits(s)}
<1>5. S = {}
  <2> SUFFICES ASSUME S # {} PROVE FALSE OBVIOUS
  <2>1. S \subseteq SUBSET Tasks OBVIOUS
  <2>2. \E s \in S : \A x \in s : s \ {x} \notin S
    <3> HIDE DEF S
    <3> QED BY <2>1, Smallest
  <2>3. PICK s \in S : \A x \in s : s \ {x} \notin S BY <2>2
  <2>4. s \in SUBSET Tasks /\ ~Fits(s) BY <2>3
  <2>5. CASE s = {}
    <3>1. f[s] = 0 /\ h[s] = 0 /\ t \notin s BY <1>3, <1>4, <2>5
    <3> QED BY <2>4, <3>1
  <2>6. CASE s # {}
    <3> DEFINE p == Pick(s)
               u == s \ {p}
    <3>1. /\ p \in s /\ p \in Tasks /\ u \in SUBSET Tasks
          /\ f[s] = W[p].micros + f[u] /\ h[s] = V[p].micros + h[u]
      <4>1. s \in (SUBSET Tasks) \ {{}} BY <2>4, <2>6
      <4>2. p \in s BY <2>6, PickIsIn
      <4>3. f[s] = W[p].micros + f[u] /\ h[s] = V[p].micros + h[u] BY <1>3, <1>4, <4>1
      <4> QED BY <2>4, <4>2, <4>3
    <3>2. Fits(u) BY <2>3, <3>1
    <3>3. t \in s <=> t \in u \/ p = t BY <3>1
    <3>4. p = t => t \notin u OBVIOUS
    <3>5. p # t => V[p].micros = W[p].micros BY <3>1
    <3>6. /\ W[p].micros \in Nat /\ V[p].micros \in Nat /\ W[t].micros \in Nat /\ V[t].micros \in Nat
      BY <3>1
    <3> HIDE DEF p, u
    <3>7. Fits(s) BY <3>1, <3>2, <3>3, <3>4, <3>5, <3>6
    <3> QED BY <2>4, <3>7
  <2> QED BY <2>5, <2>6
<1>6. Fits(Tasks) BY <1>5
<1> QED BY <1>2, <1>6

\* Rows that charge nothing total to nothing.
LEMMA NothingCharged ==
  ASSUME NEW W, \A u \in Tasks : W[u].micros = 0
  PROVE  Charged(W) = 0
<1> DEFINE f == CHOOSE iter : Summed(W, iter, SUBSET Tasks)
           S == {s \in SUBSET Tasks : f[s] # 0}
<1>1. Summed(W, f, SUBSET Tasks) BY SumExists, Zenon
<1>2. Charged(W) = f[Tasks] BY Unfolds, Zenon
<1> HIDE DEF f
<1>0. /\ f[{}] = 0
      /\ \A s \in (SUBSET Tasks) \ {{}} : f[s] = W[Pick(s)].micros + f[s \ {Pick(s)}]
  <2>1. AddsUp(W, f) BY <1>1, SumUnfolds
  <2> QED BY <2>1 DEF AddsUp
<1>3. S = {}
  <2> SUFFICES ASSUME S # {} PROVE FALSE OBVIOUS
  <2>1. S \subseteq SUBSET Tasks OBVIOUS
  <2>2. \E s \in S : \A x \in s : s \ {x} \notin S
    <3> HIDE DEF S
    <3> QED BY <2>1, Smallest
  <2>3. PICK s \in S : \A x \in s : s \ {x} \notin S BY <2>2
  <2>4. s \in SUBSET Tasks /\ f[s] # 0 BY <2>3
  <2>5. /\ s # {} /\ Pick(s) \in s /\ s \ {Pick(s)} \in SUBSET Tasks
        /\ f[s] = W[Pick(s)].micros + f[s \ {Pick(s)}] BY <1>0, <2>4, PickIsIn
  <2>6. f[s \ {Pick(s)}] = 0 BY <2>3, <2>5
  <2> QED BY <2>4, <2>5, <2>6
<1> QED BY <1>2, <1>3
----------------------------------------
(* The key's account. *)

\* The account in terms of Charged, in a state and in the next.
LEMMA AccountForm == /\ SpentIsBilled <=> spent = Charged(row)
                     /\ SpentIsBilled' <=> spent' = Charged(row')
BY Zenon DEF SpentIsBilled, Charged, MapThenSumSet, MapThenFoldSet

\* Nothing but a charge touches what a row is charged.
LEMMA KeptMicros ==
  ASSUME NEW r \in Rows, NEW o, NEW x
  PROVE  /\ Expired(r).micros = r.micros /\ SaveResult(r, o).micros = r.micros
         /\ [r EXCEPT !.polled = x].micros = r.micros
BY DEF Rows, Expired, SaveResult

\* A step that charges nobody keeps the account.
SameCharges == spent' = spent /\ \A t \in Tasks : row'[t].micros = row[t].micros

LEMMA NobodyCharged ==
  ASSUME IInv, SpentIsBilled, SameCharges
  PROVE  SpentIsBilled'
<1>1. \A t \in Tasks : row[t].micros \in Nat BY RowFields DEF IInv, TypeOK
<1>2. PICK t \in Tasks : TRUE BY TaskAssumption
<1>3. /\ \A u \in Tasks : row[u].micros \in Nat /\ row'[u].micros \in Nat
      /\ \A u \in Tasks \ {t} : row'[u].micros = row[u].micros
      /\ row'[t].micros = row[t].micros BY <1>1 DEF SameCharges
<1>4. /\ Charged(row) \in Nat /\ Charged(row') \in Nat
      /\ Charged(row') + row[t].micros = Charged(row) + row'[t].micros BY <1>3, ChargedStep
<1>5. row[t].micros \in Nat /\ row'[t].micros = row[t].micros BY <1>3
<1>6. Charged(row') = Charged(row) BY <1>4, <1>5
<1> QED BY <1>6, AccountForm DEF SameCharges

\* One row takes something that is not a charge.
LEMMA OtherUpdate ==
  ASSUME IInv, NEW t \in Tasks, NEW x, x.micros = row[t].micros,
         row' = [row EXCEPT ![t] = x], spent' = spent
  PROVE  SameCharges
BY DEF SameCharges, IInv, TypeOK

\* A charge adds to the account what it writes to the row, which was charged nothing.
LEMMA OneCharged ==
  ASSUME IInv, SpentIsBilled, NEW t \in Tasks, NEW held \in Rows, Charge(t, held),
         Chargeable(row[t]) => held.status = "completed" /\ Agrees(held, row[t])
  PROVE  SpentIsBilled'
<1>1. row \in [Tasks -> Rows] BY DEF IInv, TypeOK
<1>2. CASE Chargeable(row[t])
  <2> DEFINE m == Bill(held)
             x == Billed(row[t], m)
  <2>1. m \in Nat BY <1>1, <1>2, BillingIsGood DEF IInv, RowsOK
  <2>2. row' = [row EXCEPT ![t] = x] /\ spent' = spent + m BY <1>2 DEF Charge
  <2> HIDE DEF m
  <2>3. x \in Rows /\ x.micros = m BY <1>1, <2>1, BilledRow
  <2>4. row[t].micros = 0 BY <1>2 DEF Chargeable, IInv, RowsOK, RowOK
  <2> HIDE DEF x
  <2>5. row'[t].micros = m /\ \A u \in Tasks \ {t} : row'[u].micros = row[u].micros
    BY <1>1, <2>2, <2>3
  <2>6. \A u \in Tasks : row[u].micros \in Nat BY <1>1, RowFields
  <2>7. \A u \in Tasks : row[u].micros \in Nat /\ row'[u].micros \in Nat BY <2>1, <2>5, <2>6
  <2>8. /\ Charged(row) \in Nat /\ Charged(row') \in Nat
        /\ Charged(row') + row[t].micros = Charged(row) + row'[t].micros
    BY <2>5, <2>7, ChargedStep
  <2>9. Charged(row') = Charged(row) + m BY <2>1, <2>4, <2>5, <2>8
  <2> QED BY <2>2, <2>9, AccountForm
<1>3. CASE ~Chargeable(row[t])
  <2>1. SameCharges BY <1>3 DEF Charge, SameCharges
  <2> QED BY <2>1, NobodyCharged
<1> QED BY <1>2, <1>3

\* What a row not yet inserted is charged.
LEMMA InsertCharges ==
  ASSUME IInv, NEW s \in Submits, NEW t \in Tasks, Insert(s, t)
  PROVE  SameCharges
<1>1. row[t] \in Rows /\ RowOK(row[t]) BY DEF IInv, TypeOK, RowsOK
<1>2. row[t].status = "none" BY DEF Insert
<1>3. row[t].micros = 0 BY <1>1, <1>2, RowFields DEF RowOK
<1> DEFINE x == [status |-> "pending", seconds |-> submit[s].seconds,
                 estimated |-> submit[s].ask, usage |-> 0, billed |-> FALSE, micros |-> 0,
                 polled |-> 0, expires |-> submit[s].at + Horizon,
                 version |-> submit[s].version]
<1>4. row' = [row EXCEPT ![t] = x] /\ spent' = spent BY DEF Insert
<1>5. x.micros = row[t].micros BY <1>3
<1> HIDE DEF x
<1> QED BY <1>4, <1>5, OtherUpdate

\* What a poll writes to its row before it settles.
LEMMA PollCharges ==
  ASSUME IInv, NEW g \in Gets, Polling(g), ~Settle(g)
  PROVE  SameCharges
<1> DEFINE t == get[g].task
<1>1. t \in Tasks /\ row[t] \in Rows BY DEF IInv, TypeOK, Polls
<1>2. CASE ExpireOnSight(g)
  <2> DEFINE x == SaveResult(row[t], [status |-> "expired", usage |-> row[t].usage])
  <2>1. row' = [row EXCEPT ![t] = x] /\ spent' = spent BY <1>2 DEF ExpireOnSight
  <2>2. x.micros = row[t].micros BY <1>1, KeptMicros
  <2> HIDE DEF x
  <2> QED BY <1>1, <2>1, <2>2, OtherUpdate
<1>3. CASE Claim(g)
  <2>1. CASE Claimable(row[t], get[g].seen)
    <3> DEFINE x == [row[t] EXCEPT !.polled = get[g].at]
    <3>1. row' = [row EXCEPT ![t] = x] /\ spent' = spent BY <1>3, <2>1 DEF Claim
    <3>2. x.micros = row[t].micros BY <1>1, KeptMicros
    <3> HIDE DEF x
    <3> QED BY <1>1, <3>1, <3>2, OtherUpdate
  <2>2. CASE ~Claimable(row[t], get[g].seen) BY <1>3, <2>2 DEF Claim, SameCharges
  <2> QED BY <2>1, <2>2
<1>4. CASE \E o \in Observations : Observe(g, o)
  <2>1. PICK o \in Observations : Observe(g, o) BY <1>4
  <2> DEFINE x == SaveResult(row[t], o)
  <2>2. row' = [row EXCEPT ![t] = x] /\ spent' = spent BY <2>1 DEF Observe
  <2>3. x.micros = row[t].micros BY <1>1, KeptMicros
  <2> HIDE DEF x
  <2> QED BY <1>1, <2>2, <2>3, OtherUpdate
<1>5. CASE Stored(g) \/ Unanswered(g) \/ SettleFails(g) \/ \E u \in Tasks : Read(g, u)
  BY <1>5 DEF Stored, Unanswered, SettleFails, Read, rows, SameCharges
<1> QED BY <1>2, <1>3, <1>4, <1>5 DEF Polling

\* Some rows expire, which charges none.
LEMMA ExpiryCharges ==
  ASSUME IInv, NEW S, row' = [t \in Tasks |-> IF t \in S THEN Expired(row[t]) ELSE row[t]],
         spent' = spent
  PROVE  SameCharges
<1>1. ASSUME NEW t \in Tasks PROVE row'[t].micros = row[t].micros
  <2>1. row[t] \in Rows BY DEF IInv, TypeOK
  <2> QED BY <2>1, KeptMicros
<1> QED BY <1>1 DEF SameCharges

\* Whoever settles, and whatever else happens, the account follows the rows.
LEMMA AccountStep == IInv /\ SpentIsBilled /\ [Next]_vars => SpentIsBilled'
<1> SUFFICES ASSUME IInv, SpentIsBilled, [Next]_vars PROVE SpentIsBilled' OBVIOUS
<1>1. CASE \E s \in Submits : Creating(s)
  <2>1. PICK s \in Submits : Creating(s) BY <1>1
  <2>2. CASE \E t \in Tasks : Insert(s, t) BY <2>2, InsertCharges, NobodyCharged
  <2>3. CASE ~\E t \in Tasks : Insert(s, t)
    <3>1. SameCharges BY <2>1, <2>3 DEF Creating, Accepted, ReadKey, Gate, rows, SameCharges
    <3> QED BY <3>1, NobodyCharged
  <2> QED BY <2>2, <2>3
<1>2. CASE \E g \in Gets : Polling(g)
  <2>1. PICK g \in Gets : Polling(g) BY <1>2
  <2>2. CASE Settle(g)
    <3>1. /\ get[g].task \in Tasks /\ get[g].seen \in Rows
          /\ get[g].seen.status = "completed" /\ Agrees(get[g].seen, row[get[g].task])
      BY <2>2, SettlerHolds DEF Settle
    <3>2. Charge(get[g].task, get[g].seen) BY <2>2 DEF Settle
    <3> QED BY <3>1, <3>2, OneCharged
  <2>3. CASE ~Settle(g) BY <2>1, <2>3, PollCharges, NobodyCharged
  <2> QED BY <2>2, <2>3
<1>3. CASE SweepExpire
  <2>1. row' = [t \in Tasks |-> IF t \in {u \in Tasks : Stale(row[u])}
                                THEN Expired(row[t]) ELSE row[t]] BY <1>3 DEF SweepExpire
  <2>2. spent' = spent BY <1>3 DEF SweepExpire
  <2>3. SameCharges BY <2>1, <2>2, ExpiryCharges
  <2> QED BY <2>3, NobodyCharged
<1>4. CASE \E t \in Tasks : SweepSettle(t)
  <2>1. PICK t \in Tasks : SweepSettle(t) BY <1>4
  <2>2. Charge(t, row[t]) /\ row[t] \in Rows BY <2>1 DEF SweepSettle, IInv, TypeOK
  <2>3. Chargeable(row[t]) => row[t].status = "completed" /\ Agrees(row[t], row[t])
    BY DEF Chargeable, Agrees
  <2> QED BY <2>2, <2>3, OneCharged
<1>5. CASE Move \/ LastKeyDeleted
  <2>1. PICK v : row' = Retired(v) BY <1>5 DEF Move, LastKeyDeleted
  <2> DEFINE S == {t \in Tasks : row[t].status \in NonTerminal /\ row[t].version # v}
  <2>2. row' = [t \in Tasks |-> IF t \in S THEN Expired(row[t]) ELSE row[t]] BY <2>1 DEF Retired
  <2> HIDE DEF S
  <2>3. spent' = spent BY <1>5 DEF Move, LastKeyDeleted
  <2>4. SameCharges BY <2>2, <2>3, ExpiryCharges
  <2> QED BY <2>4, NobodyCharged
<1>6. CASE SweepList \/ SweepFails \/ Crash \/ Tick \/ UNCHANGED vars
  <2>1. SameCharges BY <1>6 DEF SweepList, SweepFails, Crash, Tick, vars, rows, SameCharges
  <2> QED BY <2>1, NobodyCharged
<1> QED BY <1>1, <1>2, <1>3, <1>4, <1>5, <1>6 DEF Next, Reaping

\* Before any task nothing is spent.
LEMMA AccountOpens == Init => SpentIsBilled
<1> SUFFICES ASSUME Init PROVE SpentIsBilled OBVIOUS
<1>1. \A t \in Tasks : row[t].micros = 0 BY BlankRow DEF Init
<1>2. Charged(row) = 0 BY <1>1, NothingCharged
<1> QED BY <1>2, AccountForm DEF Init

\* The key has paid exactly the bills of its tasks, each once, however many polls and
\* sweeps found the same task completed and unbilled.
THEOREM SpentBilled == Spec => []SpentIsBilled
<1>1. Init => SpentIsBilled BY AccountOpens
<1>2. IInv /\ SpentIsBilled /\ [Next]_vars => SpentIsBilled' BY AccountStep
<1> QED BY <1>1, <1>2, Invariance, PTL DEF Spec
=============================================================================
