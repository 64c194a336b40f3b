------------------------------- MODULE BankFile -------------------------------
(***************************************************************************)
(* How a bank's export is read: which column is which, what becomes of     *)
(* each row, and the key a line is known by.                               *)
(*                                                                         *)
(* A cell is known by what can be read from it: its text, as it is         *)
(* compared (trimmed, one case, single spaces), the amount it holds under  *)
(* either reading of the decimal mark, and the date it holds under each    *)
(* date layout. A reading is a set: empty when the cell does not read.     *)
(***************************************************************************)
EXTENDS Integers, Sequences, FiniteSets, SequencesExt

CONSTANT DateLayouts  \* the date layouts to choose from, most common first

Layouts == Range(DateLayouts)

(* A column that is not mapped; columns count from 1. *)
None == 0

MaxRows == 10000

(* What reading a file accepts: a header of two columns at least, and not too
   many rows. A row with another number of cells than the header is kept with
   none, as a row that could not be split. *)
IsFile(f) ==
  /\ Len(f.header) >= 2
  /\ f.records \in Seq(Range(f.records))
  /\ Len(f.records) <= MaxRows
  /\ \A i \in DOMAIN f.records : Len(f.records[i].fields) \in {0, Len(f.header)}

Blank == [text |-> "", amount |-> [comma \in BOOLEAN |-> {}], date |-> [l \in Layouts |-> {}]]

Cell(rec, c) == IF c = None THEN Blank ELSE rec.fields[c]

(* A mapping that can be applied to a header of n columns: a date, a
   description, and either one amount or two columns for it. *)
Fits(m, n) ==
  LET in(c)  == c \in 1..n
      opt(c) == c = None \/ in(c)
  IN  /\ in(m.date) /\ m.layout \in Layouts
      /\ in(m.description)
      /\ \/ in(m.amount) /\ m.debit = None /\ m.credit = None
         \/ m.amount = None /\ in(m.debit) /\ in(m.credit) /\ m.debit # m.credit
      /\ opt(m.account) /\ opt(m.note) /\ opt(m.reference)

Magnitude(x) == IF x < 0 THEN -x ELSE x

(* Mutant of DebitCredit: the sign in the cell says which way the money went. *)
DebitCreditSigned(debit, credit, comma) ==
  IF debit.text # "" /\ credit.text # "" THEN {}
  ELSE credit.amount[comma] \cup {-d : d \in debit.amount[comma]}

(* Two columns: one of them holds the amount, and the other is blank or zero.
   The column, and not a sign, says which way the money went. *)
DebitCredit(debit, credit, comma) ==
  LET paid     == {-Magnitude(d) : d \in debit.amount[comma]}
      received == {Magnitude(c) : c \in credit.amount[comma]}
  IN  IF debit.text # "" /\ credit.text # ""
      THEN {x \in received : 0 \in paid} \cup {x \in paid : 0 \in received}
      ELSE paid \cup received

(* The amount of a row, above zero when money came in. *)
Signed(rec, m) ==
  IF m.amount # None
  THEN {IF m.negative THEN -a ELSE a : a \in Cell(rec, m.amount).amount[m.comma]}
  ELSE DebitCredit(Cell(rec, m.debit), Cell(rec, m.credit), m.comma)

Readable(rec, m) ==
  /\ rec.fields # <<>> /\ ~rec.long
  /\ Cell(rec, m.date).date[m.layout] # {}
  /\ Signed(rec, m) # {}

(* What becomes of a row: kept as money received, dropped as money paid (or
   none), or refused. *)
Fate(f, m, rec) ==
  IF ~Fits(m, Len(f.header)) \/ ~Readable(rec, m) THEN "refused"
  ELSE IF \E a \in Signed(rec, m) : a > 0 THEN "in" ELSE "out"

(* What a line of money received says. The note is kept with it and is no
   part of what it is known by. *)
ReadLine(rec, m) ==
  [account |-> Cell(rec, m.account).text,
   date    |-> CHOOSE d \in Cell(rec, m.date).date[m.layout] : TRUE,
   amount  |-> CHOOSE a \in Signed(rec, m) : TRUE,
   description |-> Cell(rec, m.description).text,
   reference   |-> Cell(rec, m.reference).text]

Rows(f, m, fate) == {i \in DOMAIN f.records : Fate(f, m, f.records[i]) = fate}

(* The k-th least of a set of numbers. *)
Nth(S, k) == CHOOSE i \in S : Cardinality({j \in S : j <= i}) = k

(* The lines of money received, in file order, and how many rows were not
   kept and could not be read. *)
Apply(f, m) ==
  LET kept == Rows(f, m, "in") IN
  [incoming |-> [k \in 1..Cardinality(kept) |-> ReadLine(f.records[Nth(kept, k)], m)],
   outgoing |-> Cardinality(Rows(f, m, "out")),
   refused  |-> Cardinality(Rows(f, m, "refused"))]

(* Mutant of Fingerprints: identical lines of one file are one line. *)
FingerprintsUncounted(format, lines) == [i \in DOMAIN lines |-> <<format, lines[i], 1>>]

(* What each line is known by: its layout, what it says, and how many lines
   of the file have said the same up to it. *)
Fingerprints(format, lines) ==
  [i \in DOMAIN lines |->
     <<format, lines[i], Cardinality({j \in 1..i : lines[j] = lines[i]})>>]

-----------------------------------------------------------------------------
(* The names a column may have, the best first. *)
Names ==
  [date        |-> <<"date", "posted date", "posting date", "transaction date", "booking date",
                     "post date">>,
   amount      |-> <<"amount", "transaction amount", "amount ($)">>,
   debit       |-> <<"debit", "debits", "withdrawal", "withdrawals", "money out", "paid out">>,
   credit      |-> <<"credit", "credits", "deposit", "deposits", "money in", "paid in">>,
   description |-> <<"description", "details", "narrative", "payee", "transaction description",
                     "memo", "name">>,
   account     |-> <<"account", "account name", "account number">>,
   note        |-> <<"note", "notes">>,
   reference   |-> <<"check #", "check number", "check", "cheque number", "reference", "ref",
                     "reference number">>]

(* The column with the best of the names; the first of them, should two
   columns share it. *)
ColumnNamed(header, names) ==
  LET hits == {i \in DOMAIN header : header[i] \in Range(names)}
      rank(i) == CHOOSE r \in DOMAIN names : names[r] = header[i]
  IN  IF hits = {} THEN None
      ELSE CHOOSE i \in hits : \A j \in hits : rank(i) < rank(j) \/ (rank(i) = rank(j) /\ i <= j)

(* All of the first rows that could be split read as dates under the layout. *)
DatesFit(f, col, layout, rows) ==
  LET split == SelectSeq(f.records, LAMBDA rec : rec.fields # <<>>)
      first == SubSeq(split, 1, IF Len(split) < rows THEN Len(split) ELSE rows)
  IN  first # <<>> /\ \A i \in DOMAIN first : first[i].fields[col].date[layout] # {}

GuessRows == 20

(* Mutant of Guess: a lone debit or credit column is kept, with no other. *)
GuessHalf(f) ==
  LET col(names) == ColumnNamed(f.header, names) IN
  [date |-> col(Names.date), layout |-> DateLayouts[1],
   amount |-> col(Names.amount), debit |-> col(Names.debit), credit |-> col(Names.credit),
   negative |-> FALSE, comma |-> f.semicolon,
   description |-> col(Names.description), account |-> col(Names.account),
   note |-> col(Names.note), reference |-> col(Names.reference)]

(* The mapping the screen starts from. *)
Guess(f) ==
  LET col(names) == ColumnNamed(f.header, names)
      amount == col(Names.amount)
      debit  == col(Names.debit)
      credit == col(Names.credit)
      both   == debit # None /\ credit # None
      split  == (amount = None) = both
      fits   == {i \in DOMAIN DateLayouts :
                   col(Names.date) # None
                     /\ DatesFit(f, col(Names.date), DateLayouts[i], GuessRows)}
  IN  [date |-> col(Names.date),
       layout |-> DateLayouts[IF fits = {} THEN 1 ELSE Min(fits)],
       amount |-> amount,
       debit  |-> IF split THEN debit ELSE None,
       credit |-> IF split THEN credit ELSE None,
       negative |-> FALSE, comma |-> f.semicolon,
       description |-> col(Names.description), account |-> col(Names.account),
       note |-> col(Names.note), reference |-> col(Names.reference)]

(* What the screen shows of the first n rows: what becomes of each. *)
Preview(f, m, n) ==
  LET first == SubSeq(f.records, 1, IF Len(f.records) < n THEN Len(f.records) ELSE n)
  IN  [i \in DOMAIN first |-> Fate(f, m, first[i])]
=============================================================================
