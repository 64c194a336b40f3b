----------------------------- MODULE MCBankImport -----------------------------
EXTENDS BankImport, TLC

(* A cell that reads as a date on a day, as an amount, or as a text. *)
Day(d)    == [Blank EXCEPT !.text = "a date", !.date = [l \in Layouts |-> {d}]]
Amount(a) == [Blank EXCEPT !.text = "an amount", !.amount = [comma \in BOOLEAN |-> {a}]]
Text(t)   == [Blank EXCEPT !.text = t]

Row(d, a, t) == [fields |-> <<Day(d), Amount(a), Text(t)>>, long |-> FALSE]

Header == <<"date", "amount", "description">>

(* Two statements that overlap: the same two deposits of 5 on one day in one
   and one of them in the other, a rent that a rule may name, and a gift and a
   purchase only one of them shows. *)
TwoFiles ==
  [f \in Files |->
    [header |-> Header, semicolon |-> FALSE,
     records |-> IF f = "june"
                 THEN <<Row(1, 5, "deposit"), Row(1, 5, "deposit"), Row(2, 7, "rent")>>
                 ELSE <<Row(2, 7, "rent"), Row(1, 5, "deposit"), Row(3, 1, "gift"),
                        Row(1, -3, "shop")>>]]

Mapping(negative) ==
  [date |-> 1, layout |-> "iso", amount |-> 2, debit |-> None, credit |-> None,
   negative |-> negative, comma |-> FALSE, description |-> 3, account |-> None, note |-> None,
   reference |-> None]

(* The guess reads the amounts as they are; a person may turn the sign. *)
Turned    == {Mapping(TRUE)}
OneLayout == <<"iso">>
RentOnly  == [t \in Texts |-> {"rent"}]

Symmetry == Permutations(Users) \cup Permutations(Requests)
=============================================================================
