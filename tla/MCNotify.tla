------------------------------ MODULE MCNotify ------------------------------
EXTENDS Notify

(* User 1 owes and reads mail, user 2 provides and reads mail. *)
TwoPlaces == {<<1, 1>>, <<2, 1>>}
Roles == <<"payee", "provider">>
OneDue == {0}
BothLeads == {0, -1}
=============================================================================
