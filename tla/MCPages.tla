-------------------------------- MODULE MCPages --------------------------------
EXTENDS PageViews

Posted  == <<0, 1>>
SameDay == <<0, 0>>
Bank    == <<100, 90>>

Setting(window, percent, floor, names) ==
  [window |-> window, percent |-> percent, cap |-> 20, floor |-> floor,
   min |-> 1, names |-> names]

MCDefaults == Setting(0, 0, 10, TRUE)

(* A narrow setup, a wide one, and one that may not be saved. *)
MCSettings == {MCDefaults, Setting(1, 10, 0, FALSE), Setting(1, 0, 30, TRUE)}
=============================================================================
