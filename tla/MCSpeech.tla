------------------------------ MODULE MCSpeech ------------------------------
(* Small instances of Speech for TLC.                                      *)
EXTENDS Speech

SomeTimes == {"10am"}
SomeNames == {"Acme Gym", "Dana"}
SomeWords == {"Found"}

(* "Found nothing.", "Found Acme Gym with Dana at 10am.", "At 10am."       *)
SomeTexts == {<<"Found">>, <<"Found", "Acme Gym", "Dana", "10am">>, <<"10am">>}
=============================================================================
