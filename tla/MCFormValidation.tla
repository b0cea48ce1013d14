-------------------------- MODULE MCFormValidation --------------------------
(* Forms for FormValidation. *)
EXTENDS FormValidation, TLC

\* An address with a mail, and the mail again.
Mail == <<"Address", "Mail">>
Again == <<"Address", "Again">>
Names == {Mail, Again}

Input(attrs, replace, longest) ==
  [attrs |-> attrs, checkbox |-> FALSE, replace |-> replace, hides |-> FALSE,
   longest |-> longest]

Hiding(input) == [input EXCEPT !.hides = TRUE]

Plain == [a \in {} |-> TRUE]
Required == <<"required">> :> TRUE
Short == <<"length">> :> TRUE @@ <<"length", "max">> :> 1
Remote == <<"remote">> :> TRUE
Both == Remote @@ <<"remote", "additionalfields">> :> {<<"*", "Mail">>, <<"*", "Again">>}
Digits == <<"digits">> :> TRUE
Same == <<"equalto">> :> TRUE @@ <<"equalto", "other">> :> <<"*", "Mail">>
Ranged == <<"range">> :> TRUE @@ <<"range", "min">> :> 2 @@ <<"range", "max">> :> 2
Capped == <<"range">> :> TRUE @@ <<"range", "max">> :> 1
Password == <<"password">> :> TRUE @@ <<"password", "min">> :> 2

Form(mail, again) == [f \in Names |-> IF f = Mail THEN mail ELSE again]

Forms ==
  { Form(Input(Remote @@ Short, TRUE, 2), Input(Required @@ Same, TRUE, 1)),
    Form(Input(Required @@ Digits, TRUE, 1), Input(Both, FALSE, 1)),
    Form(Input(Remote, TRUE, 1), Input(Required @@ Remote, TRUE, 1)),
    Form(Input(Ranged, FALSE, 3), Input(Password, TRUE, 2)),
    Form(Input(Capped, TRUE, 2), Hiding(Input(Required @@ Remote, TRUE, 1))),
    Form(Input(Digits, TRUE, 1), Hiding(Input(Required @@ Same, TRUE, 1))),
    Form(Input(Plain, FALSE, 1),
         [Input(Required, TRUE, 1) EXCEPT !.checkbox = TRUE]) }

\* The texts are "", "5", "10" and "50"; as strings "10" is before "5".
StringOrder ==
  LET sorted == <<0, 2, 1, 3>> IN
  {<<sorted[i], sorted[j]>> : <<i, j>> \in {p \in (1 .. 4) \X (1 .. 4) : p[1] <= p[2]}}

\* All of them but the blank one are digits; none has the format of a password.
Digit == {"digits"} \X (1 .. 3)
=============================================================================
