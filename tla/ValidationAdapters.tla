------------------------- MODULE ValidationAdapters -------------------------
(***************************************************************************)
(* The adapters of jquery.validate.unobtrusive: from the data-val-*        *)
(* attributes of an input to the rules that jQuery Validate checks, the    *)
(* methods behind those rules, and, as the reference they are compared     *)
(* with, what the attributes demand of a text.                             *)
(*                                                                         *)
(* The name of an input is the sequence of its parts, so that "Order.Mail" *)
(* is <<"Order", "Mail">>.  A text is a number: 0 is the blank one, and the *)
(* others are numbered by their length and by the number they read as, so  *)
(* that 1 may be "5" and 2 may be "10".  A limit in an attribute is such a *)
(* number too.  As strings the texts have an order of their own, AtMost.   *)
(* Attributes are a function: <<a>> is data-val-a and <<a, p>> is          *)
(* data-val-a-p.                                                           *)
(***************************************************************************)
EXTENDS Naturals, Sequences, FiniteSets

CONSTANTS
  Undefined,   \* the value of an attribute that is not there
  WellFormed,  \* the <<rule, text>> such that the text has the rule's format
  AtMost       \* the <<a, b>> such that a, as a string, is b or before b

\* It is no parameter of a rule.
ASSUME UndefinedAssumption ==
  Undefined # TRUE /\ Undefined \notin Nat /\ Undefined \notin Nat \X Nat

Blank == 0

Dummy == "__dummy__"

\* The rules that test a format, and the adapters of the same name.
FormatRule == {"date", "digits", "email", "number", "url"}

\* The rules whose methods the page loads: those of jquery.validate.js and the
\* ones this script adds.
Method ==
  FormatRule \cup
  {"required", "minlength", "maxlength", "rangelength", "min", "max", "range",
   "equalTo", "remote", Dummy, "regex", "nonalphamin"}

-----------------------------------------------------------------------------
(* Names.                                                                   *)

GetModelPrefix(name) == SubSeq(name, 1, Len(name) - 1)

AppendModelPrefix(value, prefix) ==
  IF Head(value) = "*" THEN prefix \o Tail(value) ELSE value

-----------------------------------------------------------------------------
(* The adapters, in the order in which they are registered.  The kind of    *)
(* one stands for its function.                                             *)

Add(name, params, kind) ==
  [name |-> name, params |-> params, adapt |-> kind, rules |-> <<>>]

AddBool(name) ==
  [name |-> name, params |-> {}, adapt |-> "bool", rules |-> <<name>>]

AddMinMax(name, minRule, maxRule, minMaxRule) ==
  [name |-> name, params |-> {"min", "max"}, adapt |-> "minMax",
   rules |-> <<minRule, maxRule, minMaxRule>>]

AddSingleVal(name, attribute, rule) ==
  [name |-> name, params |-> {attribute}, adapt |-> "singleVal",
   rules |-> <<rule>>]

Missing == "undefined"   \* a rule name that the registration leaves out

\* No method "extension" is loaded when the script runs.
Adapters ==
  << AddSingleVal("extension", "extension", "accept"),
     AddSingleVal("regex", "pattern", "regex"),
     AddBool("creditcard"), AddBool("date"), AddBool("digits"),
     AddBool("email"), AddBool("number"), AddBool("url"),
     AddMinMax("length", "minlength", "maxlength", "rangelength"),
     AddMinMax("range", "min", "max", "range"),
     AddMinMax("minlength", "minlength", Missing, Missing),
     AddMinMax("maxlength", "minlength", "maxlength", Missing),
     Add("equalto", {"other"}, "equalto"),
     Add("required", {}, "required"),
     Add("remote", {"url", "type", "additionalfields"}, "remote"),
     Add("password", {"min", "nonalphamin", "regex"}, "password"),
     Add("fileextensions", {"extensions"}, "fileextensions") >>

NoRules == [r \in {} |-> Undefined]
SetValidationValue(rule, value) == [r \in {rule} |-> value]

\* The parameter p of the adapter a: $element.attr of its attribute.
Param(a, attrs, p) ==
  IF p \in a.params /\ <<a.name, p>> \in DOMAIN attrs
    THEN attrs[<<a.name, p>>] ELSE Undefined

\* Mistake: a pair is set as its minimum.
AdaptsOnlyMin(a, min, max) ==
  IF min # Undefined THEN SetValidationValue(a.rules[1], min)
  ELSE IF max # Undefined THEN SetValidationValue(a.rules[2], max)
  ELSE NoRules

AdaptMinMax(a, min, max) ==
  IF min # Undefined /\ max # Undefined
    THEN SetValidationValue(a.rules[3], <<min, max>>)
  ELSE IF min # Undefined THEN SetValidationValue(a.rules[1], min)
  ELSE IF max # Undefined THEN SetValidationValue(a.rules[2], max)
  ELSE NoRules

\* The input of the form with that name, if it has one now.
AdaptEqualTo(name, other, inputs) ==
  LET full == AppendModelPrefix(other, GetModelPrefix(name)) IN
  SetValidationValue("equalTo", IF full \in inputs THEN full ELSE Undefined)

\* A checkbox that must be filled is one that must be ticked, for jQuery
\* Validate, and that is not what the attribute asks.
AdaptRequired(checkbox) ==
  IF checkbox THEN NoRules ELSE SetValidationValue("required", TRUE)

\* The inputs whose texts the request carries.
AdaptRemote(name, additional) ==
  SetValidationValue("remote",
    IF additional = Undefined THEN {name}
    ELSE {AppendModelPrefix(n, GetModelPrefix(name)) : n \in additional})

AdaptPassword(min, nonalphamin, regex) ==
  LET values == [r \in {"minlength", "nonalphamin", "regex"} |->
                   CASE r = "minlength"   -> min
                     [] r = "nonalphamin" -> nonalphamin
                     [] r = "regex"       -> regex] IN
  [r \in {r \in DOMAIN values : values[r] # Undefined} |-> values[r]]

\* The rules that one adapter sets for an input.
Adapt(a, name, el, inputs) ==
  LET p(param) == Param(a, el.attrs, param) IN
  CASE a.adapt = "bool"      -> SetValidationValue(a.rules[1], TRUE)
    [] a.adapt = "minMax"    -> AdaptMinMax(a, p("min"), p("max"))
    [] a.adapt = "singleVal" ->
         SetValidationValue(a.rules[1], p(CHOOSE x \in a.params : TRUE))
    [] a.adapt = "equalto"   -> AdaptEqualTo(name, p("other"), inputs)
    [] a.adapt = "required"  -> AdaptRequired(el.checkbox)
    [] a.adapt = "remote"    -> AdaptRemote(name, p("additionalfields"))
    [] a.adapt = "password"  ->
         AdaptPassword(p("min"), p("nonalphamin"), p("regex"))
    [] a.adapt = "fileextensions" ->
         SetValidationValue("extension", p("extensions"))

\* The adapters whose attribute the input has.
Used(el) == {i \in DOMAIN Adapters : <<Adapters[i].name>> \in DOMAIN el.attrs}

\* Mistake: the rule that says nothing is left out.
ParsesWithoutDummy(name, el, inputs) ==
  LET rules(i) == Adapt(Adapters[i], name, el, inputs)
      setting(r) == {i \in Used(el) : r \in DOMAIN rules(i)}
      last(r) == CHOOSE i \in setting(r) : \A j \in setting(r) : j <= i
  IN [r \in UNION {DOMAIN rules(i) : i \in Used(el)} |-> rules(last(r))[r]]

\* The rules of an input: for every attribute data-val-a the adapter a sets its
\* own, one that is registered later over one that is registered earlier, and
\* last comes the rule that always passes.
ParsedRules(name, el, inputs) ==
  LET rules(i) == Adapt(Adapters[i], name, el, inputs)
      setting(r) == {i \in Used(el) : r \in DOMAIN rules(i)}
      last(r) == CHOOSE i \in setting(r) : \A j \in setting(r) : j <= i
  IN [r \in {Dummy} \cup UNION {DOMAIN rules(i) : i \in Used(el)} |->
        IF r = Dummy THEN TRUE ELSE rules(last(r))[r]]

\* The copy that $.extend makes leaves out what is undefined.
Copy(rules) == [r \in {r \in DOMAIN rules : rules[r] # Undefined} |-> rules[r]]

-----------------------------------------------------------------------------
(* The methods of the rules, the request of "remote" aside.  texts are the  *)
(* texts of the form's inputs.  The limits of lengths and of a range are    *)
(* made numbers before they are compared with; those of "min" and "max"     *)
(* stay the strings of the attributes, and compare a text as a string.      *)

Passes(rule, param, text, texts) ==
  \/ rule = Dummy
  \/ rule = "required" /\ text # Blank
  \/ rule = "equalTo" /\ text = texts[param]
  \/ rule = "minlength" /\ text >= param
  \/ rule = "maxlength" /\ text <= param
  \/ rule = "min" /\ <<param, text>> \in AtMost
  \/ rule = "max" /\ <<text, param>> \in AtMost
  \/ rule \in {"rangelength", "range"} /\ text >= param[1] /\ text <= param[2]
  \/ rule \in FormatRule \cup {"regex", "nonalphamin"} /\ <<rule, text>> \in WellFormed
  \/ rule \notin {"required", "equalTo", "nonalphamin"} /\ text = Blank

\* An optional input that is blank is no answer of these methods, which then
\* make it neither valid nor invalid when no other rule is there.
Abstains(rule, text) ==
  text = Blank /\ rule \notin {"required", "equalTo", "nonalphamin", "regex", Dummy}

-----------------------------------------------------------------------------
(* What the attributes of an input demand of its text.                      *)

Within(attrs, a, text) ==
  \/ text = Blank
  \/ /\ <<a, "min">> \in DOMAIN attrs => text >= attrs[<<a, "min">>]
     /\ <<a, "max">> \in DOMAIN attrs => text <= attrs[<<a, "max">>]

Meets(name, el, text, texts) ==
  LET attrs == el.attrs
      asked(a) == <<a>> \in DOMAIN attrs IN
  /\ asked("required") /\ ~el.checkbox => text # Blank
  /\ \A a \in {"length", "range", "minlength", "maxlength"} :
       asked(a) => Within(attrs, a, text)
  /\ \A a \in FormatRule \cup {"regex"} :
       asked(a) => text = Blank \/ <<a, text>> \in WellFormed
  /\ asked("equalto") =>
       \E other \in DOMAIN texts :
         /\ text = texts[other]
         /\ \/ other = attrs[<<"equalto", "other">>]
            \/ /\ attrs[<<"equalto", "other">>] = <<"*", other[Len(other)]>>
               /\ GetModelPrefix(other) = GetModelPrefix(name)
  /\ asked("password") =>
       /\ <<"password", "min">> \in DOMAIN attrs =>
            text = Blank \/ text >= attrs[<<"password", "min">>]
       /\ <<"password", "nonalphamin">> \in DOMAIN attrs =>
            <<"nonalphamin", text>> \in WellFormed
       /\ <<"password", "regex">> \in DOMAIN attrs =>
            text = Blank \/ <<"regex", text>> \in WellFormed

\* A range with one limit only is checked by "min" or "max", as strings are
\* ordered, and that is not what it demands.
RangeHasBothEnds(el) ==
  <<"range">> \in DOMAIN el.attrs =>
    (<<"range", "min">> \in DOMAIN el.attrs <=> <<"range", "max">> \in DOMAIN el.attrs)

\* The markup of an input is as a server writes it: the parameters of an adapter
\* come with it, they are of the type its rule takes, and no two of the input's
\* adapters set the same rule.
WellMarked(name, el, names) ==
  LET attrs == el.attrs
      asked(a) == <<a>> \in DOMAIN attrs
      other == attrs[<<"equalto", "other">>]
      sets(i) == DOMAIN Adapt(Adapters[i], name, el, names) IN
  /\ \A x \in DOMAIN attrs : attrs[x] # Undefined
  /\ \A a \in {"length", "range", "minlength", "maxlength", "password"},
        p \in {"min", "max"} :
       <<a, p>> \in DOMAIN attrs => attrs[<<a, p>>] \in Nat
  /\ asked("regex") => <<"regex", "pattern">> \in DOMAIN attrs
  /\ asked("equalto") =>
       /\ <<"equalto", "other">> \in DOMAIN attrs
       /\ \/ other \in names
          \/ other \in Seq(STRING) /\ Len(other) = 2 /\ other[1] = "*"
  /\ <<"remote", "additionalfields">> \in DOMAIN attrs =>
       AdaptRemote(name, attrs[<<"remote", "additionalfields">>])["remote"] \subseteq names
  /\ \A i, j \in Used(el) : i # j => sets(i) \cap sets(j) = {}
=============================================================================
