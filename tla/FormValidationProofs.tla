------------------------ MODULE FormValidationProofs ------------------------
(***************************************************************************)
(* Proofs about FormValidation, for any forms of any inputs with any       *)
(* attributes, texts and formats: the rules that the adapters set say what *)
(* the attributes do, the requests are counted, the page shows what the    *)
(* validator holds, the rules of a form never change, and a form is only   *)
(* sent as its attributes and the server allow it.                         *)
(***************************************************************************)
EXTENDS FormValidation, FiniteSetTheorems, SequenceTheorems, TLAPS

-----------------------------------------------------------------------------
(* The adapters: what each of them sets is what its attributes demand.      *)

\* What the adapter i sets for an input.
Sets(i, name, el, inputs) == Adapt(Adapters[i], name, el, inputs)

LEMMA AdapterRows ==
  /\ DOMAIN Adapters = 1 .. 17
  /\ Adapters[1] = AddSingleVal("extension", "extension", "accept")
  /\ Adapters[2] = AddSingleVal("regex", "pattern", "regex")
  /\ Adapters[3] = AddBool("creditcard")
  /\ Adapters[4] = AddBool("date")
  /\ Adapters[5] = AddBool("digits")
  /\ Adapters[6] = AddBool("email")
  /\ Adapters[7] = AddBool("number")
  /\ Adapters[8] = AddBool("url")
  /\ Adapters[9] = AddMinMax("length", "minlength", "maxlength", "rangelength")
  /\ Adapters[10] = AddMinMax("range", "min", "max", "range")
  /\ Adapters[11] = AddMinMax("minlength", "minlength", Missing, Missing)
  /\ Adapters[12] = AddMinMax("maxlength", "minlength", "maxlength", Missing)
  /\ Adapters[13] = Add("equalto", {"other"}, "equalto")
  /\ Adapters[14] = Add("required", {}, "required")
  /\ Adapters[15] = Add("remote", {"url", "type", "additionalfields"}, "remote")
  /\ Adapters[16] = Add("password", {"min", "nonalphamin", "regex"}, "password")
  /\ Adapters[17] = Add("fileextensions", {"extensions"}, "fileextensions")
BY DEF Adapters

\* The rules that each kind of adapter sets.
LEMMA BoolSets ==
  ASSUME NEW n, NEW name, NEW el, NEW inputs
  PROVE  Adapt(AddBool(n), name, el, inputs) = [r \in {n} |-> TRUE]
BY DEF Adapt, AddBool, SetValidationValue

LEMMA SingleValSets ==
  ASSUME NEW n, NEW p, NEW rule, NEW name, NEW el, NEW inputs
  PROVE  LET rules == Adapt(AddSingleVal(n, p, rule), name, el, inputs) IN
         /\ \A r : r \in DOMAIN rules <=> r = rule
         /\ rules[rule] =
              IF <<n, p>> \in DOMAIN el.attrs THEN el.attrs[<<n, p>>] ELSE Undefined
<1>0. PICK a : a = AddSingleVal(n, p, rule)
  OBVIOUS
<1>1. (CHOOSE x \in {p} : TRUE) = p
  OBVIOUS
<1>2. a.params = {p} /\ a.adapt = "singleVal" /\ a.rules[1] = rule /\ a.name = n
  BY <1>0 DEF AddSingleVal
<1>3. Adapt(a, name, el, inputs) =
        SetValidationValue(rule, Param(a, el.attrs, CHOOSE x \in {p} : TRUE))
  BY <1>2 DEF Adapt
<1> QED
  BY <1>0, <1>1, <1>2, <1>3 DEF SetValidationValue, Param

LEMMA MinMaxSets ==
  ASSUME NEW n, NEW r1, NEW r2, NEW r3, NEW name, NEW el, NEW inputs,
         \A x \in DOMAIN el.attrs : el.attrs[x] # Undefined
  PROVE  LET rules == Adapt(AddMinMax(n, r1, r2, r3), name, el, inputs)
             min == el.attrs[<<n, "min">>]
             max == el.attrs[<<n, "max">>]
             hasMin == <<n, "min">> \in DOMAIN el.attrs
             hasMax == <<n, "max">> \in DOMAIN el.attrs
         IN /\ \A r : r \in DOMAIN rules <=>
                 \/ hasMin /\ hasMax /\ r = r3
                 \/ hasMin /\ ~hasMax /\ r = r1
                 \/ ~hasMin /\ hasMax /\ r = r2
            /\ hasMin /\ hasMax => rules[r3] = <<min, max>>
            /\ hasMin /\ ~hasMax => rules[r1] = min
            /\ ~hasMin /\ hasMax => rules[r2] = max
<1>0. PICK a : a = AddMinMax(n, r1, r2, r3)
  OBVIOUS
<1>1. /\ a.params = {"min", "max"} /\ a.adapt = "minMax" /\ a.name = n
      /\ a.rules[1] = r1 /\ a.rules[2] = r2 /\ a.rules[3] = r3
  BY <1>0 DEF AddMinMax
<1>2. Adapt(a, name, el, inputs) =
        AdaptMinMax(a, Param(a, el.attrs, "min"), Param(a, el.attrs, "max"))
  BY <1>1 DEF Adapt
<1>3. /\ Param(a, el.attrs, "min") =
           IF <<n, "min">> \in DOMAIN el.attrs THEN el.attrs[<<n, "min">>] ELSE Undefined
      /\ Param(a, el.attrs, "max") =
           IF <<n, "max">> \in DOMAIN el.attrs THEN el.attrs[<<n, "max">>] ELSE Undefined
  BY <1>1 DEF Param
<1> QED
  BY <1>0, <1>1, <1>2, <1>3 DEF AdaptMinMax, NoRules, SetValidationValue

LEMMA OtherSets ==
  ASSUME NEW a, NEW n, NEW ps, NEW kind, a = Add(n, ps, kind), NEW name, NEW el, NEW inputs
  PROVE  /\ kind = "equalto" =>
              Adapt(a, name, el, inputs) =
                AdaptEqualTo(name, Param(a, el.attrs, "other"), inputs)
         /\ kind = "required" => Adapt(a, name, el, inputs) = AdaptRequired(el.checkbox)
         /\ kind = "remote" =>
              Adapt(a, name, el, inputs) =
                AdaptRemote(name, Param(a, el.attrs, "additionalfields"))
         /\ kind = "password" =>
              Adapt(a, name, el, inputs) =
                AdaptPassword(Param(a, el.attrs, "min"), Param(a, el.attrs, "nonalphamin"),
                              Param(a, el.attrs, "regex"))
         /\ kind = "fileextensions" => DOMAIN Adapt(a, name, el, inputs) = {"extension"}
<1>1. a.adapt = kind
  BY DEF Add
<1> QED
  BY <1>1 DEF Adapt, SetValidationValue

\* Which rules an adapter sets does not depend on the inputs of the form.
LEMMA SameRules ==
  ASSUME NEW i \in DOMAIN Adapters, NEW name, NEW el, NEW ins, NEW others
  PROVE  DOMAIN Sets(i, name, el, ins) = DOMAIN Sets(i, name, el, others)
<1>1. PICK a : a = Adapters[i]
  OBVIOUS
<1>2. a.adapt \in {"bool", "minMax", "singleVal", "equalto", "required", "remote",
                   "password", "fileextensions"}
  BY <1>1, AdapterRows DEF AddBool, AddMinMax, AddSingleVal, Add
<1>3. CASE a.adapt = "equalto"
  BY <1>1, <1>3 DEF Sets, Adapt, AdaptEqualTo, SetValidationValue
<1>4. CASE a.adapt # "equalto"
  BY <1>1, <1>2, <1>4 DEF Sets, Adapt
<1> QED
  BY <1>3, <1>4

\* Where no two adapters set the same rule, the input has what its adapters set.
LEMMA RulesAreSet ==
  ASSUME NEW name, NEW el, NEW names, WellMarked(name, el, names), NEW inputs
  PROVE  /\ \A r : r \in DOMAIN ParsedRules(name, el, inputs) <=>
                   r = Dummy \/ \E i \in Used(el) : r \in DOMAIN Sets(i, name, el, inputs)
         /\ \A i \in Used(el) : \A r \in DOMAIN Sets(i, name, el, inputs) :
              r # Dummy => ParsedRules(name, el, inputs)[r] = Sets(i, name, el, inputs)[r]
<1>1. DOMAIN ParsedRules(name, el, inputs) =
              {Dummy} \cup UNION {DOMAIN Sets(i, name, el, inputs) : i \in Used(el)}
  BY DEF ParsedRules, Sets
<1>2. ASSUME NEW i \in Used(el), NEW r \in DOMAIN Sets(i, name, el, inputs), r # Dummy
      PROVE  ParsedRules(name, el, inputs)[r] = Sets(i, name, el, inputs)[r]
  <2> DEFINE setting == {j \in Used(el) : r \in DOMAIN Sets(j, name, el, inputs)}
             last == CHOOSE j \in setting : \A k \in setting : k <= j
  <2>1. \A j \in Used(el) : r \in DOMAIN Sets(j, name, el, inputs) => j = i
    <3>1. \A j \in Used(el) :
            DOMAIN Sets(j, name, el, inputs) = DOMAIN Sets(j, name, el, names)
      BY SameRules DEF Used
    <3>2. \A j, k \in Used(el) : j # k =>
            DOMAIN Sets(j, name, el, names) \cap DOMAIN Sets(k, name, el, names) = {}
      BY DEF WellMarked, Sets
    <3> QED
      BY <1>2, <3>1, <3>2
  <2>2. setting = {i}
    BY <1>2, <2>1
  <2>3. i \in Nat
    BY AdapterRows DEF Used
  <2>4. last = i
    BY <2>2, <2>3
  <2>5. ParsedRules(name, el, inputs)[r] = Sets(last, name, el, inputs)[r]
    <3>1. r \in {Dummy} \cup UNION {DOMAIN Sets(j, name, el, inputs) : j \in Used(el)}
      BY <1>2
    <3> QED
      BY <1>2, <3>1 DEF ParsedRules, Sets
  <2> QED
    BY <2>4, <2>5
<1> QED
  BY <1>1, <1>2

-----------------------------------------------------------------------------

\* A text satisfies the rules, the request of "remote" aside.
Satisfied(rules, text, texts) ==
  \A r \in DOMAIN rules \ {"remote"} :
    rules[r] # Undefined => Passes(r, rules[r], text, texts)

\* What the attributes of an adapter demand of a text.
Demands(a, name, el, text, texts) ==
  LET attrs == el.attrs IN
  /\ a = "required" /\ ~el.checkbox => text # Blank
  /\ a \in {"length", "range", "minlength", "maxlength"} => Within(attrs, a, text)
  /\ a \in FormatRule \cup {"regex"} => text = Blank \/ <<a, text>> \in WellFormed
  /\ a = "equalto" =>
       \E other \in DOMAIN texts :
         /\ text = texts[other]
         /\ \/ other = attrs[<<"equalto", "other">>]
            \/ /\ attrs[<<"equalto", "other">>] = <<"*", other[Len(other)]>>
               /\ GetModelPrefix(other) = GetModelPrefix(name)
  /\ a = "password" =>
       /\ <<"password", "min">> \in DOMAIN attrs =>
            text = Blank \/ text >= attrs[<<"password", "min">>]
       /\ <<"password", "nonalphamin">> \in DOMAIN attrs =>
            <<"nonalphamin", text>> \in WellFormed
       /\ <<"password", "regex">> \in DOMAIN attrs =>
            text = Blank \/ <<"regex", text>> \in WellFormed

\* Every demand is that of an adapter.
LEMMA MeetsDemands ==
  ASSUME NEW name, NEW el, NEW text, NEW texts
  PROVE  Meets(name, el, text, texts) <=>
           \A i \in Used(el) : Demands(Adapters[i].name, name, el, text, texts)
<1> DEFINE D(a) == <<a>> \in DOMAIN el.attrs => Demands(a, name, el, text, texts)
<1>1. /\ Adapters[1].name = "extension" /\ Adapters[2].name = "regex"
      /\ Adapters[3].name = "creditcard" /\ Adapters[4].name = "date"
      /\ Adapters[5].name = "digits" /\ Adapters[6].name = "email"
      /\ Adapters[7].name = "number" /\ Adapters[8].name = "url"
      /\ Adapters[9].name = "length" /\ Adapters[10].name = "range"
      /\ Adapters[11].name = "minlength" /\ Adapters[12].name = "maxlength"
      /\ Adapters[13].name = "equalto" /\ Adapters[14].name = "required"
      /\ Adapters[15].name = "remote" /\ Adapters[16].name = "password"
      /\ Adapters[17].name = "fileextensions"
  BY AdapterRows DEF AddBool, AddMinMax, AddSingleVal, Add
<1>2. (\A i \in Used(el) : Demands(Adapters[i].name, name, el, text, texts)) <=>
        \A i \in 1 .. 17 : D(Adapters[i].name)
  BY AdapterRows DEF Used
<1>3. D("extension") /\ D("creditcard") /\ D("remote") /\ D("fileextensions")
  BY DEF Demands, FormatRule
<1>4. (\A i \in 1 .. 17 : D(Adapters[i].name)) <=>
        /\ D("regex") /\ D("date") /\ D("digits") /\ D("email") /\ D("number") /\ D("url")
        /\ D("length") /\ D("range") /\ D("minlength") /\ D("maxlength")
        /\ D("equalto") /\ D("required") /\ D("password")
  <2> HIDE DEF D
  <2>1. \A i \in 1 .. 17 :
          i \in {1, 2, 3, 4, 5, 6, 7, 8, 9, 10, 11, 12, 13, 14, 15, 16, 17}
    OBVIOUS
  <2> QED
    BY <1>1, <1>3, <2>1
<1>5. \A a \in {"length", "range", "minlength", "maxlength"} :
        D(a) <=> (<<a>> \in DOMAIN el.attrs => Within(el.attrs, a, text))
  BY DEF Demands, FormatRule
<1>6. \A a \in FormatRule \cup {"regex"} :
        D(a) <=> (<<a>> \in DOMAIN el.attrs => text = Blank \/ <<a, text>> \in WellFormed)
  BY DEF Demands, FormatRule
<1>7. D("required") <=> (<<"required">> \in DOMAIN el.attrs /\ ~el.checkbox => text # Blank)
  BY DEF Demands, FormatRule
<1>8. D("equalto") <=>
        (<<"equalto">> \in DOMAIN el.attrs =>
           \E other \in DOMAIN texts :
             /\ text = texts[other]
             /\ \/ other = el.attrs[<<"equalto", "other">>]
                \/ /\ el.attrs[<<"equalto", "other">>] = <<"*", other[Len(other)]>>
                   /\ GetModelPrefix(other) = GetModelPrefix(name))
  BY DEF Demands, FormatRule
<1>9. D("password") <=>
        (<<"password">> \in DOMAIN el.attrs =>
           /\ <<"password", "min">> \in DOMAIN el.attrs =>
                text = Blank \/ text >= el.attrs[<<"password", "min">>]
           /\ <<"password", "nonalphamin">> \in DOMAIN el.attrs =>
                <<"nonalphamin", text>> \in WellFormed
           /\ <<"password", "regex">> \in DOMAIN el.attrs =>
                text = Blank \/ <<"regex", text>> \in WellFormed)
  BY DEF Demands, FormatRule
<1> HIDE DEF D
<1>10. (\A a \in {"length", "range", "minlength", "maxlength"} : D(a)) <=>
         D("length") /\ D("range") /\ D("minlength") /\ D("maxlength")
  OBVIOUS
<1>11. (\A a \in FormatRule \cup {"regex"} : D(a)) <=>
         D("regex") /\ D("date") /\ D("digits") /\ D("email") /\ D("number") /\ D("url")
  BY DEF FormatRule
<1>12. Meets(name, el, text, texts) <=>
         /\ D("required")
         /\ \A a \in {"length", "range", "minlength", "maxlength"} : D(a)
         /\ \A a \in FormatRule \cup {"regex"} : D(a)
         /\ D("equalto") /\ D("password")
  BY <1>5, <1>6, <1>7, <1>8, <1>9 DEF Meets
<1> QED
  BY <1>2, <1>4, <1>10, <1>11, <1>12

\* The methods.
LEMMA MethodsPass ==
  ASSUME NEW r, NEW param, NEW text, NEW texts
  PROVE  /\ r \in FormatRule \cup {"regex"} =>
              (Passes(r, param, text, texts) <=> text = Blank \/ <<r, text>> \in WellFormed)
         /\ r = "minlength" =>
              (Passes(r, param, text, texts) <=> text = Blank \/ text >= param)
         /\ r = "maxlength" =>
              (Passes(r, param, text, texts) <=> text = Blank \/ text <= param)
         /\ r \in {"range", "rangelength"} =>
              (Passes(r, param, text, texts) <=>
                 text = Blank \/ (text >= param[1] /\ text <= param[2]))
         /\ r = "required" => (Passes(r, param, text, texts) <=> text # Blank)
         /\ r = "equalTo" => (Passes(r, param, text, texts) <=> text = texts[param])
         /\ r = "nonalphamin" =>
              (Passes(r, param, text, texts) <=> <<r, text>> \in WellFormed)
         /\ r = Dummy => Passes(r, param, text, texts)
BY DEF Passes, FormatRule, Dummy, Blank

LEMMA MinMaxDemands ==
  ASSUME NEW name, NEW el, NEW names, WellMarked(name, el, names), NEW inputs,
         NEW text, NEW texts, NEW i \in {9, 10, 11, 12},
         DOMAIN Sets(i, name, el, inputs) \subseteq Method,
         RangeHasBothEnds(el), <<Adapters[i].name>> \in DOMAIN el.attrs
  PROVE  Satisfied(Sets(i, name, el, inputs), text, texts) <=>
           Demands(Adapters[i].name, name, el, text, texts)
<1>a. PICK n, r1, r2, r3 :
        /\ n \in {"length", "range", "minlength", "maxlength"}
        /\ r1 \in {"min", "minlength"} /\ r2 \in {"max", "maxlength", Missing}
        /\ r3 \in {"range", "rangelength", Missing}
        /\ n # "range" => r1 = "minlength" /\ r2 \in {"maxlength", Missing}
        /\ Adapters[i] = AddMinMax(n, r1, r2, r3)
  BY AdapterRows
<1>b. /\ \A x \in DOMAIN el.attrs : el.attrs[x] # Undefined
      /\ \A p \in {"min", "max"} : <<n, p>> \in DOMAIN el.attrs => el.attrs[<<n, p>>] \in Nat
  BY <1>a DEF WellMarked
<1> DEFINE min == el.attrs[<<n, "min">>]
           max == el.attrs[<<n, "max">>]
           hasMin == <<n, "min">> \in DOMAIN el.attrs
           hasMax == <<n, "max">> \in DOMAIN el.attrs
<1>1. PICK rules : rules = Adapt(AddMinMax(n, r1, r2, r3), name, el, inputs)
  OBVIOUS
<1>2. /\ \A r : r \in DOMAIN rules <=>
           \/ hasMin /\ hasMax /\ r = r3
           \/ hasMin /\ ~hasMax /\ r = r1
           \/ ~hasMin /\ hasMax /\ r = r2
      /\ hasMin /\ hasMax => rules[r3] = <<min, max>>
      /\ hasMin /\ ~hasMax => rules[r1] = min
      /\ ~hasMin /\ hasMax => rules[r2] = max
  BY <1>1, <1>b, MinMaxSets
<1>c. Sets(i, name, el, inputs) = rules /\ Adapters[i].name = n
  BY <1>a, <1>1 DEF Sets, AddMinMax
<1>d. Demands(n, name, el, text, texts) <=> Within(el.attrs, n, text)
  BY <1>a DEF Demands, FormatRule
<1>e. n = "range" => (hasMin <=> hasMax)
  BY <1>c DEF RangeHasBothEnds
<1>3. Missing \notin DOMAIN rules
  BY <1>a, <1>1 DEF Sets, Missing, Method, FormatRule, Dummy
<1>4. (hasMin => min \in Nat) /\ (hasMax => max \in Nat)
  BY <1>b
<1> HIDE DEF min, max, hasMin, hasMax
<1>5. Within(el.attrs, n, text) <=>
        text = Blank \/ ((hasMin => text >= min) /\ (hasMax => text <= max))
  BY DEF Within, hasMin, hasMax, min, max
<1>6. CASE hasMin /\ hasMax
  <2>1. DOMAIN rules = {r3} /\ rules[r3] = <<min, max>>
    BY <1>2, <1>6
  <2>2. r3 \in {"range", "rangelength"}
    BY <1>a, <1>3, <2>1
  <2>3. <<min, max>> # Undefined
    BY <1>4, <1>6, UndefinedAssumption
  <2>4. Satisfied(rules, text, texts) <=> Passes(r3, <<min, max>>, text, texts)
    BY <2>1, <2>2, <2>3 DEF Satisfied
  <2>5. Passes(r3, <<min, max>>, text, texts) <=> text = Blank \/ (text >= min /\ text <= max)
    <3>1. PICK pair : pair = <<min, max>>
      OBVIOUS
    <3>2. Passes(r3, pair, text, texts) <=>
            text = Blank \/ (text >= pair[1] /\ text <= pair[2])
      BY <2>2, MethodsPass
    <3> QED
      BY <3>1, <3>2
  <2> QED
    BY <1>c, <1>d, <1>1, <1>5, <1>6, <2>4, <2>5
<1>7. CASE hasMin /\ ~hasMax
  <2>1. DOMAIN rules = {r1} /\ rules[r1] = min
    BY <1>2, <1>7
  <2>2. min # Undefined
    BY <1>4, <1>7, UndefinedAssumption
  <2>3. Satisfied(rules, text, texts) <=> Passes(r1, min, text, texts)
    BY <1>a, <2>1, <2>2 DEF Satisfied
  <2>4. Passes(r1, min, text, texts) <=> text = Blank \/ text >= min
    BY <1>a, <1>e, <1>7, MethodsPass
  <2> QED
    BY <1>c, <1>d, <1>1, <1>5, <1>7, <2>3, <2>4
<1>8. CASE ~hasMin /\ hasMax
  <2>1. DOMAIN rules = {r2} /\ rules[r2] = max
    BY <1>2, <1>8
  <2>2. r2 = "maxlength"
    BY <1>a, <1>e, <1>3, <1>8, <2>1
  <2>3. max # Undefined
    BY <1>4, <1>8, UndefinedAssumption
  <2>4. Satisfied(rules, text, texts) <=> Passes(r2, max, text, texts)
    BY <2>1, <2>2, <2>3 DEF Satisfied
  <2>5. Passes(r2, max, text, texts) <=> text = Blank \/ text <= max
    BY <2>2, MethodsPass
  <2> QED
    BY <1>c, <1>d, <1>1, <1>5, <1>8, <2>4, <2>5
<1>9. CASE ~hasMin /\ ~hasMax
  BY <1>c, <1>d, <1>1, <1>2, <1>5, <1>9 DEF Satisfied
<1> QED
  BY <1>6, <1>7, <1>8, <1>9

LEMMA PasswordDemands ==
  ASSUME NEW name, NEW el, NEW inputs, NEW text, NEW texts,
         \A x \in DOMAIN el.attrs : el.attrs[x] # Undefined
  PROVE  Satisfied(Sets(16, name, el, inputs), text, texts) <=>
           Demands("password", name, el, text, texts)
<1> DEFINE has(p) == <<"password", p>> \in DOMAIN el.attrs
           par(p) == IF has(p) THEN el.attrs[<<"password", p>>] ELSE Undefined
<1>1. PICK a : a = Adapters[16]
  OBVIOUS
<1>2. a = Add("password", {"min", "nonalphamin", "regex"}, "password")
  BY <1>1, AdapterRows
<1>3. \A p \in {"min", "nonalphamin", "regex"} : Param(a, el.attrs, p) = par(p)
  BY <1>2 DEF Param, Add
<1>4. Sets(16, name, el, inputs) = AdaptPassword(par("min"), par("nonalphamin"), par("regex"))
  <2>1. Adapt(a, name, el, inputs) =
          AdaptPassword(Param(a, el.attrs, "min"), Param(a, el.attrs, "nonalphamin"),
                        Param(a, el.attrs, "regex"))
    BY <1>2, OtherSets
  <2> QED
    BY <1>1, <1>3, <2>1 DEF Sets
<1>5. \A p : par(p) # Undefined <=> has(p)
  OBVIOUS
<1> HIDE DEF par
<1>6. PICK rules : rules = AdaptPassword(par("min"), par("nonalphamin"), par("regex"))
  OBVIOUS
<1>7. /\ \A r : r \in DOMAIN rules <=>
           \/ r = "minlength" /\ has("min")
           \/ r = "nonalphamin" /\ has("nonalphamin")
           \/ r = "regex" /\ has("regex")
      /\ has("min") => rules["minlength"] = par("min")
      /\ has("nonalphamin") => rules["nonalphamin"] = par("nonalphamin")
      /\ has("regex") => rules["regex"] = par("regex")
  <2>1. PICK values : values =
          [r \in {"minlength", "nonalphamin", "regex"} |->
             CASE r = "minlength"   -> par("min")
               [] r = "nonalphamin" -> par("nonalphamin")
               [] r = "regex"       -> par("regex")]
    OBVIOUS
  <2>2. /\ DOMAIN values = {"minlength", "nonalphamin", "regex"}
        /\ values["minlength"] = par("min")
        /\ values["nonalphamin"] = par("nonalphamin")
        /\ values["regex"] = par("regex")
    BY <2>1
  <2>3. rules = [r \in {r \in DOMAIN values : values[r] # Undefined} |-> values[r]]
    BY <1>6, <2>1 DEF AdaptPassword
  <2> QED
    BY <1>5, <2>2, <2>3
<1>8. Satisfied(rules, text, texts) <=>
        /\ has("min") => Passes("minlength", par("min"), text, texts)
        /\ has("nonalphamin") => Passes("nonalphamin", par("nonalphamin"), text, texts)
        /\ has("regex") => Passes("regex", par("regex"), text, texts)
  BY <1>5, <1>7 DEF Satisfied
<1>9. /\ Passes("minlength", par("min"), text, texts) <=> text = Blank \/ text >= par("min")
      /\ Passes("nonalphamin", par("nonalphamin"), text, texts) <=>
           <<"nonalphamin", text>> \in WellFormed
      /\ Passes("regex", par("regex"), text, texts) <=>
           text = Blank \/ <<"regex", text>> \in WellFormed
  BY MethodsPass
<1>10. has("min") => par("min") = el.attrs[<<"password", "min">>]
  BY DEF par
<1> HIDE DEF has
<1>11. Demands("password", name, el, text, texts) <=>
         /\ has("min") => text = Blank \/ text >= el.attrs[<<"password", "min">>]
         /\ has("nonalphamin") => <<"nonalphamin", text>> \in WellFormed
         /\ has("regex") => text = Blank \/ <<"regex", text>> \in WellFormed
  BY DEF Demands, FormatRule, has
<1> QED
  BY <1>4, <1>6, <1>8, <1>9, <1>10, <1>11

LEMMA RequiredDemands ==
  ASSUME NEW name, NEW el, NEW inputs, NEW text, NEW texts
  PROVE  Satisfied(Sets(14, name, el, inputs), text, texts) <=>
           Demands("required", name, el, text, texts)
<1>1. Sets(14, name, el, inputs) = AdaptRequired(el.checkbox)
  BY AdapterRows, OtherSets DEF Sets
<1>2. Demands("required", name, el, text, texts) <=> (~el.checkbox => text # Blank)
  BY DEF Demands, FormatRule
<1>3. Satisfied(AdaptRequired(el.checkbox), text, texts) <=>
        (~el.checkbox => Passes("required", TRUE, text, texts))
  BY UndefinedAssumption DEF Satisfied, AdaptRequired, NoRules, SetValidationValue
<1>4. Passes("required", TRUE, text, texts) <=> text # Blank
  BY MethodsPass
<1> QED
  BY <1>1, <1>2, <1>3, <1>4

LEMMA FormatDemands ==
  ASSUME NEW i \in {4, 5, 6, 7, 8}, NEW name, NEW el, NEW inputs, NEW text, NEW texts
  PROVE  Satisfied(Sets(i, name, el, inputs), text, texts) <=>
           Demands(Adapters[i].name, name, el, text, texts)
<1>1. PICK n \in FormatRule : Adapters[i] = AddBool(n)
  BY AdapterRows DEF FormatRule
<1>2. Sets(i, name, el, inputs) = [r \in {n} |-> TRUE] /\ Adapters[i].name = n
  BY <1>1, BoolSets DEF Sets, AddBool
<1>3. Satisfied([r \in {n} |-> TRUE], text, texts) <=> Passes(n, TRUE, text, texts)
  BY UndefinedAssumption DEF Satisfied, FormatRule
<1>4. Passes(n, TRUE, text, texts) <=> text = Blank \/ <<n, text>> \in WellFormed
  BY MethodsPass
<1>5. Demands(n, name, el, text, texts) <=> text = Blank \/ <<n, text>> \in WellFormed
  BY DEF Demands, FormatRule
<1> QED
  BY <1>2, <1>3, <1>4, <1>5

LEMMA RegexDemands ==
  ASSUME NEW name, NEW el, NEW inputs, NEW text, NEW texts,
         \A x \in DOMAIN el.attrs : el.attrs[x] # Undefined,
         <<"regex", "pattern">> \in DOMAIN el.attrs
  PROVE  Satisfied(Sets(2, name, el, inputs), text, texts) <=>
           Demands("regex", name, el, text, texts)
<1>1. PICK p : p = el.attrs[<<"regex", "pattern">>]
  OBVIOUS
<1>2. /\ DOMAIN Sets(2, name, el, inputs) = {"regex"}
      /\ Sets(2, name, el, inputs)["regex"] = p
  <2>1. PICK rules : rules = Adapt(AddSingleVal("regex", "pattern", "regex"), name, el, inputs)
    OBVIOUS
  <2>2. /\ \A r : r \in DOMAIN rules <=> r = "regex"
        /\ rules["regex"] = IF <<"regex", "pattern">> \in DOMAIN el.attrs
                              THEN el.attrs[<<"regex", "pattern">>] ELSE Undefined
    BY <2>1, SingleValSets
  <2>3. Sets(2, name, el, inputs) = rules
    BY <2>1, AdapterRows DEF Sets
  <2> QED
    BY <1>1, <2>2, <2>3
<1>3. Satisfied(Sets(2, name, el, inputs), text, texts) <=> Passes("regex", p, text, texts)
  BY <1>1, <1>2 DEF Satisfied
<1>4. Passes("regex", p, text, texts) <=> text = Blank \/ <<"regex", text>> \in WellFormed
  BY MethodsPass
<1>5. Demands("regex", name, el, text, texts) <=> text = Blank \/ <<"regex", text>> \in WellFormed
  BY DEF Demands, FormatRule
<1> QED
  BY <1>2, <1>3, <1>4, <1>5

\* A name is the sequence of its parts, and none begins with the mark "*".
IsName(n) == n \in Seq(STRING) /\ n # <<>> /\ n[1] # "*"

LEMMA TwoParts ==
  ASSUME NEW S, NEW s \in Seq(S), Len(s) = 2
  PROVE  s = <<s[1], s[2]>>
<1>1. s[1] \in S /\ s[2] \in S
  BY ElementOfSeq
<1>2. \A x \in S, y \in S : <<x, y>> \in Seq(S)
  OBVIOUS
<1>3. <<s[1], s[2]>> \in Seq(S)
  BY <1>1, <1>2
<1> QED
  BY <1>3, SeqEqual

LEMMA ModelPrefix ==
  ASSUME NEW n, IsName(n)
  PROVE  /\ GetModelPrefix(n) \in Seq(STRING)
         /\ Len(GetModelPrefix(n)) = Len(n) - 1
         /\ \A i \in 1 .. Len(n) - 1 : GetModelPrefix(n)[i] = n[i]
<1>1. n \in Seq(STRING) /\ Len(n) \in Nat \ {0}
  BY EmptySeq, LenProperties DEF IsName
<1>2. PICK k : k = Len(n) - 1
  OBVIOUS
<1>3. k \in Nat /\ \A i \in 1 .. k : n[i] \in STRING
  BY <1>1, <1>2, ElementOfSeq
<1>4. /\ SubSeq(n, 1, k) \in Seq(STRING)
      /\ Len(SubSeq(n, 1, k)) = IF 1 <= k THEN k - 1 + 1 ELSE 0
      /\ \A i \in 1 .. k - 1 + 1 : SubSeq(n, 1, k)[i] = n[1 + i - 1]
  BY <1>3, SubSeqProperties
<1> QED
  BY <1>1, <1>2, <1>3, <1>4 DEF GetModelPrefix

\* The name that a comparison resolves is the only one that the attribute can
\* mean.
LEMMA ResolvedName ==
  ASSUME NEW name, IsName(name), NEW other \in Seq(STRING),
         IsName(other) \/ (Len(other) = 2 /\ other[1] = "*"),
         NEW n, IsName(n)
  PROVE  n = AppendModelPrefix(other, GetModelPrefix(name)) <=>
           \/ n = other
           \/ other = <<"*", n[Len(n)]>> /\ GetModelPrefix(n) = GetModelPrefix(name)
<1>1. CASE IsName(other)
  BY <1>1 DEF IsName, AppendModelPrefix
<1>2. CASE Len(other) = 2 /\ other[1] = "*"
  <2>1. PICK prefix \in Seq(STRING) : prefix = GetModelPrefix(name)
    BY ModelPrefix
  <2>2. PICK last \in STRING : last = other[2] /\ other = <<"*", last>>
    <3>1. PICK x : x = other[2]
      OBVIOUS
    <3>2. x \in STRING
      <4>1. 2 \in 1 .. Len(other)
        BY <1>2
      <4> QED
        BY <3>1, <4>1, ElementOfSeq
    <3>3. other = <<"*", other[2]>>
      BY <1>2, TwoParts
    <3> QED
      BY <3>1, <3>2, <3>3
  <2>3. AppendModelPrefix(other, prefix) = prefix \o <<last>>
    BY <2>2 DEF AppendModelPrefix
  <2>4. n # other
    BY <2>2 DEF IsName
  <2>5. other = <<"*", n[Len(n)]>> <=> n[Len(n)] = last
    BY <2>2
  <2>6. ASSUME n = prefix \o <<last>>
        PROVE  n[Len(n)] = last /\ GetModelPrefix(n) = prefix
    <3>1. Len(n) = Len(prefix) + 1 /\ n[Len(n)] = last
      BY <2>6
    <3>2. \A i \in 1 .. Len(prefix) : n[i] = prefix[i]
      BY <2>6
    <3>3. PICK p : p = GetModelPrefix(n)
      OBVIOUS
    <3>4. p \in Seq(STRING) /\ Len(p) = Len(n) - 1 /\ \A i \in 1 .. Len(n) - 1 : p[i] = n[i]
      BY <3>3, ModelPrefix
    <3>5. Len(prefix) \in Nat
      OBVIOUS
    <3>6. Len(p) = Len(prefix) /\ \A i \in 1 .. Len(p) : p[i] = prefix[i]
      BY <3>1, <3>2, <3>4, <3>5
    <3> QED
      BY <3>1, <3>3, <3>4, <3>6, SeqEqual
  <2>7. ASSUME n[Len(n)] = last, GetModelPrefix(n) = prefix
        PROVE  n = prefix \o <<last>>
    <3>1. Len(n) \in Nat /\ Len(n) > 0
      BY DEF IsName
    <3>3. Len(prefix) = Len(n) - 1 /\ \A i \in 1 .. Len(n) - 1 : prefix[i] = n[i]
      BY <2>7, ModelPrefix
    <3>4. PICK t : t = prefix \o <<last>>
      OBVIOUS
    <3>5. t \in Seq(STRING) /\ Len(t) = Len(n)
      BY <3>1, <3>3, <3>4
    <3>6. \A i \in 1 .. Len(n) : t[i] = n[i]
      BY <2>7, <3>1, <3>3, <3>4
    <3> QED
      BY <3>4, <3>5, <3>6, SeqEqual DEF IsName
  <2> QED
    BY <2>1, <2>3, <2>4, <2>5, <2>6, <2>7
<1> QED
  BY <1>1, <1>2

LEMMA EqualToDemands ==
  ASSUME NEW names, \A n \in names : IsName(n), Undefined \notin names,
         NEW name \in names, NEW el, WellMarked(name, el, names),
         <<"equalto">> \in DOMAIN el.attrs,
         NEW inputs, inputs \subseteq names,
         AppendModelPrefix(el.attrs[<<"equalto", "other">>], GetModelPrefix(name)) \in inputs,
         NEW text, NEW texts, DOMAIN texts = names
  PROVE  Satisfied(Sets(13, name, el, inputs), text, texts) <=>
           Demands("equalto", name, el, text, texts)
<1>1. PICK other : other = el.attrs[<<"equalto", "other">>]
  OBVIOUS
<1>2. /\ <<"equalto", "other">> \in DOMAIN el.attrs
      /\ other \in names \/ (other \in Seq(STRING) /\ Len(other) = 2 /\ other[1] = "*")
  BY <1>1 DEF WellMarked
<1>3. /\ other \in Seq(STRING)
      /\ IsName(other) \/ (Len(other) = 2 /\ other[1] = "*")
  BY <1>2 DEF IsName
<1>4. PICK full : full = AppendModelPrefix(other, GetModelPrefix(name))
  OBVIOUS
<1>5. full \in names /\ full # Undefined
  BY <1>1, <1>4
<1>6. Sets(13, name, el, inputs) = [r \in {"equalTo"} |-> full]
  <2>1. PICK a : a = Adapters[13]
    OBVIOUS
  <2>2. a = Add("equalto", {"other"}, "equalto")
    BY <2>1, AdapterRows
  <2>3. Param(a, el.attrs, "other") = other
    BY <1>1, <1>2, <2>2 DEF Param, Add
  <2>4. Adapt(a, name, el, inputs) = AdaptEqualTo(name, Param(a, el.attrs, "other"), inputs)
    BY <2>2, OtherSets
  <2> QED
    BY <1>1, <1>4, <2>1, <2>3, <2>4 DEF Sets, AdaptEqualTo, SetValidationValue
<1>7. Satisfied([r \in {"equalTo"} |-> full], text, texts) <=> text = texts[full]
  <2>1. Satisfied([r \in {"equalTo"} |-> full], text, texts) <=>
          Passes("equalTo", full, text, texts)
    BY <1>5 DEF Satisfied
  <2> QED
    BY <2>1, MethodsPass
<1>8. \A n \in names :
        n = full <=>
          \/ n = other
          \/ other = <<"*", n[Len(n)]>> /\ GetModelPrefix(n) = GetModelPrefix(name)
  BY <1>3, <1>4, ResolvedName
<1>9. Demands("equalto", name, el, text, texts) <=>
        \E n \in names :
          /\ text = texts[n]
          /\ \/ n = other
             \/ other = <<"*", n[Len(n)]>> /\ GetModelPrefix(n) = GetModelPrefix(name)
  BY <1>1 DEF Demands, FormatRule
<1> QED
  BY <1>5, <1>6, <1>7, <1>8, <1>9

\* The inputs whose texts the request of "remote" carries, by its attributes.
AskedBy(name, el) ==
  AdaptRemote(name, IF <<"remote", "additionalfields">> \in DOMAIN el.attrs
                      THEN el.attrs[<<"remote", "additionalfields">>]
                      ELSE Undefined)["remote"]

LEMMA RemoteSets ==
  ASSUME NEW name, NEW el, NEW inputs
  PROVE  /\ \A r : r \in DOMAIN Sets(15, name, el, inputs) <=> r = "remote"
         /\ Sets(15, name, el, inputs)["remote"] = AskedBy(name, el)
<1>1. PICK a : a = Adapters[15]
  OBVIOUS
<1>2. a = Add("remote", {"url", "type", "additionalfields"}, "remote")
  BY <1>1, AdapterRows
<1>3. Param(a, el.attrs, "additionalfields") =
        IF <<"remote", "additionalfields">> \in DOMAIN el.attrs
          THEN el.attrs[<<"remote", "additionalfields">>] ELSE Undefined
  BY <1>2 DEF Param, Add
<1>4. Adapt(a, name, el, inputs) = AdaptRemote(name, Param(a, el.attrs, "additionalfields"))
  BY <1>2, OtherSets
<1> QED
  BY <1>1, <1>3, <1>4 DEF Sets, AskedBy, AdaptRemote, SetValidationValue

LEMMA AskedIsKnown ==
  ASSUME NEW names, NEW name \in names, NEW el, WellMarked(name, el, names)
  PROVE  AskedBy(name, el) \subseteq names
<1>1. CASE <<"remote", "additionalfields">> \in DOMAIN el.attrs
  BY <1>1 DEF WellMarked, AskedBy
<1>2. CASE <<"remote", "additionalfields">> \notin DOMAIN el.attrs
  BY <1>2 DEF AskedBy, AdaptRemote, SetValidationValue
<1> QED
  BY <1>1, <1>2

\* The adapters whose rules have a method.
LEMMA UsedAdapters ==
  ASSUME NEW name, NEW el, NEW inputs, NEW i \in Used(el),
         DOMAIN Sets(i, name, el, inputs) \subseteq Method
  PROVE  i \in {2, 4, 5, 6, 7, 8, 9, 10, 11, 12, 13, 14, 15, 16}
<1>1. i \in {1, 2, 3, 4, 5, 6, 7, 8, 9, 10, 11, 12, 13, 14, 15, 16, 17}
  BY AdapterRows DEF Used
<1>2. "accept" \in DOMAIN Sets(1, name, el, inputs)
  BY AdapterRows DEF Sets, Adapt, AddSingleVal, SetValidationValue
<1>3. "creditcard" \in DOMAIN Sets(3, name, el, inputs)
  <2>1. Adapt(AddBool("creditcard"), name, el, inputs) = [r \in {"creditcard"} |-> TRUE]
    BY BoolSets
  <2> QED
    BY <2>1, AdapterRows DEF Sets
<1>4. "extension" \in DOMAIN Sets(17, name, el, inputs)
  <2>1. DOMAIN Adapt(Add("fileextensions", {"extensions"}, "fileextensions"), name, el, inputs)
          = {"extension"}
    BY OtherSets
  <2> QED
    BY <2>1, AdapterRows DEF Sets
<1>5. "accept" \notin Method /\ "creditcard" \notin Method /\ "extension" \notin Method
  BY DEF Method, FormatRule, Dummy
<1> QED
  BY <1>1, <1>2, <1>3, <1>4, <1>5

\* What an adapter sets is what its attributes demand.
LEMMA AdapterDemands ==
  ASSUME NEW names, \A n \in names : IsName(n), Undefined \notin names,
         NEW name \in names, NEW el, WellMarked(name, el, names),
         NEW inputs, inputs \subseteq names,
         <<"equalto">> \in DOMAIN el.attrs =>
           AppendModelPrefix(el.attrs[<<"equalto", "other">>], GetModelPrefix(name)) \in inputs,
         RangeHasBothEnds(el), NEW text, NEW texts, DOMAIN texts = names,
         NEW i \in Used(el), DOMAIN Sets(i, name, el, inputs) \subseteq Method
  PROVE  Satisfied(Sets(i, name, el, inputs), text, texts) <=>
           Demands(Adapters[i].name, name, el, text, texts)
<1>1. i \in {2, 4, 5, 6, 7, 8, 9, 10, 11, 12, 13, 14, 15, 16}
  BY UsedAdapters
<1>2. \A x \in DOMAIN el.attrs : el.attrs[x] # Undefined
  BY DEF WellMarked
<1>3. <<Adapters[i].name>> \in DOMAIN el.attrs
  BY DEF Used
<1>4. CASE i = 2
  <2>1. Adapters[2].name = "regex"
    BY AdapterRows DEF AddSingleVal
  <2>2. <<"regex", "pattern">> \in DOMAIN el.attrs
    BY <1>3, <1>4, <2>1 DEF WellMarked
  <2> QED
    BY <1>2, <1>4, <2>1, <2>2, RegexDemands
<1>5. CASE i \in {4, 5, 6, 7, 8}
  BY <1>5, FormatDemands
<1>6. CASE i \in {9, 10, 11, 12}
  BY <1>6, MinMaxDemands DEF Used
<1>7. CASE i = 13
  <2>1. Adapters[13].name = "equalto"
    BY AdapterRows DEF Add
  <2> QED
    BY <1>3, <1>7, <2>1, EqualToDemands
<1>8. CASE i = 14
  <2>1. Adapters[14].name = "required"
    BY AdapterRows DEF Add
  <2> QED
    BY <1>8, <2>1, RequiredDemands
<1>9. CASE i = 15
  <2>1. Adapters[15].name = "remote"
    BY AdapterRows DEF Add
  <2>2. Satisfied(Sets(15, name, el, inputs), text, texts)
    BY RemoteSets DEF Satisfied
  <2>3. Demands("remote", name, el, text, texts)
    BY DEF Demands, FormatRule
  <2> QED
    BY <1>9, <2>1, <2>2, <2>3
<1>10. CASE i = 16
  <2>1. Adapters[16].name = "password"
    BY AdapterRows DEF Add
  <2> QED
    BY <1>2, <1>10, <2>1, PasswordDemands
<1> QED
  BY <1>1, <1>4, <1>5, <1>6, <1>7, <1>8, <1>9, <1>10

\* The rules of an input, the request of "remote" aside, say of a text what the
\* attributes of the input demand of it.
LEMMA RulesSayMarkup ==
  ASSUME NEW names, \A n \in names : IsName(n), Undefined \notin names,
         NEW name \in names, NEW el, WellMarked(name, el, names),
         DOMAIN ParsedRules(name, el, names) \subseteq Method,
         NEW inputs, inputs \subseteq names,
         <<"equalto">> \in DOMAIN el.attrs =>
           AppendModelPrefix(el.attrs[<<"equalto", "other">>], GetModelPrefix(name)) \in inputs,
         RangeHasBothEnds(el), NEW text, NEW texts, DOMAIN texts = names
  PROVE  Satisfied(ParsedRules(name, el, inputs), text, texts) <=>
           Meets(name, el, text, texts)
<1>1. \A i \in Used(el) : DOMAIN Sets(i, name, el, inputs) \subseteq Method
  <2>1. \A i \in Used(el) : DOMAIN Sets(i, name, el, names) \subseteq Method
    BY RulesAreSet
  <2>2. \A i \in Used(el) : DOMAIN Sets(i, name, el, inputs) = DOMAIN Sets(i, name, el, names)
    BY SameRules DEF Used
  <2> QED
    BY <2>1, <2>2
<1>2. \A i \in Used(el) :
        Satisfied(Sets(i, name, el, inputs), text, texts) <=>
          Demands(Adapters[i].name, name, el, text, texts)
  BY <1>1, AdapterDemands
<1>3. Satisfied(ParsedRules(name, el, inputs), text, texts) <=>
        \A i \in Used(el) : Satisfied(Sets(i, name, el, inputs), text, texts)
  <2>1. PICK rules : rules = ParsedRules(name, el, inputs)
    OBVIOUS
  <2>2. \A r : r \in DOMAIN rules <=>
          r = Dummy \/ \E i \in Used(el) : r \in DOMAIN Sets(i, name, el, inputs)
    BY <2>1, RulesAreSet
  <2>3. \A i \in Used(el) : \A r \in DOMAIN Sets(i, name, el, inputs) :
          r # Dummy => rules[r] = Sets(i, name, el, inputs)[r]
    BY <2>1, RulesAreSet
  <2>4. \A p : Passes(Dummy, p, text, texts)
    BY MethodsPass
  <2> QED
    BY <2>1, <2>2, <2>3, <2>4 DEF Satisfied
<1> QED
  BY <1>2, <1>3, MeetsDemands

\* An input whose attributes ask for it, and no other, has the rule "remote".
LEMMA RemoteIsAsked ==
  ASSUME NEW names, NEW name \in names, NEW el, WellMarked(name, el, names),
         DOMAIN ParsedRules(name, el, names) \subseteq Method,
         NEW inputs
  PROVE  /\ "remote" \in DOMAIN ParsedRules(name, el, inputs) <=>
              <<"remote">> \in DOMAIN el.attrs
         /\ <<"remote">> \in DOMAIN el.attrs =>
              ParsedRules(name, el, inputs)["remote"] = AskedBy(name, el)
<1>1. \A i \in Used(el) : DOMAIN Sets(i, name, el, inputs) \subseteq Method
  <2>1. \A i \in Used(el) : DOMAIN Sets(i, name, el, names) \subseteq Method
    BY RulesAreSet
  <2>2. \A i \in Used(el) : DOMAIN Sets(i, name, el, inputs) = DOMAIN Sets(i, name, el, names)
    BY SameRules DEF Used
  <2> QED
    BY <2>1, <2>2
<1>2. 15 \in Used(el) <=> <<"remote">> \in DOMAIN el.attrs
  BY AdapterRows DEF Used, Add
<1>3. ASSUME NEW i \in Used(el), i # 15
      PROVE  "remote" \notin DOMAIN Sets(i, name, el, inputs)
  <2>1. i \in {2, 4, 5, 6, 7, 8, 9, 10, 11, 12, 13, 14, 16}
    BY <1>1, <1>3, UsedAdapters
  <2>2. PICK a : a = Adapters[i]
    OBVIOUS
  <2>3. CASE i = 2
    BY <2>3, AdapterRows DEF Sets, Adapt, AddSingleVal, SetValidationValue
  <2>4. CASE i \in {4, 5, 6, 7, 8}
    <3>1. PICK n \in FormatRule : Adapters[i] = AddBool(n)
      BY <2>4, AdapterRows DEF FormatRule
    <3>2. Sets(i, name, el, inputs) = [r \in {n} |-> TRUE]
      BY <3>1, BoolSets DEF Sets
    <3> QED
      BY <3>1, <3>2 DEF FormatRule
  <2>5. CASE i \in {9, 10, 11, 12}
    <3>1. PICK n, r1, r2, r3 :
            /\ r1 # "remote" /\ r2 # "remote" /\ r3 # "remote"
            /\ Adapters[i] = AddMinMax(n, r1, r2, r3)
      BY <2>5, AdapterRows DEF Missing
    <3> QED
      BY <3>1 DEF Sets, Adapt, AddMinMax, AdaptMinMax, SetValidationValue, NoRules
  <2>6. CASE i = 13
    BY <2>6, AdapterRows, OtherSets DEF Sets, AdaptEqualTo, SetValidationValue
  <2>7. CASE i = 14
    BY <2>7, AdapterRows, OtherSets DEF Sets, AdaptRequired, SetValidationValue, NoRules
  <2>8. CASE i = 16
    BY <2>8, AdapterRows DEF Sets, Adapt, Add, AdaptPassword
  <2> QED
    BY <2>1, <2>3, <2>4, <2>5, <2>6, <2>7, <2>8
<1>4. \A r : r \in DOMAIN ParsedRules(name, el, inputs) <=>
        r = Dummy \/ \E i \in Used(el) : r \in DOMAIN Sets(i, name, el, inputs)
  BY RulesAreSet
<1>5. "remote" # Dummy
  BY DEF Dummy
<1>6. \A i \in Used(el) : \A r \in DOMAIN Sets(i, name, el, inputs) :
        r # Dummy => ParsedRules(name, el, inputs)[r] = Sets(i, name, el, inputs)[r]
  BY RulesAreSet
<1>7. /\ "remote" \in DOMAIN Sets(15, name, el, inputs)
      /\ Sets(15, name, el, inputs)["remote"] = AskedBy(name, el)
  BY RemoteSets
<1> QED
  BY <1>2, <1>3, <1>4, <1>5, <1>6, <1>7

-----------------------------------------------------------------------------
(* The invariant.                                                           *)

FormFields ==
  {"errors", "successes", "submitted", "judged", "invalid", "pending",
   "pendingRequest", "previous", "request", "formSubmitted", "compared", "error",
   "says", "summary", "sent", "cancelled"}

\* The inputs that have rules, and are checked while they are shown.
Ruled == IF settings = None THEN {} ELSE {f \in present : RulesFor(f) # NoRules}

\* The requests under way are of inputs that wait, and all of those are counted.
Counts(s) ==
  /\ s.pending \subseteq Field
  /\ s.pendingRequest = Cardinality(s.pending)
  /\ DOMAIN s.request = Field
  /\ \A f \in Field : s.request[f] # None => f \in s.pending

\* Only inputs with rules are marked.  Those that are always shown and not in
\* waiting are marked as the object "invalid" says, and so is what the last check
\* has left in the lists of errors and successes, which an answer shows once more.
Marks(s, waiting) ==
  /\ s.error \cup s.errors \cup s.successes \cup s.invalid \cup s.pending \subseteq Ruled
  /\ \A f \in Field \ waiting :
       ~page[f].hides =>
         /\ f \in s.error <=> f \in s.invalid
         /\ f \in s.errors => f \in s.invalid
         /\ f \in s.successes => f \notin s.invalid
  /\ \A f \in s.error : page[f].replace => f \in s.says

GoodForm(s) == DOMAIN s = FormFields /\ Counts(s) /\ Marks(s, s.pending)

\* Whatever rules an input has, the one that always passes is among them, so that
\* a check of the input always ends with a verdict.
AlwaysPasses(rules) == Dummy \in DOMAIN rules /\ rules[Dummy] = TRUE

RulesHaveDummy ==
  /\ \A f \in DOMAIN options : AlwaysPasses(options[f])
  /\ settings # None =>
       \A f \in Field : RulesFor(f) = NoRules \/ Dummy \in DOMAIN RulesFor(f)

\* Only inputs that can be hidden are.
HiddenCan == \A f \in hidden : f \in Field /\ page[f].hides

\* What every step preserves.
FormInv == present \subseteq Field /\ HiddenCan /\ RulesHaveDummy /\ GoodForm(form)

-----------------------------------------------------------------------------
(* What the operators on a form change.                                     *)

\* The marks.
LEMMA OnErrorFields ==
  ASSUME NEW s, DOMAIN s = FormFields, NEW fs
  PROVE  LET t == OnError(s, fs) IN
         /\ DOMAIN t = FormFields
         /\ t.error = s.error \cup fs
         /\ t.says = s.says \cup {f \in fs : page[f].replace}
         /\ \A x \in FormFields \ {"error", "says"} : t[x] = s[x]
BY DEF OnError, FormFields

LEMMA OnSuccessFields ==
  ASSUME NEW s, DOMAIN s = FormFields, NEW fs
  PROVE  LET t == OnSuccess(s, fs) IN
         /\ DOMAIN t = FormFields
         /\ t.error = s.error \ fs
         /\ t.says = s.says \ {f \in fs : page[f].replace}
         /\ \A x \in FormFields \ {"error", "says"} : t[x] = s[x]
BY DEF OnSuccess, FormFields

LEMMA OnErrorsFields ==
  ASSUME NEW s, DOMAIN s = FormFields
  PROVE  /\ DOMAIN OnErrors(s) = FormFields
         /\ \A x \in FormFields \ {"summary"} : OnErrors(s)[x] = s[x]
BY DEF OnErrors, FormFields

LEMMA ShowErrorsFields ==
  ASSUME NEW s, DOMAIN s = FormFields
  PROVE  LET t == ShowErrors(s) IN
         /\ DOMAIN t = FormFields
         /\ t.error = (s.error \cup s.errors \cup s.successes) \ s.successes
         /\ t.says = (s.says \cup {f \in s.errors \cup s.successes : page[f].replace})
                       \ {f \in s.successes : page[f].replace}
         /\ \A x \in FormFields \ {"error", "says"} : t[x] = s[x]
<1> DEFINE marked == OnError(s, s.errors \cup s.successes)
<1>1. /\ DOMAIN marked = FormFields
      /\ marked.error = s.error \cup (s.errors \cup s.successes)
      /\ marked.says = s.says \cup {f \in s.errors \cup s.successes : page[f].replace}
      /\ \A x \in FormFields \ {"error", "says"} : marked[x] = s[x]
  BY OnErrorFields
<1> HIDE DEF marked
<1>2. LET t == OnSuccess(marked, s.successes) IN
      /\ DOMAIN t = FormFields
      /\ t.error = marked.error \ s.successes
      /\ t.says = marked.says \ {f \in s.successes : page[f].replace}
      /\ \A x \in FormFields \ {"error", "says"} : t[x] = marked[x]
  BY <1>1, OnSuccessFields
<1> QED
  BY <1>1, <1>2 DEF ShowErrors, marked

\* The requests.
LEMMA StartRequestsFields ==
  ASSUME NEW s, DOMAIN s = FormFields, NEW fs
  PROVE  LET t == StartRequests(s, fs) IN
         /\ DOMAIN t = FormFields
         /\ t.pendingRequest = s.pendingRequest + Cardinality(fs \ s.pending)
         /\ t.pending = s.pending \cup fs
         /\ t.request = [f \in Field |->
              IF f \in fs THEN [value |-> Carried(f), kept |-> TRUE] ELSE s.request[f]]
         /\ t.error = s.error /\ t.says = s.says /\ t.invalid = s.invalid
BY DEF StartRequests, FormFields

\* The check.
LEMMA CheckedFields ==
  ASSUME NEW s, DOMAIN s = FormFields, NEW fs
  PROVE  LET t == Checked(s, fs)
             started == StartRequests(s, {f \in fs : Verdict(s, f) = "pending"}) IN
         /\ DOMAIN t = FormFields
         /\ \A f : f \in t.errors <=> f \in fs /\ Verdict(s, f) = "invalid"
         /\ \A f : f \in t.successes <=> f \in fs /\ Verdict(s, f) = "valid"
         /\ \A x \in {"pending", "pendingRequest", "request", "invalid", "error", "says",
                      "judged"} : t[x] = started[x]
<1> DEFINE started == StartRequests(s, {f \in fs : Verdict(s, f) = "pending"})
<1>1. DOMAIN started = FormFields
  BY StartRequestsFields
<1> HIDE DEF started
<1>2. Checked(s, fs) =
        [started EXCEPT
           !.errors = {f \in fs : Verdict(s, f) = "invalid"},
           !.successes = {f \in fs : Verdict(s, f) = "valid"},
           !.submitted = @ \cup {f \in fs : Verdict(s, f) = "invalid"},
           !.compared = @ \cup Compared(fs)]
  BY DEF Checked, started
<1> QED
  BY <1>1, <1>2 DEF FormFields, started

-----------------------------------------------------------------------------
(* Every operator on a form keeps it good.                                  *)

\* The check of an input that has rules is never without a verdict.
LEMMA VerdictCases ==
  ASSUME RulesHaveDummy, settings # None, NEW s, NEW f \in Field
  PROVE  /\ RulesFor(f) = NoRules => Verdict(s, f) = "none"
         /\ RulesFor(f) # NoRules => Verdict(s, f) \in {"valid", "invalid", "pending"}
<1>1. ASSUME RulesFor(f) # NoRules
      PROVE  ~\E r \in DOMAIN RulesFor(f) :
               DOMAIN RulesFor(f) = {r} /\ Abstains(r, value[f])
  BY <1>1 DEF RulesHaveDummy, Abstains
<1>2. CASE RulesFor(f) = NoRules
  BY <1>2 DEF Verdict
<1>3. CASE RulesFor(f) # NoRules /\ Failing(f) # {}
  BY <1>3 DEF Verdict
<1>4. CASE RulesFor(f) # NoRules /\ Failing(f) = {}
  BY <1>1, <1>4 DEF Verdict
<1> QED
  BY <1>2, <1>3, <1>4

\* A set of inputs is finite.
LEMMA FieldsAreFinite ==
  ASSUME NEW fs, fs \subseteq Field
  PROVE  IsFiniteSet(fs) /\ Cardinality(fs) \in Nat
BY FieldAssumption, FS_Subset, FS_CardinalityType

\* The requests that start are counted.
LEMMA StartIsCounted ==
  ASSUME NEW s, DOMAIN s = FormFields, Counts(s), NEW fs, fs \subseteq Field
  PROVE  Counts(StartRequests(s, fs))
<1>1. PICK t : t = StartRequests(s, fs)
  OBVIOUS
<1>2. /\ t.pendingRequest = s.pendingRequest + Cardinality(fs \ s.pending)
      /\ t.pending = s.pending \cup fs
      /\ t.request = [f \in Field |->
           IF f \in fs THEN [value |-> Carried(f), kept |-> TRUE] ELSE s.request[f]]
  BY <1>1, StartRequestsFields
<1>3. t.pendingRequest = Cardinality(t.pending)
  <2>1. IsFiniteSet(s.pending) /\ IsFiniteSet(fs \ s.pending)
    BY FieldsAreFinite DEF Counts
  <2>2. /\ Cardinality(s.pending \cup (fs \ s.pending)) =
             Cardinality(s.pending) + Cardinality(fs \ s.pending)
               - Cardinality(s.pending \cap (fs \ s.pending))
    BY <2>1, FS_Union
  <2>3. /\ s.pending \cup (fs \ s.pending) = t.pending
        /\ s.pending \cap (fs \ s.pending) = {}
    BY <1>2
  <2>4. Cardinality(s.pending) \in Nat /\ Cardinality(fs \ s.pending) \in Nat
    BY FieldsAreFinite DEF Counts
  <2>5. Cardinality(s.pending \cap (fs \ s.pending)) = 0
    BY <2>3, FS_EmptySet
  <2>6. /\ s.pendingRequest = Cardinality(s.pending)
        /\ t.pendingRequest = s.pendingRequest + Cardinality(fs \ s.pending)
        /\ Cardinality(t.pending) =
             Cardinality(s.pending) + Cardinality(fs \ s.pending) - 0
    BY <1>2, <2>2, <2>3, <2>5 DEF Counts
  <2> QED
    BY <2>4, <2>6
<1>4. \A f \in Field : t.request[f] # None => f \in t.pending
  BY <1>2 DEF Counts
<1> QED
  BY <1>1, <1>2, <1>3, <1>4 DEF Counts

\* After the check of the inputs fs, with "invalid" brought up to date for them,
\* the marks are made.
LEMMA GoodShown ==
  ASSUME RulesHaveDummy, settings # None, present \subseteq Field,
         NEW s, GoodForm(s), NEW fs, fs \subseteq present,
         NEW d, DOMAIN d = FormFields,
         \A x \in {"errors", "successes", "pending", "pendingRequest", "request",
                   "error", "says"} : d[x] = Checked(s, fs)[x],
         \A f \in fs : f \in d.invalid <=> Verdict(s, f) = "invalid",
         \A f \in d.invalid : f \in fs \cup s.invalid,
         \A f \in s.invalid \ fs : f \in d.invalid \/ page[f].hides
  PROVE  GoodForm(ShowErrors(d))
<1> DEFINE waits == {f \in fs : Verdict(s, f) = "pending"}
<1>1. /\ \A f : f \in d.errors <=> f \in fs /\ Verdict(s, f) = "invalid"
      /\ \A f : f \in d.successes <=> f \in fs /\ Verdict(s, f) = "valid"
      /\ \A x \in {"pending", "pendingRequest", "request", "error", "says"} :
           d[x] = StartRequests(s, waits)[x]
  BY CheckedFields DEF GoodForm
<1>2. /\ d.pending = s.pending \cup waits
      /\ d.error = s.error
      /\ d.says = s.says
  <2>1. \A w : LET t == StartRequests(s, w) IN
          t.pending = s.pending \cup w /\ t.error = s.error /\ t.says = s.says
    <3>1. DOMAIN s = FormFields
      BY DEF GoodForm
    <3> QED
      BY ONLY <3>1, StartRequestsFields
  <2> QED
    BY <1>1, <2>1
<1>3. Counts(d)
  <2>1. Counts(StartRequests(s, waits))
    BY StartIsCounted DEF GoodForm
  <2> QED
    BY <1>1, <2>1 DEF Counts
<1>4. PICK t : t = ShowErrors(d)
  OBVIOUS
<1>5. /\ DOMAIN t = FormFields
      /\ t.error = (d.error \cup d.errors \cup d.successes) \ d.successes
      /\ t.says = (d.says \cup {f \in d.errors \cup d.successes : page[f].replace})
                    \ {f \in d.successes : page[f].replace}
      /\ \A x \in FormFields \ {"error", "says"} : t[x] = d[x]
  BY <1>4, ShowErrorsFields
<1>6. /\ t.errors = d.errors /\ t.successes = d.successes /\ t.invalid = d.invalid
      /\ t.pending = d.pending /\ t.pendingRequest = d.pendingRequest
      /\ t.request = d.request
  BY <1>5 DEF FormFields
<1>7. \A f \in fs : f \in Ruled <=> Verdict(s, f) \in {"valid", "invalid", "pending"}
  BY VerdictCases DEF Ruled
<1>8. t.error \cup t.errors \cup t.successes \cup t.invalid \cup t.pending \subseteq Ruled
  BY <1>1, <1>2, <1>5, <1>6, <1>7 DEF GoodForm, Marks
<1>9. ASSUME NEW f \in Field \ t.pending, ~page[f].hides
      PROVE  /\ f \in t.error <=> f \in t.invalid
             /\ f \in t.errors => f \in t.invalid
             /\ f \in t.successes => f \notin t.invalid
  <2>1. CASE f \in fs
    <3>1. f \notin Ruled \/ Verdict(s, f) \in {"valid", "invalid"}
      BY <1>2, <1>6, <1>7, <2>1
    <3>2. f \notin Ruled => f \notin t.error
      BY <1>8
    <3> QED
      BY <1>1, <1>5, <1>6, <1>7, <2>1, <3>1, <3>2
  <2>2. CASE f \notin fs
    BY <1>1, <1>2, <1>5, <1>6, <1>9, <2>2 DEF GoodForm, Marks
  <2> QED
    BY <2>1, <2>2
<1>10. \A f \in t.error : page[f].replace => f \in t.says
  BY <1>2, <1>5 DEF GoodForm, Marks
<1>11. Counts(t)
  BY <1>3, <1>6 DEF Counts
<1> QED
  BY <1>4, <1>5, <1>8, <1>9, <1>10, <1>11 DEF GoodForm, Marks

\* Fields that say nothing of requests and marks may change.
LEMMA GoodIfSame ==
  ASSUME NEW s, GoodForm(s), NEW t, DOMAIN t = FormFields,
         t.pending = s.pending, t.pendingRequest = s.pendingRequest,
         t.request = s.request, t.error = s.error, t.errors = s.errors,
         t.successes = s.successes, t.invalid = s.invalid, t.says = s.says
  PROVE  GoodForm(t)
BY DEF GoodForm, Counts, Marks

\* form().
LEMMA GoodWhole ==
  ASSUME RulesHaveDummy, HiddenCan, settings # None, present \subseteq Field,
         NEW s, GoodForm(s)
  PROVE  GoodForm(WholeForm(s))
<1>1. PICK c : c = Checked(s, Elements)
  OBVIOUS
<1>2. /\ DOMAIN c = FormFields
      /\ \A f : f \in c.errors <=> f \in Elements /\ Verdict(s, f) = "invalid"
  <2>1. DOMAIN s = FormFields
    BY DEF GoodForm
  <2>2. DOMAIN c = FormFields
    BY ONLY <1>1, <2>1, CheckedFields
  <2>3. \A f : f \in c.errors <=> f \in Elements /\ Verdict(s, f) = "invalid"
    BY ONLY <1>1, <2>1, CheckedFields
  <2> QED
    BY <2>2, <2>3
<1>3. PICK e : e = [c EXCEPT !.judged = c.errors, !.invalid = c.errors]
  OBVIOUS
<1>4. PICK d : d = OnErrors(e)
  OBVIOUS
<1>5. /\ DOMAIN e = FormFields /\ e.invalid = c.errors
      /\ \A x \in {"errors", "successes", "pending", "pendingRequest", "request",
                   "error", "says"} : e[x] = c[x]
  BY <1>2, <1>3 DEF FormFields
<1>6. /\ DOMAIN d = FormFields /\ d.invalid = e.invalid
      /\ \A x \in {"errors", "successes", "pending", "pendingRequest", "request",
                   "error", "says"} : d[x] = e[x]
  BY <1>4, <1>5, OnErrorsFields DEF FormFields
<1>7. \A x \in {"errors", "successes", "pending", "pendingRequest", "request",
                "error", "says"} : d[x] = Checked(s, Elements)[x]
  BY <1>1, <1>5, <1>6
<1>8. /\ \A f \in Elements : f \in d.invalid <=> Verdict(s, f) = "invalid"
      /\ \A f \in d.invalid : f \in Elements \cup s.invalid
      /\ \A f \in s.invalid \ Elements : f \in d.invalid \/ page[f].hides
  <2>1. \A f \in s.invalid \ Elements : f \in hidden
    BY DEF GoodForm, Marks, Ruled, Elements
  <2> QED
    BY <1>2, <1>5, <1>6, <2>1 DEF HiddenCan
<1>9. Elements \subseteq present
  BY DEF Elements
<1>10. GoodForm(ShowErrors(d))
  BY <1>6, <1>7, <1>8, <1>9, GoodShown
<1> QED
  BY <1>1, <1>3, <1>4, <1>10 DEF WholeForm

\* element().
LEMMA GoodElement ==
  ASSUME RulesHaveDummy, HiddenCan, settings # None, present \subseteq Field,
         NEW s, GoodForm(s), NEW f \in present
  PROVE  GoodForm(OneElement(s, f))
<1>1. PICK c : c = Checked(s, {f})
  OBVIOUS
<1>2. /\ DOMAIN c = FormFields
      /\ \A g : g \in c.errors <=> g \in {f} /\ Verdict(s, g) = "invalid"
      /\ c.invalid = StartRequests(s, {g \in {f} : Verdict(s, g) = "pending"}).invalid
  <2>1. DOMAIN s = FormFields
    BY DEF GoodForm
  <2>2. DOMAIN c = FormFields
    BY ONLY <1>1, <2>1, CheckedFields
  <2>3. \A g : g \in c.errors <=> g \in {f} /\ Verdict(s, g) = "invalid"
    BY ONLY <1>1, <2>1, CheckedFields
  <2>4. c.invalid = StartRequests(s, {g \in {f} : Verdict(s, g) = "pending"}).invalid
    BY ONLY <1>1, <2>1, CheckedFields
  <2> QED
    BY <2>2, <2>3, <2>4
<1>3. c.invalid = s.invalid
  <2>1. \A w : StartRequests(s, w).invalid = s.invalid
    BY StartRequestsFields DEF GoodForm
  <2> QED
    BY <1>2, <2>1
<1>4. PICK d : d = [c EXCEPT
                      !.judged = @ \cup {f},
                      !.invalid = IF f \in c.errors THEN @ \cup {f} ELSE @ \ {f}]
  OBVIOUS
<1>5. /\ DOMAIN d = FormFields
      /\ d.invalid = IF f \in c.errors THEN c.invalid \cup {f} ELSE c.invalid \ {f}
      /\ \A x \in {"errors", "successes", "pending", "pendingRequest", "request",
                   "error", "says"} : d[x] = c[x]
  BY <1>2, <1>4 DEF FormFields
<1>6. \A x \in {"errors", "successes", "pending", "pendingRequest", "request",
                "error", "says"} : d[x] = Checked(s, {f})[x]
  BY <1>1, <1>5
<1>7. /\ \A g \in {f} : g \in d.invalid <=> Verdict(s, g) = "invalid"
      /\ \A g \in d.invalid : g \in {f} \cup s.invalid
      /\ \A g \in s.invalid \ {f} : g \in d.invalid \/ page[g].hides
  BY <1>2, <1>3, <1>5
<1>8. GoodForm(ShowErrors(d))
  BY <1>5, <1>6, <1>7, GoodShown
<1>9. CASE f \notin hidden
  BY <1>1, <1>4, <1>8, <1>9 DEF OneElement
<1>10. CASE f \in hidden
  <2>1. PICK e : e = [s EXCEPT !.judged = @ \ {f}, !.invalid = @ \ {f}]
    OBVIOUS
  <2>2. /\ DOMAIN e = FormFields /\ e.invalid = s.invalid \ {f}
        /\ e.errors = s.errors /\ e.successes = s.successes /\ e.error = s.error
        /\ e.says = s.says /\ e.pending = s.pending /\ e.request = s.request
        /\ e.pendingRequest = s.pendingRequest
    BY <2>1 DEF GoodForm, FormFields
  <2>3. page[f].hides
    BY <1>10 DEF HiddenCan
  <2>4. Counts(e) /\ Marks(e, e.pending)
    BY <2>2, <2>3 DEF GoodForm, Counts, Marks
  <2> QED
    BY <1>10, <2>1, <2>2, <2>4 DEF GoodForm, OneElement
<1> QED
  BY <1>9, <1>10

\* The handler of the submission.
LEMMA GoodSent ==
  ASSUME NEW s, GoodForm(s), NEW cancelSubmit
  PROVE  GoodForm(Sent(s, cancelSubmit))
<1>1. PICK d : d = Sent(s, cancelSubmit)
  OBVIOUS
<1>2. /\ DOMAIN d = FormFields /\ d.invalid = s.invalid
      /\ d.errors = s.errors /\ d.successes = s.successes /\ d.error = s.error
      /\ d.says = s.says /\ d.pending = s.pending /\ d.request = s.request
      /\ d.pendingRequest = s.pendingRequest
  BY <1>1 DEF Sent, GoodForm, FormFields
<1> QED
  BY ONLY <1>1, <1>2, GoodForm(s), GoodIfSame

LEMMA GoodSubmit ==
  ASSUME RulesHaveDummy, HiddenCan, settings # None, present \subseteq Field,
         NEW s, GoodForm(s)
  PROVE  \A cancelSubmit \in BOOLEAN : GoodForm(HandleSubmit(s, cancelSubmit))
<1>1. PICK c : c = WholeForm(s)
  OBVIOUS
<1>2. GoodForm(c)
  BY <1>1, GoodWhole
<1>3. GoodForm([c EXCEPT !.formSubmitted = TRUE])
  BY <1>2 DEF GoodForm, FormFields, Counts, Marks
<1>4. GoodForm(Sent(s, TRUE)) /\ GoodForm(Sent(c, FALSE))
  BY ONLY <1>2, GoodForm(s), GoodSent
<1> QED
  BY <1>1, <1>2, <1>3, <1>4 DEF HandleSubmit

\* A request of f is answered and no longer waited for.
LEMMA GoodStopped ==
  ASSUME RulesHaveDummy, HiddenCan, settings # None, present \subseteq Field,
         NEW s, DOMAIN s = FormFields, Counts(s),
         NEW f \in s.pending, s.request[f] = None,
         Marks(s, s.pending \ {f})
  PROVE  GoodForm([s EXCEPT !.pendingRequest = IF @ = 0 THEN 0 ELSE @ - 1,
                            !.pending = @ \ {f}])
<1>1. PICK c : c = [s EXCEPT !.pendingRequest = IF @ = 0 THEN 0 ELSE @ - 1,
                             !.pending = @ \ {f}]
  OBVIOUS
<1>2. /\ DOMAIN c = FormFields
      /\ c.pendingRequest = IF s.pendingRequest = 0 THEN 0 ELSE s.pendingRequest - 1
      /\ c.pending = s.pending \ {f}
      /\ c.request = s.request /\ c.error = s.error /\ c.errors = s.errors
      /\ c.successes = s.successes /\ c.invalid = s.invalid /\ c.says = s.says
  BY <1>1 DEF FormFields
<1>3. c.pendingRequest = Cardinality(c.pending)
  <2>1. IsFiniteSet(s.pending) /\ s.pendingRequest \in Nat
        /\ s.pendingRequest = Cardinality(s.pending)
    BY FieldsAreFinite DEF Counts
  <2>2. Cardinality(s.pending \ {f}) = Cardinality(s.pending) - 1
    BY <2>1, FS_RemoveElement
  <2>3. Cardinality(s.pending \ {f}) \in Nat
    BY FieldsAreFinite DEF Counts
  <2> QED
    BY <1>2, <2>1, <2>2, <2>3
<1>4. Counts(c)
  BY <1>2, <1>3 DEF Counts
<1>5. Marks(c, c.pending)
  BY <1>2 DEF Marks
<1> QED
  BY <1>1, <1>2, <1>4, <1>5 DEF GoodForm

LEMMA GoodStop ==
  ASSUME RulesHaveDummy, HiddenCan, settings # None, present \subseteq Field,
         NEW s, DOMAIN s = FormFields, Counts(s),
         NEW f \in s.pending, s.request[f] = None,
         Marks(s, s.pending \ {f}), NEW valid \in BOOLEAN
  PROVE  GoodForm(StopRequest(s, f, valid))
<1>1. PICK c : c = [s EXCEPT !.pendingRequest = IF @ = 0 THEN 0 ELSE @ - 1,
                             !.pending = @ \ {f}]
  OBVIOUS
<1>6. GoodForm(c)
  BY <1>1, GoodStopped
<1>2. DOMAIN c = FormFields
  BY <1>6 DEF GoodForm
<1> DEFINE last == c.pendingRequest = 0 /\ c.formSubmitted
<1>7. CASE last /\ valid
  <2>1. PICK again : again = WholeForm(c)
    OBVIOUS
  <2>2. GoodForm(again)
    BY <1>6, <2>1, GoodWhole
  <2>3. PICK h : h = HandleSubmit(again, FALSE)
    OBVIOUS
  <2>4. GoodForm(h)
    BY <2>2, <2>3, GoodSubmit
  <2>5. GoodForm([h EXCEPT !.formSubmitted = FALSE])
    BY <2>4 DEF GoodForm, FormFields, Counts, Marks
  <2>6. StopRequest(s, f, valid) =
          IF again.errors # {} THEN again ELSE [h EXCEPT !.formSubmitted = FALSE]
    BY <1>1, <1>7, <2>1, <2>3 DEF StopRequest
  <2> QED
    BY <2>2, <2>5, <2>6
<1>8. CASE last /\ ~valid
  <2>1. PICK e : e = OnErrors(c)
    OBVIOUS
  <2>2. GoodForm(e)
    <3>1. DOMAIN e = FormFields /\ \A x \in FormFields \ {"summary"} : e[x] = c[x]
      BY <1>2, <2>1, OnErrorsFields
    <3> QED
      BY <1>6, <3>1, GoodIfSame DEF FormFields
  <2>3. GoodForm([e EXCEPT !.formSubmitted = FALSE])
    BY <2>2 DEF GoodForm, FormFields, Counts, Marks
  <2>4. StopRequest(s, f, valid) = [e EXCEPT !.formSubmitted = FALSE]
    BY <1>1, <1>8, <2>1 DEF StopRequest
  <2> QED
    BY <2>3, <2>4
<1>9. CASE ~last
  <2>1. StopRequest(s, f, valid) = c
    BY <1>1, <1>9 DEF StopRequest
  <2> QED
    BY <1>6, <2>1
<1> QED
  BY <1>7, <1>8, <1>9

\* What an answer leaves before a submission that waits for it goes on.
Noted(s, f, valid) ==
  LET noted == [s EXCEPT !.judged = @ \cup {f},
                         !.invalid = IF valid THEN @ \ {f} ELSE @ \cup {f},
                         !.errors = IF valid THEN {} ELSE @ \cup {f},
                         !.successes = IF valid THEN {f} ELSE @ \ {f}]
  IN [ShowErrors(noted) EXCEPT
        !.previous[f].valid = IF s.request[f].kept THEN valid ELSE @,
        !.request[f] = None]

\* The answer to a request.
LEMMA GoodNoted ==
  ASSUME RulesHaveDummy, HiddenCan, settings # None, present \subseteq Field,
         NEW s, GoodForm(s), NEW f \in Field, s.request[f] # None, NEW valid \in BOOLEAN
  PROVE  LET k == Noted(s, f, valid) IN
         /\ DOMAIN k = FormFields /\ Counts(k) /\ f \in k.pending
         /\ k.request[f] = None /\ Marks(k, k.pending \ {f})
<1>1. PICK noted : noted =
        [s EXCEPT !.judged = @ \cup {f},
                  !.invalid = IF valid THEN @ \ {f} ELSE @ \cup {f},
                  !.errors = IF valid THEN {} ELSE @ \cup {f},
                  !.successes = IF valid THEN {f} ELSE @ \ {f}]
  OBVIOUS
<1>2. /\ DOMAIN noted = FormFields
      /\ noted.invalid = IF valid THEN s.invalid \ {f} ELSE s.invalid \cup {f}
      /\ noted.errors = IF valid THEN {} ELSE s.errors \cup {f}
      /\ noted.successes = IF valid THEN {f} ELSE s.successes \ {f}
      /\ noted.pending = s.pending /\ noted.pendingRequest = s.pendingRequest
      /\ noted.request = s.request /\ noted.error = s.error /\ noted.says = s.says
  BY <1>1 DEF GoodForm, FormFields
<1>3. PICK shown : shown = ShowErrors(noted)
  OBVIOUS
<1>4. /\ DOMAIN shown = FormFields
      /\ shown.error = (noted.error \cup noted.errors \cup noted.successes) \ noted.successes
      /\ shown.says =
           (noted.says \cup {g \in noted.errors \cup noted.successes : page[g].replace})
             \ {g \in noted.successes : page[g].replace}
      /\ \A x \in FormFields \ {"error", "says"} : shown[x] = noted[x]
  BY <1>2, <1>3, ShowErrorsFields
<1>5. PICK kept : kept =
        [shown EXCEPT !.previous[f].valid = IF s.request[f].kept THEN valid ELSE @,
                      !.request[f] = None]
  OBVIOUS
<1>6. /\ DOMAIN kept = FormFields
      /\ kept.request = [shown.request EXCEPT ![f] = None]
      /\ \A x \in {"errors", "successes", "invalid", "pending", "pendingRequest",
                   "error", "says"} : kept[x] = shown[x]
  BY <1>4, <1>5 DEF FormFields
<1>7. /\ kept.invalid = noted.invalid /\ kept.errors = noted.errors
      /\ kept.successes = noted.successes /\ kept.pending = s.pending
      /\ kept.pendingRequest = s.pendingRequest
      /\ kept.request = [s.request EXCEPT ![f] = None]
  BY <1>2, <1>4, <1>6 DEF FormFields
<1>8. f \in s.pending
  BY DEF GoodForm, Counts
<1>9. Counts(kept)
  BY <1>7, <1>8 DEF GoodForm, Counts
<1>10. kept.request[f] = None
  BY <1>7 DEF GoodForm, Counts
<1>11. Marks(kept, kept.pending \ {f})
  <2>1. kept.error \cup kept.errors \cup kept.successes \cup kept.invalid \cup kept.pending
          \subseteq Ruled
    BY <1>2, <1>4, <1>6, <1>7, <1>8 DEF GoodForm, Marks
  <2>2. ASSUME NEW g \in Field \ (kept.pending \ {f})
        PROVE  ~page[g].hides =>
               /\ g \in kept.error <=> g \in kept.invalid
               /\ g \in kept.errors => g \in kept.invalid
               /\ g \in kept.successes => g \notin kept.invalid
    <3>1. CASE g = f
      BY <1>2, <1>4, <1>6, <1>7, <3>1
    <3>2. CASE g # f
      <4>1. ~page[g].hides =>
            /\ g \in s.error <=> g \in s.invalid
            /\ g \in s.errors => g \in s.invalid
            /\ g \in s.successes => g \notin s.invalid
        BY <1>7, <3>2 DEF GoodForm, Marks
      <4> QED
        BY <1>2, <1>4, <1>6, <1>7, <3>2, <4>1
    <3> QED
      BY <3>1, <3>2
  <2>3. \A g \in kept.error : page[g].replace => g \in kept.says
    BY <1>2, <1>4, <1>6 DEF GoodForm, Marks
  <2> QED
    BY <2>1, <2>2, <2>3 DEF Marks
<1>12. kept = Noted(s, f, valid)
  BY <1>1, <1>3, <1>5 DEF Noted
<1> QED
  BY <1>6, <1>7, <1>8, <1>9, <1>10, <1>11, <1>12

LEMMA GoodAnswer ==
  ASSUME RulesHaveDummy, HiddenCan, settings # None, present \subseteq Field,
         NEW s, GoodForm(s), NEW f \in Field, s.request[f] # None, NEW valid \in BOOLEAN
  PROVE  GoodForm(Answered(s, f, valid))
<1>1. PICK k : k = Noted(s, f, valid)
  OBVIOUS
<1>2. /\ DOMAIN k = FormFields /\ Counts(k) /\ f \in k.pending
      /\ k.request[f] = None /\ Marks(k, k.pending \ {f})
  BY <1>1, GoodNoted
<1>3. GoodForm(StopRequest(k, f, valid))
  BY <1>2, GoodStop
<1> QED
  BY <1>1, <1>3 DEF Answered, Noted

\* The reset event.
LEMMA GoodReset ==
  ASSUME NEW s, GoodForm(s)
  PROVE  GoodForm(OnReset(s))
<1>1. PICK t : t = OnReset(s)
  OBVIOUS
<1>2. /\ DOMAIN t = FormFields
      /\ t.errors = {} /\ t.successes = {} /\ t.invalid = {} /\ t.error = {}
      /\ t.pending = s.pending /\ t.pendingRequest = s.pendingRequest
      /\ t.request = [f \in Field |-> IF f \in Elements /\ s.request[f] # None
                        THEN [s.request[f] EXCEPT !.kept = FALSE] ELSE s.request[f]]
  BY <1>1 DEF OnReset, GoodForm, FormFields
<1> QED
  BY <1>1, <1>2 DEF GoodForm, Counts, Marks

-----------------------------------------------------------------------------
(* Parsing keeps the rule that always passes, and the rules of a form.      *)

LEMMA ParsedRulesPass ==
  ASSUME NEW name, NEW el, NEW inputs
  PROVE  AlwaysPasses(ParsedRules(name, el, inputs))
BY DEF AlwaysPasses, ParsedRules

\* The copy of the rules leaves out what is undefined, which TRUE is not.
LEMMA CopyKeepsDummy ==
  ASSUME NEW rules, AlwaysPasses(rules)
  PROVE  Dummy \in DOMAIN Copy(rules)
BY UndefinedAssumption DEF AlwaysPasses, Copy

\* Inputs are parsed, and the form has the rules it had or takes those collected.
LEMMA ParsingKeepsRules ==
  ASSUME RulesHaveDummy, NEW fs, options' = ParsedElements(fs),
         UNCHANGED settings \/ AttachValidation(options')
  PROVE  RulesHaveDummy' /\ (settings = None \/ settings' = settings)
<1>1. \A f \in DOMAIN options' : AlwaysPasses(options'[f])
  BY ParsedRulesPass DEF RulesHaveDummy, ParsedElements
<1>2. settings = None \/ settings' = settings
  BY DEF AttachValidation
<1>3. CASE settings' = settings
  BY <1>1, <1>3 DEF RulesHaveDummy, RulesFor
<1>4. CASE settings' = [f \in DOMAIN options' |-> Copy(options'[f])]
  <2>1. \A f \in DOMAIN settings' : Dummy \in DOMAIN settings'[f]
    BY <1>1, <1>4, CopyKeepsDummy
  <2> QED
    BY <1>1, <1>2, <2>1 DEF RulesHaveDummy, RulesFor
<1> QED
  BY <1>2, <1>3, <1>4 DEF AttachValidation

\* A step that leaves the form alone and takes no rules from an input.
LEMMA RuledGrows ==
  ASSUME GoodForm(form), UNCHANGED <<page, form>>, present \subseteq present',
         settings = None \/ settings' = settings
  PROVE  GoodForm(form)'
<1>1. Ruled \subseteq Ruled'
  BY DEF Ruled, RulesFor
<1> QED
  BY <1>1 DEF GoodForm, Counts, Marks

\* A handler leaves a good form.
LEMMA Handled ==
  ASSUME UNCHANGED <<page, present, settings>>, NEW s, GoodForm(s), form' = s
  PROVE  GoodForm(form)'
BY DEF GoodForm, Counts, Marks, Ruled, RulesFor

LEMMA RulesStayParsed ==
  ASSUME RulesHaveDummy, UNCHANGED <<options, settings>>
  PROVE  RulesHaveDummy'
BY DEF RulesHaveDummy, RulesFor

-----------------------------------------------------------------------------
(* Every step keeps the invariant.                                          *)

LEMMA FormInit == Init => FormInv
<1> SUFFICES ASSUME Init PROVE FormInv
  OBVIOUS
<1>1. present \subseteq Field /\ HiddenCan /\ RulesHaveDummy
  BY DEF Init, HiddenCan, RulesHaveDummy
<1>2. DOMAIN form = FormFields
  BY DEF Init, NewForm, FormFields
<1>3. Counts(form) /\ Marks(form, form.pending)
  BY FS_EmptySet DEF Init, NewForm, Counts, Marks
<1> QED
  BY <1>1, <1>2, <1>3 DEF FormInv, GoodForm

LEMMA FormNext == FormInv /\ [Next]_vars => FormInv'
<1> SUFFICES ASSUME FormInv, [Next]_vars PROVE FormInv'
  OBVIOUS
<1>0. present \subseteq Field /\ HiddenCan /\ RulesHaveDummy /\ GoodForm(form)
  BY DEF FormInv
<1>a. ASSUME NEW s, Handles(s), GoodForm(s)
      PROVE  FormInv'
  <2>1. GoodForm(form)'
    BY <1>a, Handled DEF Handles
  <2>2. RulesHaveDummy'
    BY <1>0, <1>a, RulesStayParsed DEF Handles
  <2> QED
    BY <1>0, <1>a, <2>1, <2>2 DEF FormInv, HiddenCan, Handles
<1>b. ASSUME NEW fs, options' = ParsedElements(fs),
             UNCHANGED settings \/ AttachValidation(options'),
             UNCHANGED <<page, present, hidden, form>>
      PROVE  FormInv'
  <2>1. RulesHaveDummy' /\ (settings = None \/ settings' = settings)
    BY <1>0, <1>b, ParsingKeepsRules
  <2>2. GoodForm(form)'
    BY <1>0, <1>b, <2>1, RuledGrows
  <2> QED
    BY <1>0, <1>b, <2>1, <2>2 DEF FormInv, HiddenCan
<1>1. CASE Ready
  <2>1. PICK parsed : options' = ParsedElements(parsed)
    BY <1>1 DEF Ready, Parse
  <2> QED
    BY <1>1, <2>1, <1>b DEF Ready, Parse
<1>2. ASSUME NEW fs \in SUBSET Field, ParseAgain(fs) PROVE FormInv'
  <2>1. PICK parsed : options' = ParsedElements(parsed)
    BY <1>2 DEF ParseAgain, Parse
  <2> QED
    BY <1>2, <2>1, <1>b DEF ParseAgain, Parse
<1>3. ASSUME NEW f \in Field, NEW skipAttach \in BOOLEAN, ParseElement(f, skipAttach)
      PROVE  FormInv'
  BY <1>3, <1>b DEF ParseElement
<1>4. ASSUME NEW f \in Field, AddField(f) PROVE FormInv'
  <2>1. GoodForm(form)'
    BY <1>0, <1>4, RuledGrows DEF AddField
  <2>2. RulesHaveDummy'
    BY <1>0, <1>4, RulesStayParsed DEF AddField
  <2> QED
    BY <1>0, <1>4, <2>1, <2>2 DEF FormInv, HiddenCan, AddField
<1>14. ASSUME NEW f \in Field, Hide(f) \/ Show(f) PROVE FormInv'
  <2>1. GoodForm(form)'
    BY <1>0, <1>14, RuledGrows DEF Hide, Show
  <2>2. RulesHaveDummy'
    BY <1>0, <1>14, RulesStayParsed DEF Hide, Show
  <2>3. HiddenCan'
    BY <1>0, <1>14 DEF Hide, Show, HiddenCan
  <2> QED
    BY <1>0, <1>14, <2>1, <2>2, <2>3 DEF FormInv, Hide, Show
<1>5. ASSUME NEW f \in Field, KeyUp(f) PROVE FormInv'
  <2>1. GoodForm(OneElement(form, f))
    BY <1>0, <1>5, GoodElement DEF KeyUp, Validating
  <2> QED
    BY <1>5, <2>1, <1>a DEF KeyUp
<1>6. ASSUME NEW f \in Field, Blur(f) PROVE FormInv'
  <2>1. PICK s : s = IF Followers(f) = {} THEN form
                     ELSE OneElement(form, CHOOSE g \in Followers(f) : TRUE)
    OBVIOUS
  <2>2. settings # None /\ f \in present
    BY <1>6 DEF Blur, Validating
  <2>3. GoodForm(s)
    <3>1. CASE Followers(f) = {}
      BY <1>0, <2>1, <3>1
    <3>2. CASE Followers(f) # {}
      <4>1. PICK g : g = CHOOSE h \in Followers(f) : TRUE
        OBVIOUS
      <4>2. g \in present
        BY <3>2, <4>1 DEF Followers
      <4>3. GoodForm(OneElement(form, g))
        BY <1>0, <2>2, <4>2, GoodElement
      <4> QED
        BY <2>1, <3>2, <4>1, <4>3
    <3> QED
      BY <3>1, <3>2
  <2>4. GoodForm(OneElement(s, f))
    BY <1>0, <2>2, <2>3, GoodElement
  <2>5. Handles(s) \/ Handles(OneElement(s, f))
    BY <1>6, <2>1 DEF Blur
  <2> QED
    BY <2>3, <2>4, <2>5, <1>a
<1>7. ASSUME NEW f \in Field, Fail(f) PROVE FormInv'
  <2>1. GoodForm([form EXCEPT !.request[f] = None])
    BY <1>0 DEF GoodForm, FormFields, Counts, Marks
  <2> QED
    BY <1>7, <2>1, <1>a DEF Fail
<1>8. ASSUME NEW f \in Field, NEW text \in 0 .. page[f].longest, Type(f, text)
      PROVE  FormInv'
  <2>1. GoodForm(form)'
    BY <1>0, <1>8, RuledGrows DEF Type
  <2>2. RulesHaveDummy'
    BY <1>0, <1>8, RulesStayParsed DEF Type
  <2> QED
    BY <1>0, <1>8, <2>1, <2>2 DEF FormInv, HiddenCan, Type
<1>9. ASSUME NEW cancelSubmit \in BOOLEAN, Submit(cancelSubmit) PROVE FormInv'
  <2>1. CASE settings = None
    <3>1. GoodForm(Sent(form, FALSE))
      BY ONLY <1>0, GoodSent
    <3> QED
      BY <1>9, <2>1, <3>1, <1>a DEF Submit
  <2>2. CASE settings # None
    <3>1. GoodForm(HandleSubmit(form, cancelSubmit))
      BY <1>0, <2>2, GoodSubmit
    <3> QED
      BY <1>9, <2>2, <3>1, <1>a DEF Submit
  <2> QED
    BY <2>1, <2>2
<1>10. CASE Validate
  <2>1. CASE settings = None
    <3>1. GoodForm(form)'
      BY <1>0, <1>10, <2>1, RuledGrows DEF Validate
    <3>2. RulesHaveDummy'
      BY <1>0, <1>10, <2>1 DEF Validate, RulesHaveDummy, RulesFor
    <3> QED
      BY <1>0, <1>10, <3>1, <3>2 DEF FormInv, HiddenCan, Validate
  <2>2. CASE settings # None
    <3>1. GoodForm(WholeForm(form))
      BY <1>0, <2>2, GoodWhole
    <3>2. Handles(WholeForm(form))
      BY <1>10, <2>2 DEF Validate, Handles
    <3> QED
      BY <3>1, <3>2, <1>a
  <2> QED
    BY <2>1, <2>2
<1>11. CASE Reset
  <2>1. PICK s : s = IF attached THEN OnReset(form) ELSE form
    OBVIOUS
  <2>2. GoodForm(s)
    BY <1>0, <2>1, GoodReset
  <2>3. GoodForm(form)'
    BY <1>11, <2>1, <2>2, Handled DEF Reset
  <2>4. RulesHaveDummy'
    BY <1>0, <1>11, RulesStayParsed DEF Reset
  <2> QED
    BY <1>0, <1>11, <2>3, <2>4 DEF FormInv, HiddenCan, Reset
<1>12. ASSUME NEW f \in Field, NEW valid \in BOOLEAN, Answer(f, valid) PROVE FormInv'
  <2>1. GoodForm(Answered(form, f, valid))
    BY <1>0, <1>12, GoodAnswer DEF Answer, Validating
  <2> QED
    BY <1>12, <2>1, <1>a DEF Answer
<1>13. CASE UNCHANGED vars
  <2>1. GoodForm(form)'
    BY <1>0, <1>13, RuledGrows DEF vars
  <2>2. RulesHaveDummy'
    BY <1>0, <1>13, RulesStayParsed DEF vars
  <2> QED
    BY <1>0, <1>13, <2>1, <2>2 DEF FormInv, HiddenCan, vars
<1> QED
  BY <1>1, <1>2, <1>3, <1>4, <1>5, <1>6, <1>7, <1>8, <1>9, <1>10, <1>11, <1>12, <1>13,
     <1>14 DEF Next

-----------------------------------------------------------------------------
(* The page: the rules of an input are those of its attributes, parsed while *)
(* the inputs that the browser loaded were there.                            *)

ParsedFor(f, rules) ==
  \E inputs \in SUBSET present :
    loaded \subseteq inputs /\ rules = ParsedRules(f, page[f], inputs)

PageInv ==
  /\ page \in Pages /\ loaded \subseteq present /\ present \subseteq Field
  /\ value \in [Field -> Nat] /\ \A f \in Field : value[f] \in 0 .. page[f].longest
  /\ DOMAIN options \subseteq present
  /\ \A f \in DOMAIN options : ParsedFor(f, options[f])
  /\ settings # None =>
       /\ DOMAIN settings \subseteq DOMAIN options
       /\ \A f \in DOMAIN settings :
            \E rules : ParsedFor(f, rules) /\ settings[f] = Copy(rules)
  /\ attached => settings # None
  /\ settings # None \/ form.sent => ready
  /\ DOMAIN accepted = Field

\* What every input of the validator that is shown has when the form is sent.
Fulfilled(acc) ==
  settings # None =>
    \A f \in DOMAIN settings \ hidden :
      /\ Failing(f) = {}
      /\ "remote" \in DOMAIN RulesFor(f) /\ value[f] # Blank => acc[f] = Carried(f)

\* The lists.
Listed(s) ==
  /\ s.errors \subseteq present /\ s.successes \subseteq present
  /\ s.submitted \subseteq present /\ s.judged \subseteq present
  /\ s.pending \subseteq present /\ s.error \subseteq present /\ s.summary \subseteq present
  /\ s.invalid \subseteq s.judged
  /\ s.errors \cap s.successes = {}

\* The value that the last answer was kept for is what the server accepted, and an
\* answer that will be kept is to the value that is remembered.
Tracks(s, acc, f) ==
  /\ DOMAIN s.previous[f] = {"old", "valid"}
  /\ s.request[f] # None =>
       /\ DOMAIN s.request[f] = {"value", "kept"} /\ s.request[f].kept \in BOOLEAN
       /\ IF s.request[f].kept THEN s.request[f].value = s.previous[f].old
          ELSE s.previous[f].old = None
  /\ f \notin s.pending /\ s.previous[f].valid /\ s.previous[f].old # None =>
       acc[f] = s.previous[f].old

Tracked(s, acc) ==
  /\ DOMAIN s.previous = Field /\ DOMAIN s.request = Field
  /\ \A f \in Field : Tracks(s, acc, f)

Kept(s, acc) ==
  /\ DOMAIN s = FormFields /\ Listed(s) /\ Tracked(s, acc)
  /\ s.sent /\ ~s.cancelled => Fulfilled(acc)

-----------------------------------------------------------------------------
(* The rules of an input of the validator.                                   *)

LEMMA FieldsAreNames ==
  /\ \A f \in Field : IsName(f)
  /\ Undefined \notin Field
BY FieldAssumption DEF IsName

LEMMA PageIsMarked ==
  ASSUME PageInv, NEW f \in Field
  PROVE  /\ WellMarked(f, page[f], Field)
         /\ DOMAIN ParsedRules(f, page[f], Field) \subseteq Method
         /\ page[f].longest \in Nat
BY PagesAssumption DEF PageInv

LEMMA RulesAreNotNone ==
  ASSUME RulesHaveDummy, PageInv, settings # None, NEW f \in DOMAIN settings
  PROVE  RulesFor(f) # NoRules
<1>1. PICK rules : ParsedFor(f, rules) /\ settings[f] = Copy(rules)
  BY DEF PageInv
<1>2. AlwaysPasses(rules)
  BY <1>1, ParsedRulesPass DEF ParsedFor
<1>3. Dummy \in DOMAIN RulesFor(f)
  BY <1>1, <1>2, CopyKeepsDummy DEF RulesFor
<1> QED
  BY <1>3 DEF NoRules

\* What is checked is what the attributes say.
LEMMA FailingSaysMarkup ==
  ASSUME PageInv, settings # None, NEW f \in DOMAIN settings, ComparesWithLoaded(f),
         RangeHasBothEnds(page[f])
  PROVE  Failing(f) = {} <=> Meets(f, page[f], value[f], value)
<1>1. PICK rules : ParsedFor(f, rules) /\ settings[f] = Copy(rules)
  BY DEF PageInv
<1>2. PICK inputs \in SUBSET present :
        loaded \subseteq inputs /\ rules = ParsedRules(f, page[f], inputs)
  BY <1>1 DEF ParsedFor
<1>3. f \in Field /\ inputs \subseteq Field /\ DOMAIN value = Field
  BY <1>2 DEF PageInv
<1>4. PICK el : el = page[f]
  OBVIOUS
<1>5. WellMarked(f, el, Field) /\ DOMAIN ParsedRules(f, el, Field) \subseteq Method
  BY <1>3, <1>4, PageIsMarked
<1>6. <<"equalto">> \in DOMAIN el.attrs =>
        AppendModelPrefix(el.attrs[<<"equalto", "other">>], GetModelPrefix(f)) \in inputs
  BY <1>2, <1>4 DEF ComparesWithLoaded
<1>7. PICK text : text = value[f]
  OBVIOUS
<1>8. Satisfied(rules, text, value) <=> Meets(f, el, text, value)
  BY <1>2, <1>3, <1>4, <1>5, <1>6, FieldsAreNames, RulesSayMarkup
<1>9. Failing(f) = {} <=> Satisfied(rules, text, value)
  <2>1. RulesFor(f) = Copy(rules)
    BY <1>1 DEF RulesFor
  <2> QED
    BY <1>7, <2>1 DEF Failing, Satisfied, Copy
<1> QED
  BY <1>4, <1>7, <1>8, <1>9

\* What a request carries.
LEMMA RemoteRule ==
  ASSUME PageInv, settings # None, NEW f \in DOMAIN settings
  PROVE  /\ "remote" \in DOMAIN RulesFor(f) <=> <<"remote">> \in DOMAIN page[f].attrs
         /\ "remote" \in DOMAIN RulesFor(f) =>
              /\ RulesFor(f)["remote"] = AskedBy(f, page[f])
              /\ AskedBy(f, page[f]) \subseteq Field
<1>1. PICK rules : ParsedFor(f, rules) /\ settings[f] = Copy(rules)
  BY DEF PageInv
<1>2. PICK inputs \in SUBSET present :
        loaded \subseteq inputs /\ rules = ParsedRules(f, page[f], inputs)
  BY <1>1 DEF ParsedFor
<1>3. f \in Field
  BY DEF PageInv
<1>4. PICK el : el = page[f]
  OBVIOUS
<1>5. WellMarked(f, el, Field) /\ DOMAIN ParsedRules(f, el, Field) \subseteq Method
  BY <1>3, <1>4, PageIsMarked
<1>6. /\ "remote" \in DOMAIN rules <=> <<"remote">> \in DOMAIN el.attrs
      /\ <<"remote">> \in DOMAIN el.attrs => rules["remote"] = AskedBy(f, el)
  BY <1>2, <1>3, <1>4, <1>5, RemoteIsAsked
<1>7. AskedBy(f, el) \subseteq Field
  BY <1>3, <1>5, AskedIsKnown
<1>8. AskedBy(f, el) # Undefined
  BY <1>7, FieldAssumption
<1>9. RulesFor(f) = Copy(rules)
  BY <1>1 DEF RulesFor
<1> QED
  BY <1>4, <1>6, <1>7, <1>8, <1>9 DEF Copy

LEMMA CarriedIsText ==
  ASSUME PageInv, settings # None, NEW f \in DOMAIN settings,
         "remote" \in DOMAIN RulesFor(f)
  PROVE  Carried(f) # None
<1>1. PICK fs \in SUBSET Field : fs = RulesFor(f)["remote"] \cup {f}
  BY RemoteRule DEF PageInv
<1>2. Carried(f) = [g \in fs |-> value[g]]
  BY <1>1 DEF Carried
<1>3. [g \in fs |-> value[g]] \in [fs -> Nat]
  BY <1>1 DEF PageInv
<1> QED
  BY <1>2, <1>3, NoneAssumption

\* The rule that always passes is never alone with an abstention.
LEMMA RulesHaveMore ==
  ASSUME RulesHaveDummy, NEW f \in Field, settings # None, RulesFor(f) # NoRules
  PROVE  ~\E r \in DOMAIN RulesFor(f) :
            DOMAIN RulesFor(f) = {r} /\ Abstains(r, value[f])
BY DEF RulesHaveDummy, Abstains

-----------------------------------------------------------------------------
(* Every operator on a form keeps it.                                        *)

LEMMA TrackedIfSame ==
  ASSUME NEW s, NEW acc, Tracked(s, acc), NEW t, t.previous = s.previous,
         t.request = s.request, s.pending \subseteq t.pending
  PROVE  Tracked(t, acc)
BY DEF Tracked, Tracks

\* A form is sent or not, and checked before, as another is.
SameFate(t, s) == t.sent = s.sent /\ t.cancelled = s.cancelled
USE DEF SameFate

LEMMA StartRequestsRest ==
  ASSUME NEW s, DOMAIN s = FormFields, NEW fs
  PROVE  LET t == StartRequests(s, fs) IN
         /\ t.previous = [f \in Field |->
              IF f \in fs THEN [s.previous[f] EXCEPT !.old = Carried(f)] ELSE s.previous[f]]
         /\ \A x \in FormFields \ {"pendingRequest", "pending", "previous", "request"} :
              t[x] = s[x]
BY DEF StartRequests, FormFields

LEMMA KeptStart ==
  ASSUME NEW s, NEW acc, Kept(s, acc), NEW fs, fs \subseteq present, present \subseteq Field
  PROVE  /\ Kept(StartRequests(s, fs), acc)
         /\ SameFate(StartRequests(s, fs), s)
<1>1. PICK t : t = StartRequests(s, fs)
  OBVIOUS
<1>2. DOMAIN s = FormFields
  BY DEF Kept
<1>3. /\ DOMAIN t = FormFields /\ t.pending = s.pending \cup fs
      /\ t.request = [f \in Field |->
           IF f \in fs THEN [value |-> Carried(f), kept |-> TRUE] ELSE s.request[f]]
  <2>1. /\ DOMAIN StartRequests(s, fs) = FormFields
        /\ StartRequests(s, fs).pending = s.pending \cup fs
        /\ StartRequests(s, fs).request = [f \in Field |->
             IF f \in fs THEN [value |-> Carried(f), kept |-> TRUE] ELSE s.request[f]]
    BY <1>2 DEF StartRequests, FormFields
  <2> QED
    BY <1>1, <2>1
<1>4. /\ t.previous = [f \in Field |->
           IF f \in fs THEN [s.previous[f] EXCEPT !.old = Carried(f)] ELSE s.previous[f]]
      /\ \A x \in FormFields \ {"pendingRequest", "pending", "previous", "request"} :
           t[x] = s[x]
  BY ONLY <1>1, <1>2, StartRequestsRest
<1>5. /\ t.errors = s.errors /\ t.successes = s.successes /\ t.submitted = s.submitted
      /\ t.judged = s.judged /\ t.error = s.error /\ t.summary = s.summary
      /\ t.invalid = s.invalid /\ SameFate(t, s)
  BY <1>4 DEF FormFields
<1>6. Listed(t)
  BY <1>3, <1>5 DEF Kept, Listed
<1>7. ASSUME NEW f \in Field
      PROVE  Tracks(t, acc, f)
  <2>1. Tracks(s, acc, f)
    BY DEF Kept, Tracked
  <2>2. CASE f \in fs
    <3>1. /\ t.previous[f] = [s.previous[f] EXCEPT !.old = Carried(f)]
          /\ t.request[f] = [value |-> Carried(f), kept |-> TRUE]
          /\ f \in t.pending
      BY <1>3, <1>4, <2>2
    <3> QED
      BY <2>1, <3>1 DEF Tracks
  <2>3. CASE f \notin fs
    <3>1. /\ t.previous[f] = s.previous[f] /\ t.request[f] = s.request[f]
          /\ f \in t.pending <=> f \in s.pending
      BY <1>3, <1>4, <2>3
    <3> QED
      BY <2>1, <3>1 DEF Tracks
  <2> QED
    BY <2>2, <2>3
<1>8. Tracked(t, acc)
  BY <1>3, <1>4, <1>7 DEF Tracked
<1> QED
  BY <1>1, <1>3, <1>5, <1>6, <1>8 DEF Kept

LEMMA KeptChecked ==
  ASSUME NEW s, NEW acc, Kept(s, acc), NEW fs, fs \subseteq present, present \subseteq Field
  PROVE  /\ Kept(Checked(s, fs), acc)
         /\ SameFate(Checked(s, fs), s)
<1> DEFINE saying(v) == {f \in fs : Verdict(s, f) = v}
<1>1. PICK t : t = StartRequests(s, saying("pending"))
  OBVIOUS
<1>2. Kept(t, acc) /\ SameFate(t, s)
  BY <1>1, KeptStart
<1>3. PICK c : c = [t EXCEPT !.errors = saying("invalid"),
                             !.successes = saying("valid"),
                             !.submitted = @ \cup saying("invalid"),
                             !.compared = @ \cup Compared(fs)]
  OBVIOUS
<1>4. saying("invalid") \subseteq present /\ saying("valid") \subseteq present
      /\ saying("invalid") \cap saying("valid") = {}
  OBVIOUS
<1> HIDE DEF saying
<1>5. /\ DOMAIN c = FormFields /\ c.errors = saying("invalid")
      /\ c.successes = saying("valid") /\ c.submitted = t.submitted \cup saying("invalid")
      /\ c.judged = t.judged /\ c.pending = t.pending /\ c.error = t.error
      /\ c.summary = t.summary /\ c.invalid = t.invalid /\ SameFate(c, t)
      /\ c.previous = t.previous /\ c.request = t.request
  BY <1>2, <1>3 DEF FormFields, Kept
<1>6. Listed(c)
  BY <1>2, <1>4, <1>5 DEF Kept, Listed
<1>7. Tracked(c, acc)
  BY <1>2, <1>5, TrackedIfSame DEF Kept
<1>8. c = Checked(s, fs)
  BY <1>1, <1>3 DEF Checked, saying
<1> QED
  BY <1>2, <1>5, <1>6, <1>7, <1>8 DEF Kept

LEMMA KeptShown ==
  ASSUME NEW s, NEW acc, Kept(s, acc)
  PROVE  /\ Kept(ShowErrors(s), acc) /\ Kept(OnErrors(s), acc)
         /\ SameFate(ShowErrors(s), s) /\ SameFate(OnErrors(s), s)
         /\ OnErrors(s).errors = s.errors /\ OnErrors(s).pending = s.pending
         /\ ShowErrors(s).errors = s.errors
<1>0. DOMAIN s = FormFields
  BY DEF Kept
<1>1. PICK t : t = ShowErrors(s)
  OBVIOUS
<1>2. /\ DOMAIN t = FormFields
      /\ t.error = (s.error \cup s.errors \cup s.successes) \ s.successes
      /\ \A x \in FormFields \ {"error", "says"} : t[x] = s[x]
  BY ONLY <1>0, <1>1, ShowErrorsFields
<1>3. /\ t.errors = s.errors /\ t.successes = s.successes /\ t.submitted = s.submitted
      /\ t.judged = s.judged /\ t.pending = s.pending /\ t.summary = s.summary
      /\ t.invalid = s.invalid /\ SameFate(t, s) /\ t.previous = s.previous
      /\ t.request = s.request
  BY <1>2 DEF FormFields
<1>4. Kept(t, acc)
  BY <1>2, <1>3, TrackedIfSame DEF Kept, Listed
<1>5. PICK u : u = OnErrors(s)
  OBVIOUS
<1>6. /\ DOMAIN u = FormFields
      /\ u.summary = IF s.errors = {} THEN s.summary ELSE s.errors
      /\ \A x \in FormFields \ {"summary"} : u[x] = s[x]
  BY <1>0, <1>5 DEF OnErrors, FormFields
<1>7. /\ u.errors = s.errors /\ u.successes = s.successes /\ u.submitted = s.submitted
      /\ u.judged = s.judged /\ u.pending = s.pending /\ u.error = s.error
      /\ u.invalid = s.invalid /\ SameFate(u, s) /\ u.previous = s.previous
      /\ u.request = s.request
  BY <1>6 DEF FormFields
<1>8. Kept(u, acc)
  BY <1>6, <1>7, TrackedIfSame DEF Kept, Listed
<1> QED
  BY <1>1, <1>3, <1>4, <1>5, <1>7, <1>8

LEMMA KeptWhole ==
  ASSUME NEW s, NEW acc, Kept(s, acc), present \subseteq Field
  PROVE  Kept(WholeForm(s), acc) /\ SameFate(WholeForm(s), s)
<1>1. PICK c : c = Checked(s, Elements)
  OBVIOUS
<1>2. Kept(c, acc) /\ SameFate(c, s)
  BY <1>1, KeptChecked DEF Elements
<1>3. PICK e : e = [c EXCEPT !.judged = c.errors, !.invalid = c.errors]
  OBVIOUS
<1>4. /\ DOMAIN e = FormFields /\ e.judged = c.errors /\ e.invalid = c.errors
      /\ e.errors = c.errors /\ e.successes = c.successes /\ e.submitted = c.submitted
      /\ e.pending = c.pending /\ e.error = c.error /\ e.summary = c.summary
      /\ SameFate(e, c) /\ e.previous = c.previous /\ e.request = c.request
  BY <1>2, <1>3 DEF Kept, FormFields
<1>5. Kept(e, acc)
  BY <1>2, <1>4, TrackedIfSame DEF Kept, Listed
<1>6. PICK u : u = OnErrors(e)
  OBVIOUS
<1>7. Kept(u, acc) /\ SameFate(u, e)
  BY <1>5, <1>6, KeptShown
<1>8. Kept(ShowErrors(u), acc) /\ SameFate(ShowErrors(u), u)
  BY <1>7, KeptShown
<1>9. WholeForm(s) = ShowErrors(u)
  BY <1>1, <1>3, <1>6 DEF WholeForm
<1> QED
  BY <1>2, <1>4, <1>7, <1>8, <1>9

LEMMA KeptElement ==
  ASSUME NEW s, NEW acc, Kept(s, acc), present \subseteq Field, NEW f \in present
  PROVE  Kept(OneElement(s, f), acc) /\ SameFate(OneElement(s, f), s)
<1>1. PICK c : c = Checked(s, {f})
  OBVIOUS
<1>2. Kept(c, acc) /\ SameFate(c, s)
  BY <1>1, KeptChecked
<1>3. PICK e : e = [c EXCEPT
                      !.judged = @ \cup {f},
                      !.invalid = IF f \in c.errors THEN @ \cup {f} ELSE @ \ {f}]
  OBVIOUS
<1>4. /\ DOMAIN e = FormFields /\ e.judged = c.judged \cup {f}
      /\ e.invalid = IF f \in c.errors THEN c.invalid \cup {f} ELSE c.invalid \ {f}
      /\ e.errors = c.errors /\ e.successes = c.successes /\ e.submitted = c.submitted
      /\ e.pending = c.pending /\ e.error = c.error /\ e.summary = c.summary
      /\ SameFate(e, c) /\ e.previous = c.previous /\ e.request = c.request
  BY <1>2, <1>3 DEF Kept, FormFields
<1>5. Kept(e, acc)
  BY <1>2, <1>4, TrackedIfSame DEF Kept, Listed
<1>6. Kept(ShowErrors(e), acc) /\ SameFate(ShowErrors(e), e)
  BY <1>5, KeptShown
<1>7. CASE f \notin hidden
  <2>1. OneElement(s, f) = ShowErrors(e)
    BY <1>1, <1>3, <1>7 DEF OneElement
  <2> QED
    BY <1>2, <1>4, <1>6, <2>1
<1>8. CASE f \in hidden
  <2>1. PICK d : d = [s EXCEPT !.judged = @ \ {f}, !.invalid = @ \ {f}]
    OBVIOUS
  <2>2. /\ DOMAIN d = FormFields /\ d.judged = s.judged \ {f}
        /\ d.invalid = s.invalid \ {f} /\ d.errors = s.errors
        /\ d.successes = s.successes /\ d.submitted = s.submitted
        /\ d.pending = s.pending /\ d.error = s.error /\ d.summary = s.summary
        /\ SameFate(d, s) /\ d.previous = s.previous /\ d.request = s.request
    BY <2>1 DEF Kept, FormFields
  <2>3. Kept(d, acc)
    BY <2>2, TrackedIfSame DEF Kept, Listed
  <2>4. OneElement(s, f) = d
    BY <1>8, <2>1 DEF OneElement
  <2> QED
    BY <2>2, <2>3, <2>4
<1> QED
  BY <1>7, <1>8

LEMMA KeptUnsubmitted ==
  ASSUME NEW s, NEW acc, Kept(s, acc)
  PROVE  Kept([s EXCEPT !.formSubmitted = FALSE], acc)
<1>1. PICK d : d = [s EXCEPT !.formSubmitted = FALSE]
  OBVIOUS
<1>2. /\ DOMAIN d = FormFields
      /\ d.judged = s.judged /\ d.invalid = s.invalid /\ d.errors = s.errors
      /\ d.successes = s.successes /\ d.submitted = s.submitted
      /\ d.pending = s.pending /\ d.error = s.error /\ d.summary = s.summary
      /\ SameFate(d, s) /\ d.previous = s.previous /\ d.request = s.request
  BY <1>1 DEF Kept, FormFields
<1> QED
  BY <1>1, <1>2, TrackedIfSame DEF Kept, Listed

\* A form is sent, without a check or because it is fulfilled.
LEMMA KeptSent ==
  ASSUME NEW s, NEW acc, Kept(s, acc), NEW cancelSubmit \in BOOLEAN,
         cancelSubmit \/ Fulfilled(acc)
  PROVE  Kept(Sent(s, cancelSubmit), acc)
<1>1. PICK d : d = Sent(s, cancelSubmit)
  OBVIOUS
<1>2. /\ DOMAIN d = FormFields
      /\ d.judged = s.judged /\ d.invalid = s.invalid /\ d.errors = s.errors
      /\ d.successes = s.successes /\ d.submitted = s.submitted
      /\ d.pending = s.pending /\ d.error = s.error /\ d.summary = s.summary
      /\ d.previous = s.previous /\ d.request = s.request
      /\ d.cancelled = cancelSubmit
  BY <1>1 DEF Sent, Kept, FormFields
<1>3. Listed(d) /\ Tracked(d, acc)
  BY <1>2, TrackedIfSame DEF Kept, Listed
<1> QED
  BY <1>1, <1>2, <1>3 DEF Kept

\* A form that is sent after a check is fulfilled: no input failed, none waits, and
\* the answer that is remembered for what a request would carry is the last one.
LEMMA KeptSubmit ==
  ASSUME RulesHaveDummy, HiddenCan, PageInv, settings # None, NEW s, NEW acc,
         Kept(s, acc), GoodForm(s), NEW cancelSubmit \in BOOLEAN
  PROVE  Kept(HandleSubmit(s, cancelSubmit), acc)
<1>1. PICK c : c = WholeForm(s)
  OBVIOUS
<1>2. present \subseteq Field
  BY DEF PageInv
<1>3. Kept(c, acc) /\ SameFate(c, s)
  BY <1>1, <1>2, KeptWhole
<1>4. GoodForm(c)
  BY <1>1, <1>2, GoodWhole
<1>5. CASE ~cancelSubmit /\ c.errors # {}
  BY <1>1, <1>3, <1>5 DEF HandleSubmit
<1>6. CASE ~cancelSubmit /\ c.errors = {} /\ c.pendingRequest > 0
  <2>1. PICK d : d = [c EXCEPT !.formSubmitted = TRUE]
    OBVIOUS
  <2>2. /\ DOMAIN d = FormFields
        /\ d.judged = c.judged /\ d.invalid = c.invalid /\ d.errors = c.errors
        /\ d.successes = c.successes /\ d.submitted = c.submitted
        /\ d.pending = c.pending /\ d.error = c.error /\ d.summary = c.summary
        /\ SameFate(d, c) /\ d.previous = c.previous /\ d.request = c.request
    BY <1>3, <2>1 DEF Kept, FormFields
  <2>3. Kept(d, acc)
    BY <1>3, <2>2, TrackedIfSame DEF Kept, Listed
  <2> QED
    BY <1>1, <1>6, <2>1, <2>3 DEF HandleSubmit
<1>7. CASE ~cancelSubmit /\ c.errors = {} /\ ~(c.pendingRequest > 0)
  <2>1. c.pending = {}
    <3>1. IsFiniteSet(c.pending) /\ Cardinality(c.pending) \in Nat
          /\ Cardinality(c.pending) = c.pendingRequest
      BY <1>4, FieldsAreFinite DEF GoodForm, Counts
    <3> QED
      BY <1>7, <3>1, FS_EmptySet
  <2>2. PICK k : k = Checked(s, Elements)
    OBVIOUS
  <2>3. c.errors = k.errors /\ c.pending = k.pending
    <3>1. PICK e : e = [k EXCEPT !.judged = k.errors, !.invalid = k.errors]
      OBVIOUS
    <3>2. DOMAIN k = FormFields
      BY <1>2, <2>2, KeptChecked DEF Kept, Elements
    <3>3. DOMAIN e = FormFields /\ e.errors = k.errors /\ e.pending = k.pending
      BY <3>1, <3>2 DEF FormFields
    <3>4. PICK u : u = OnErrors(e)
      OBVIOUS
    <3>5. DOMAIN u = FormFields /\ \A x \in FormFields \ {"summary"} : u[x] = e[x]
      BY <3>3, <3>4, OnErrorsFields
    <3>6. PICK t : t = ShowErrors(u)
      OBVIOUS
    <3>7. \A x \in FormFields \ {"error", "says"} : t[x] = u[x]
      BY ONLY <3>5, <3>6, ShowErrorsFields
    <3>8. c = t
      BY <1>1, <2>2, <3>1, <3>4, <3>6 DEF WholeForm
    <3> QED
      BY <3>3, <3>5, <3>7, <3>8 DEF FormFields
  <2>4. /\ \A f : f \in k.errors <=> f \in Elements /\ Verdict(s, f) = "invalid"
        /\ s.pending \cup {f \in Elements : Verdict(s, f) = "pending"} \subseteq k.pending
    <3>0. DOMAIN s = FormFields
      BY DEF Kept
    <3>1. /\ \A f : f \in k.errors <=> f \in Elements /\ Verdict(s, f) = "invalid"
          /\ k.pending =
               StartRequests(s, {f \in Elements : Verdict(s, f) = "pending"}).pending
      BY ONLY <2>2, <3>0, CheckedFields
    <3>2. \A w : StartRequests(s, w).pending = s.pending \cup w
      BY ONLY <3>0, StartRequestsFields
    <3> QED
      BY <3>1, <3>2
  <2>5. ASSUME NEW f \in DOMAIN settings \ hidden
        PROVE  /\ Failing(f) = {}
               /\ "remote" \in DOMAIN RulesFor(f) /\ value[f] # Blank => acc[f] = Carried(f)
    <3>1. f \in present /\ f \in Field
      BY DEF PageInv
    <3>2. RulesFor(f) # NoRules
      BY <3>1, RulesAreNotNone
    <3>3. f \in Elements
      BY <3>1, <3>2 DEF Elements
    <3>4. Verdict(s, f) = "valid"
      BY <1>7, <2>1, <2>3, <2>4, <3>1, <3>2, <3>3, VerdictCases
    <3>5. Failing(f) = {}
      BY <3>2, <3>4 DEF Verdict
    <3>6. ASSUME "remote" \in DOMAIN RulesFor(f), value[f] # Blank
          PROVE  acc[f] = Carried(f)
      <4>1. s.previous[f].old = Carried(f) /\ s.previous[f].valid
        BY <3>2, <3>4, <3>5, <3>6, RulesHaveMore DEF Verdict
      <4>2. Carried(f) # None
        BY <3>6, CarriedIsText
      <4>3. f \notin s.pending
        BY <2>1, <2>3, <2>4
      <4> QED
        BY <3>1, <4>1, <4>2, <4>3 DEF Kept, Tracked, Tracks
    <3> QED
      BY <3>5, <3>6
  <2>6. Fulfilled(acc)
    BY <2>5 DEF Fulfilled
  <2>7. Kept(Sent(c, FALSE), acc)
    BY <1>3, <2>6, KeptSent
  <2> QED
    BY <1>1, <1>7, <2>7 DEF HandleSubmit
<1>8. CASE cancelSubmit
  <2>1. Kept(Sent(s, TRUE), acc)
    BY KeptSent
  <2> QED
    BY <1>8, <2>1 DEF HandleSubmit
<1> QED
  BY <1>5, <1>6, <1>7, <1>8

LEMMA KeptStop ==
  ASSUME RulesHaveDummy, HiddenCan, PageInv, settings # None, NEW s, NEW acc,
         DOMAIN s = FormFields,
         Listed(s), NEW f \in s.pending, s.request[f] = None, ~s.sent,
         DOMAIN s.previous = Field, DOMAIN s.request = Field,
         \A g \in Field \ {f} : Tracks(s, acc, g), DOMAIN s.previous[f] = {"old", "valid"},
         s.previous[f].valid /\ s.previous[f].old # None => acc[f] = s.previous[f].old,
         Counts(s), Marks(s, s.pending \ {f}), NEW valid \in BOOLEAN
  PROVE  Kept(StopRequest(s, f, valid), acc)
<1>1. PICK c : c = [s EXCEPT !.pendingRequest = IF @ = 0 THEN 0 ELSE @ - 1,
                             !.pending = @ \ {f}]
  OBVIOUS
<1>2. present \subseteq Field
  BY DEF PageInv
<1>3. GoodForm(c)
  BY <1>1, <1>2, GoodStopped
<1>4. /\ DOMAIN c = FormFields /\ c.pending = s.pending \ {f}
      /\ c.judged = s.judged /\ c.invalid = s.invalid /\ c.errors = s.errors
      /\ c.successes = s.successes /\ c.submitted = s.submitted
      /\ c.error = s.error /\ c.summary = s.summary
      /\ SameFate(c, s) /\ c.previous = s.previous /\ c.request = s.request
  BY <1>1 DEF FormFields
<1>5. Listed(c)
  BY <1>4 DEF Listed
<1>6. Tracked(c, acc)
  <2>1. ASSUME NEW g \in Field, g # f PROVE Tracks(c, acc, g)
    <3>1. Tracks(s, acc, g)
      BY <2>1
    <3>2. g \in c.pending <=> g \in s.pending
      BY <1>4, <2>1
    <3> QED
      BY <1>4, <3>1, <3>2 DEF Tracks
  <2>2. Tracks(c, acc, f)
    BY <1>4 DEF Tracks
  <2> QED
    BY <1>4, <2>1, <2>2 DEF Tracked
<1>7. Kept(c, acc)
  BY <1>4, <1>5, <1>6 DEF Kept
<1> DEFINE last == c.pendingRequest = 0 /\ c.formSubmitted
<1>8. CASE last /\ valid
  <2>1. PICK again : again = WholeForm(c)
    OBVIOUS
  <2>2. Kept(again, acc) /\ GoodForm(again)
    BY <1>2, <1>3, <1>7, <2>1, GoodWhole, KeptWhole
  <2>3. PICK h : h = HandleSubmit(again, FALSE)
    OBVIOUS
  <2>4. Kept(h, acc)
    BY <2>2, <2>3, KeptSubmit
  <2>5. Kept([h EXCEPT !.formSubmitted = FALSE], acc)
    BY <2>4, KeptUnsubmitted
  <2>6. StopRequest(s, f, valid) =
          IF again.errors # {} THEN again ELSE [h EXCEPT !.formSubmitted = FALSE]
    BY <1>1, <1>8, <2>1, <2>3 DEF StopRequest
  <2> QED
    BY <2>2, <2>5, <2>6
<1>9. CASE last /\ ~valid
  <2>1. PICK e : e = OnErrors(c)
    OBVIOUS
  <2>2. Kept(e, acc)
    BY <1>7, <2>1, KeptShown
  <2>3. Kept([e EXCEPT !.formSubmitted = FALSE], acc)
    BY <2>2, KeptUnsubmitted
  <2>4. StopRequest(s, f, valid) = [e EXCEPT !.formSubmitted = FALSE]
    BY <1>1, <1>9, <2>1 DEF StopRequest
  <2> QED
    BY <2>3, <2>4
<1>10. CASE ~last
  <2>1. StopRequest(s, f, valid) = c
    BY <1>1, <1>10 DEF StopRequest
  <2> QED
    BY <1>7, <2>1
<1> QED
  BY <1>8, <1>9, <1>10

\* The answer to a request, which is noted as the server's last one.
LEMMA KeptAnswer ==
  ASSUME RulesHaveDummy, HiddenCan, PageInv, settings # None, NEW s, NEW acc,
         Kept(s, acc),
         GoodForm(s), ~s.sent, NEW f \in Field, s.request[f] # None, NEW valid \in BOOLEAN,
         NEW noted, \A g \in Field \ {f} : noted[g] = acc[g],
         valid => noted[f] = s.request[f].value
  PROVE  Kept(Answered(s, f, valid), noted)
<1>0. present \subseteq Field /\ f \in s.pending
  BY DEF PageInv, GoodForm, Counts
<1>1. PICK n : n =
        [s EXCEPT !.judged = @ \cup {f},
                  !.invalid = IF valid THEN @ \ {f} ELSE @ \cup {f},
                  !.errors = IF valid THEN {} ELSE @ \cup {f},
                  !.successes = IF valid THEN {f} ELSE @ \ {f}]
  OBVIOUS
<1>2. /\ DOMAIN n = FormFields /\ n.judged = s.judged \cup {f}
      /\ n.invalid = IF valid THEN s.invalid \ {f} ELSE s.invalid \cup {f}
      /\ n.errors = IF valid THEN {} ELSE s.errors \cup {f}
      /\ n.successes = IF valid THEN {f} ELSE s.successes \ {f}
      /\ n.submitted = s.submitted /\ n.pending = s.pending /\ n.error = s.error
      /\ n.summary = s.summary /\ SameFate(n, s)
      /\ n.previous = s.previous /\ n.request = s.request
  BY <1>1 DEF Kept, FormFields
<1>3. f \in present
  BY <1>0 DEF Kept, Listed
<1>4. Kept(n, acc)
  BY <1>2, <1>3, TrackedIfSame DEF Kept, Listed
<1>5. PICK w : w = ShowErrors(n)
  OBVIOUS
<1>6. Kept(w, acc) /\ SameFate(w, n)
  BY <1>4, <1>5, KeptShown
<1>7. w.previous = s.previous /\ w.request = s.request /\ w.pending = s.pending
  <2>1. \A x \in FormFields \ {"error", "says"} : w[x] = n[x]
    BY <1>2, <1>5, ShowErrorsFields
  <2> QED
    BY <1>2, <2>1 DEF FormFields
<1>8. PICK k : k = [w EXCEPT !.previous[f].valid = IF s.request[f].kept THEN valid ELSE @,
                             !.request[f] = None]
  OBVIOUS
<1>9. /\ DOMAIN k = FormFields /\ k.judged = w.judged /\ k.invalid = w.invalid
      /\ k.errors = w.errors /\ k.successes = w.successes /\ k.submitted = w.submitted
      /\ k.pending = w.pending /\ k.error = w.error /\ k.summary = w.summary
      /\ SameFate(k, w) /\ k.request = [w.request EXCEPT ![f] = None]
      /\ k.previous = [w.previous EXCEPT ![f].valid =
                         IF s.request[f].kept THEN valid ELSE @]
  BY <1>6, <1>8 DEF Kept, FormFields
<1>10. Listed(k)
  BY <1>6, <1>9 DEF Kept, Listed
<1>11. /\ DOMAIN k.previous = Field /\ DOMAIN k.request = Field /\ k.request[f] = None
  BY <1>6, <1>9 DEF Kept, Tracked
<1>12. ASSUME NEW g \in Field \ {f} PROVE Tracks(k, noted, g)
  <2>1. Tracks(w, acc, g)
    BY <1>6 DEF Kept, Tracked
  <2>2. k.previous[g] = w.previous[g] /\ k.request[g] = w.request[g]
        /\ k.pending = w.pending /\ noted[g] = acc[g]
    BY <1>6, <1>9 DEF Kept, Tracked
  <2> QED
    BY <2>1, <2>2 DEF Tracks
<1>13. /\ DOMAIN k.previous[f] = {"old", "valid"}
       /\ k.previous[f].valid /\ k.previous[f].old # None => noted[f] = k.previous[f].old
  <2>1. Tracks(w, acc, f)
    BY <1>6 DEF Kept, Tracked
  <2>2. PICK p : p = w.previous[f]
    OBVIOUS
  <2>3. k.previous[f] = [p EXCEPT !.valid = IF s.request[f].kept THEN valid ELSE @]
    BY <1>6, <1>9, <2>2 DEF Kept, Tracked
  <2>4. DOMAIN p = {"old", "valid"}
    BY <2>1, <2>2 DEF Tracks
  <2>5. /\ DOMAIN k.previous[f] = {"old", "valid"} /\ k.previous[f].old = p.old
        /\ s.request[f].kept => k.previous[f].valid = valid
    BY <2>3, <2>4
  <2>6. PICK r : r = s.request[f]
    OBVIOUS
  <2>7. /\ r.kept \in BOOLEAN
        /\ IF r.kept THEN r.value = p.old ELSE p.old = None
    BY <1>7, <2>1, <2>2, <2>6 DEF Tracks
  <2>8. CASE r.kept
    BY <2>5, <2>6, <2>7, <2>8
  <2>9. CASE ~r.kept
    BY <2>5, <2>6, <2>7, <2>9
  <2> QED
    BY <2>5, <2>8, <2>9
<1>14. k = Noted(s, f, valid)
  BY <1>1, <1>5, <1>8 DEF Noted
<1>15. Counts(k) /\ f \in k.pending /\ Marks(k, k.pending \ {f})
  BY <1>0, <1>14, GoodNoted
<1>16. ~k.sent
  BY <1>2, <1>6, <1>9
<1>17. Kept(StopRequest(k, f, valid), noted)
  BY <1>9, <1>10, <1>11, <1>12, <1>13, <1>15, <1>16, KeptStop
<1> QED
  BY <1>14, <1>17 DEF Answered, Noted

\* The reset event.
LEMMA KeptReset ==
  ASSUME NEW s, NEW acc, Kept(s, acc)
  PROVE  Kept(OnReset(s), acc) /\ SameFate(OnReset(s), s)
<1>1. PICK t : t = OnReset(s)
  OBVIOUS
<1>2. /\ DOMAIN t = FormFields /\ t.errors = {} /\ t.successes = {} /\ t.invalid = {}
      /\ t.judged = {} /\ t.submitted = {} /\ t.error = {} /\ t.summary = {}
      /\ t.pending = s.pending /\ SameFate(t, s)
      /\ t.previous = [f \in Field |-> IF f \in Elements
                         THEN NewForm.previous[f] ELSE s.previous[f]]
      /\ t.request = [f \in Field |-> IF f \in Elements /\ s.request[f] # None
                        THEN [s.request[f] EXCEPT !.kept = FALSE] ELSE s.request[f]]
  BY <1>1 DEF OnReset, Kept, FormFields
<1>3. Listed(t)
  BY <1>2 DEF Kept, Listed
<1>4. ASSUME NEW f \in Field PROVE Tracks(t, acc, f)
  <2>1. Tracks(s, acc, f)
    BY DEF Kept, Tracked
  <2>2. CASE f \in Elements
    <3>1. t.previous[f] = [old |-> None, valid |-> TRUE]
      BY <1>2, <2>2 DEF NewForm
    <3>2. t.request[f] = IF s.request[f] # None THEN [s.request[f] EXCEPT !.kept = FALSE]
                         ELSE s.request[f]
      BY <1>2, <2>2
    <3>3. PICK p : p = t.previous[f]
      OBVIOUS
    <3>4. DOMAIN p = {"old", "valid"} /\ p.old = None
      BY <3>1, <3>3
    <3>5. PICK r, q : r = s.request[f] /\ q = t.request[f]
      OBVIOUS
    <3>6. r # None => DOMAIN r = {"value", "kept"}
      BY <2>1, <3>5 DEF Tracks
    <3>7. q # None => DOMAIN q = {"value", "kept"} /\ q.kept = FALSE
      BY <3>2, <3>5, <3>6
    <3> QED
      BY <3>3, <3>4, <3>5, <3>7 DEF Tracks
  <2>3. CASE f \notin Elements
    <3>1. t.previous[f] = s.previous[f] /\ t.request[f] = s.request[f]
          /\ t.pending = s.pending
      BY <1>2, <2>3
    <3> QED
      BY <2>1, <3>1 DEF Tracks
  <2> QED
    BY <2>2, <2>3
<1>5. Tracked(t, acc)
  BY <1>2, <1>4 DEF Tracked
<1> QED
  BY <1>1, <1>2, <1>3, <1>5 DEF Kept

-----------------------------------------------------------------------------
(* Every step keeps the page.                                                *)

LEMMA PageIfSame ==
  ASSUME PageInv, UNCHANGED <<page, loaded, options, settings, attached>>,
         present \subseteq present', present' \subseteq Field,
         value' \in [Field -> Nat], \A f \in Field : value'[f] \in 0 .. page[f].longest,
         ready => ready', form'.sent => form.sent \/ ready,
         DOMAIN accepted' = DOMAIN accepted
  PROVE  PageInv'
<1>1. \A f, rules : ParsedFor(f, rules) => ParsedFor(f, rules)'
  BY DEF ParsedFor
<1> QED
  BY <1>1 DEF PageInv

LEMMA PageIfParsed ==
  ASSUME PageInv, UNCHANGED <<page, loaded, present, value, form, accepted>>,
         NEW fs, fs \subseteq present, options' = ParsedElements(fs),
         UNCHANGED <<settings, attached>> \/ AttachValidation(options'), ready'
  PROVE  PageInv'
<1>1. \A f, rules : ParsedFor(f, rules) => ParsedFor(f, rules)'
  BY DEF ParsedFor
<1>2. /\ DOMAIN options' = DOMAIN options \cup fs
      /\ \A f \in DOMAIN options' :
           options'[f] = IF f \in fs THEN ParsedRules(f, page[f], present) ELSE options[f]
  BY DEF ParsedElements
<1>3. \A f \in DOMAIN options' : ParsedFor(f, options[f])'
  <2>1. ASSUME NEW f \in DOMAIN options' PROVE ParsedFor(f, options'[f])
    <3>1. CASE f \in fs
      BY <1>2, <3>1 DEF PageInv, ParsedFor
    <3>2. CASE f \notin fs
      BY <1>2, <3>2 DEF PageInv
    <3> QED
      BY <3>1, <3>2
  <2> QED
    BY <2>1 DEF ParsedFor
<1>4. CASE UNCHANGED <<settings, attached>>
  BY <1>1, <1>2, <1>3, <1>4 DEF PageInv
<1>5. CASE AttachValidation(options')
  <2>1. CASE settings # None
    <3>1. settings' = settings
      BY <1>5, <2>1 DEF AttachValidation
    <3> QED
      BY <1>1, <1>2, <1>3, <2>1, <3>1 DEF PageInv
  <2>2. CASE settings = None
    <3>1. settings' = [f \in DOMAIN options' |-> Copy(options'[f])]
      BY <1>5, <2>2 DEF AttachValidation
    <3>2. PICK dom \in SUBSET Field : dom = DOMAIN options'
      BY <1>2 DEF PageInv
    <3>3. ASSUME NEW f \in dom
          PROVE  Copy(options'[f]) \in RulesOf(page)
      <4>1. ParsedFor(f, options'[f])
        BY <1>3, <3>2 DEF ParsedFor
      <4>2. PICK inputs \in SUBSET present : options'[f] = ParsedRules(f, page[f], inputs)
        BY <4>1 DEF ParsedFor
      <4> QED
        BY <4>2 DEF PageInv, RulesOf
    <3>4. settings' \in [dom -> RulesOf(page)]
      BY <3>1, <3>2, <3>3
    <3>5. settings' # None
      BY <3>4, NoneAssumption DEF PageInv
    <3>6. \A f \in DOMAIN settings' :
            \E rules : ParsedFor(f, rules)' /\ settings'[f] = Copy(rules)
      BY <1>3, <3>1
    <3> QED
      BY <1>2, <1>3, <3>1, <3>5, <3>6 DEF PageInv
  <2> QED
    BY <2>1, <2>2
<1> QED
  BY <1>4, <1>5

LEMMA PageNext ==
  ASSUME PageInv, [Next]_vars
  PROVE  PageInv'
<1>a. ASSUME NEW s, Handles(s), settings # None \/ ready,
             DOMAIN accepted' = DOMAIN accepted
      PROVE  PageInv'
  <2>1. ready
    BY <1>a DEF PageInv
  <2> QED
    BY <1>a, <2>1, PageIfSame DEF Handles, PageInv
<1>1. CASE Ready
  <2>1. PICK fs : fs \subseteq present /\ options' = ParsedElements(fs)
    BY <1>1 DEF Ready, Parse
  <2>2. UNCHANGED <<settings, attached>> \/ AttachValidation(options')
    BY <1>1 DEF Ready, Parse
  <2> QED
    BY <1>1, <2>1, <2>2, PageIfParsed DEF Ready
<1>2. ASSUME NEW fs \in SUBSET Field, ParseAgain(fs) PROVE PageInv'
  <2>1. PICK parsed : parsed \subseteq present /\ options' = ParsedElements(parsed)
    BY <1>2 DEF ParseAgain, Parse
  <2>2. UNCHANGED <<settings, attached>> \/ AttachValidation(options')
    BY <1>2 DEF ParseAgain, Parse
  <2> QED
    BY <1>2, <2>1, <2>2, PageIfParsed DEF ParseAgain
<1>3. ASSUME NEW f \in Field, NEW skipAttach \in BOOLEAN, ParseElement(f, skipAttach)
      PROVE  PageInv'
  <2>1. {f} \subseteq present /\ options' = ParsedElements({f})
    BY <1>3 DEF ParseElement
  <2>2. UNCHANGED <<settings, attached>> \/ AttachValidation(options')
    BY <1>3 DEF ParseElement
  <2> QED
    BY <1>3, <2>1, <2>2, PageIfParsed DEF ParseElement
<1>4. ASSUME NEW f \in Field, AddField(f) PROVE PageInv'
  BY <1>4, PageIfSame DEF AddField, PageInv
<1>14. ASSUME NEW f \in Field, Hide(f) \/ Show(f) PROVE PageInv'
  BY <1>14, PageIfSame DEF Hide, Show, PageInv
<1>5. ASSUME NEW f \in Field, KeyUp(f) PROVE PageInv'
  BY <1>5, <1>a DEF KeyUp, Validating
<1>6. ASSUME NEW f \in Field, Blur(f) PROVE PageInv'
  <2>1. settings # None
    BY <1>6 DEF Blur, Validating
  <2>2. PICK s : Handles(s)
    BY <1>6 DEF Blur
  <2> QED
    BY <1>6, <1>a, <2>1, <2>2 DEF Blur
<1>7. ASSUME NEW f \in Field, Fail(f) PROVE PageInv'
  BY <1>7, <1>a DEF Fail, Validating
<1>8. ASSUME NEW f \in Field, NEW text \in 0 .. page[f].longest, Type(f, text)
      PROVE  PageInv'
  <2>1. page[f].longest \in Nat
    BY PageIsMarked
  <2>2. text \in Nat /\ value' = [value EXCEPT ![f] = text]
    BY <1>8, <2>1 DEF Type
  <2>3. value' \in [Field -> Nat] /\ \A g \in Field : value'[g] \in 0 .. page[g].longest
    BY <1>8, <2>2 DEF PageInv
  <2> QED
    BY <1>8, <2>3, PageIfSame DEF Type, PageInv
<1>9. ASSUME NEW cancelSubmit \in BOOLEAN, Submit(cancelSubmit) PROVE PageInv'
  <2>1. PICK s : Handles(s)
    BY <1>9 DEF Submit
  <2> QED
    BY <1>9, <1>a, <2>1 DEF Submit
<1>10. CASE Validate
  <2>1. CASE settings = None
    <3>1. ready' /\ settings' = [f \in {} |-> NoRules] /\ DOMAIN settings' = {}
      BY <1>10, <2>1 DEF Validate
    <3>2. \A f, rules : ParsedFor(f, rules) => ParsedFor(f, rules)'
      BY <1>10 DEF Validate, ParsedFor
    <3> QED
      BY <1>10, <2>1, <3>1, <3>2 DEF Validate, PageInv
  <2>2. CASE settings # None
    BY <1>10, <2>2, PageIfSame DEF Validate, PageInv
  <2> QED
    BY <2>1, <2>2
<1>11. CASE Reset
  <2>1. value' \in [Field -> Nat] /\ \A g \in Field : value'[g] \in 0 .. page[g].longest
    BY <1>11, PageIsMarked DEF Reset, Blank
  <2> QED
    BY <1>11, <2>1, PageIfSame DEF Reset, PageInv
<1>12. ASSUME NEW f \in Field, NEW valid \in BOOLEAN, Answer(f, valid) PROVE PageInv'
  BY <1>12, <1>a DEF Answer, Validating
<1>13. CASE UNCHANGED vars
  BY <1>13, PageIfSame DEF vars, PageInv
<1> QED
  BY <1>1, <1>2, <1>3, <1>4, <1>5, <1>6, <1>7, <1>8, <1>9, <1>10, <1>11, <1>12, <1>13,
     <1>14 DEF Next

-----------------------------------------------------------------------------
(* Every step keeps the form.                                                *)

LEMMA KeptIfSame ==
  ASSUME Kept(form, accepted), UNCHANGED <<page, form, accepted>>,
         present \subseteq present', ~form.sent \/ UNCHANGED <<settings, hidden, value>>
  PROVE  Kept(form, accepted)'
<1>1. Listed(form)' /\ Tracked(form, accepted)' /\ (DOMAIN form = FormFields)'
  BY DEF Kept, Listed, Tracked, Tracks
<1>2. (form.sent /\ ~form.cancelled => Fulfilled(accepted))'
  BY DEF Kept, Fulfilled, Failing, RulesFor, Carried
<1> QED
  BY <1>1, <1>2 DEF Kept

\* A handler leaves a form that is kept.
LEMMA KeptHandled ==
  ASSUME NEW s, Handles(s), Kept(s, accepted'), UNCHANGED value
  PROVE  Kept(form, accepted)'
<1>1. UNCHANGED <<page, present, hidden, settings>> /\ form' = s
  BY DEF Handles
<1>2. Listed(form)' /\ Tracked(form, accepted)' /\ (DOMAIN form = FormFields)'
  BY <1>1 DEF Kept, Listed, Tracked, Tracks
<1>3. (form.sent /\ ~form.cancelled => Fulfilled(accepted))'
  BY <1>1 DEF Kept, Fulfilled, Failing, RulesFor, Carried
<1> QED
  BY <1>2, <1>3 DEF Kept

LEMMA KeptNext ==
  ASSUME FormInv, PageInv, Kept(form, accepted), [Next]_vars
  PROVE  Kept(form, accepted)'
<1>0. present \subseteq Field /\ HiddenCan /\ RulesHaveDummy /\ GoodForm(form)
  BY DEF FormInv
<1>1. CASE Ready
  <2>1. ~form.sent
    BY <1>1 DEF Ready, PageInv
  <2> QED
    BY <1>1, <2>1, KeptIfSame DEF Ready
<1>2. ASSUME NEW fs \in SUBSET Field, ParseAgain(fs) PROVE Kept(form, accepted)'
  BY <1>2, KeptIfSame DEF ParseAgain
<1>3. ASSUME NEW f \in Field, NEW skipAttach \in BOOLEAN, ParseElement(f, skipAttach)
      PROVE  Kept(form, accepted)'
  BY <1>3, KeptIfSame DEF ParseElement
<1>4. ASSUME NEW f \in Field, AddField(f) PROVE Kept(form, accepted)'
  BY <1>4, KeptIfSame DEF AddField
<1>14. ASSUME NEW f \in Field, Hide(f) \/ Show(f) PROVE Kept(form, accepted)'
  BY <1>14, KeptIfSame DEF Hide, Show
<1>5. ASSUME NEW f \in Field, KeyUp(f) PROVE Kept(form, accepted)'
  <2>1. Handles(OneElement(form, f)) /\ UNCHANGED <<accepted, value>>
    BY <1>5 DEF KeyUp, Handles
  <2>2. Kept(OneElement(form, f), accepted)
    BY <1>0, <1>5, KeptElement DEF KeyUp
  <2> QED
    BY <2>1, <2>2, KeptHandled
<1>6. ASSUME NEW f \in Field, Blur(f) PROVE Kept(form, accepted)'
  <2>1. PICK s : s = IF Followers(f) = {} THEN form
                     ELSE OneElement(form, CHOOSE g \in Followers(f) : TRUE)
    OBVIOUS
  <2>2. Kept(s, accepted)
    <3>1. CASE Followers(f) = {}
      BY <2>1, <3>1
    <3>2. CASE Followers(f) # {}
      <4>1. PICK g : g = CHOOSE h \in Followers(f) : TRUE
        OBVIOUS
      <4>2. g \in present
        BY <3>2, <4>1 DEF Followers
      <4>3. Kept(OneElement(form, g), accepted)
        BY <1>0, <4>2, KeptElement
      <4> QED
        BY <2>1, <3>2, <4>1, <4>3
    <3> QED
      BY <3>1, <3>2
  <2>3. Kept(OneElement(s, f), accepted)
    BY <1>0, <1>6, <2>2, KeptElement DEF Blur
  <2>4. Handles(s) \/ Handles(OneElement(s, f))
    BY <1>6, <2>1 DEF Blur
  <2>5. UNCHANGED <<accepted, value>>
    BY <1>6, <2>4 DEF Blur, Handles
  <2> QED
    BY <2>2, <2>3, <2>4, <2>5, KeptHandled
<1>7. ASSUME NEW f \in Field, Fail(f) PROVE Kept(form, accepted)'
  <2>1. PICK d : d = [form EXCEPT !.request[f] = None]
    OBVIOUS
  <2>2. /\ DOMAIN d = FormFields
        /\ d.judged = form.judged /\ d.invalid = form.invalid /\ d.errors = form.errors
        /\ d.successes = form.successes /\ d.submitted = form.submitted
        /\ d.pending = form.pending /\ d.error = form.error /\ d.summary = form.summary
        /\ SameFate(d, form) /\ d.previous = form.previous
        /\ d.request = [form.request EXCEPT ![f] = None]
    BY <2>1 DEF Kept, FormFields
  <2>3. ASSUME NEW g \in Field PROVE Tracks(d, accepted, g)
    <3>1. Tracks(form, accepted, g)
      BY DEF Kept, Tracked
    <3>2. d.request[g] = None \/ d.request[g] = form.request[g]
      BY <2>2 DEF Kept, Tracked
    <3> QED
      BY <2>2, <3>1, <3>2 DEF Tracks
  <2>4. Kept(d, accepted)
    BY <2>2, <2>3 DEF Kept, Listed, Tracked
  <2>5. Handles(d) /\ UNCHANGED <<accepted, value>>
    BY <1>7, <2>1 DEF Fail, Handles
  <2> QED
    BY <2>4, <2>5, KeptHandled
<1>8. ASSUME NEW f \in Field, NEW text \in 0 .. page[f].longest, Type(f, text)
      PROVE  Kept(form, accepted)'
  BY <1>8, KeptIfSame DEF Type
<1>9. ASSUME NEW cancelSubmit \in BOOLEAN, Submit(cancelSubmit)
      PROVE  Kept(form, accepted)'
  <2>1. CASE settings = None
    <3>1. Fulfilled(accepted)
      BY <2>1 DEF Fulfilled
    <3>2. Kept(Sent(form, FALSE), accepted)
      BY <3>1, KeptSent
    <3>3. Handles(Sent(form, FALSE)) /\ UNCHANGED <<accepted, value>>
      BY <1>9, <2>1 DEF Submit, Handles
    <3> QED
      BY <3>2, <3>3, KeptHandled
  <2>2. CASE settings # None
    <3>1. Kept(HandleSubmit(form, cancelSubmit), accepted)
      BY <1>0, <2>2, KeptSubmit
    <3>2. Handles(HandleSubmit(form, cancelSubmit)) /\ UNCHANGED <<accepted, value>>
      BY <1>9, <2>2 DEF Submit, Handles
    <3> QED
      BY <3>1, <3>2, KeptHandled
  <2> QED
    BY <2>1, <2>2
<1>10. CASE Validate
  <2>1. CASE settings = None
    BY <1>10, <2>1, KeptIfSame DEF Validate
  <2>2. CASE settings # None
    <3>1. Kept(WholeForm(form), accepted)
      BY <1>0, KeptWhole
    <3>2. Handles(WholeForm(form)) /\ UNCHANGED <<accepted, value>>
      BY <1>10, <2>2 DEF Validate, Handles
    <3> QED
      BY <3>1, <3>2, KeptHandled
  <2> QED
    BY <2>1, <2>2
<1>11. CASE Reset
  <2>1. PICK s : s = IF attached THEN OnReset(form) ELSE form
    OBVIOUS
  <2>2. Kept(s, accepted) /\ SameFate(s, form)
    BY <2>1, KeptReset
  <2>3. UNCHANGED <<page, present, settings, accepted>> /\ form' = s /\ ~form.sent
    BY <1>11, <2>1 DEF Reset
  <2>4. Listed(form)' /\ Tracked(form, accepted)' /\ (DOMAIN form = FormFields)'
    BY <2>2, <2>3 DEF Kept, Listed, Tracked, Tracks
  <2> QED
    BY <2>2, <2>3, <2>4 DEF Kept
<1>12. ASSUME NEW f \in Field, NEW valid \in BOOLEAN, Answer(f, valid)
       PROVE  Kept(form, accepted)'
  <2>1. settings # None /\ ~form.sent /\ form.request[f] # None
    BY <1>12 DEF Answer, Validating
  <2>2. Handles(Answered(form, f, valid)) /\ UNCHANGED value
    BY <1>12 DEF Answer, Handles
  <2>3. accepted' = [accepted EXCEPT ![f] = IF valid THEN form.request[f].value ELSE None]
    BY <1>12 DEF Answer
  <2>4. DOMAIN accepted = Field
    BY DEF PageInv
  <2>5. /\ \A g \in Field \ {f} : accepted'[g] = accepted[g]
        /\ valid => accepted'[f] = form.request[f].value
    BY <2>3, <2>4
  <2>6. Kept(Answered(form, f, valid), accepted')
    BY <1>0, <2>1, <2>5, KeptAnswer
  <2> QED
    BY <2>2, <2>6, KeptHandled
<1>13. CASE UNCHANGED vars
  BY <1>13, KeptIfSame DEF vars
<1> QED
  BY <1>1, <1>2, <1>3, <1>4, <1>5, <1>6, <1>7, <1>8, <1>9, <1>10, <1>11, <1>12, <1>13,
     <1>14 DEF Next

SendInv == FormInv /\ PageInv /\ Kept(form, accepted)

LEMMA SendInit == Init => SendInv
<1> SUFFICES ASSUME Init PROVE SendInv
  OBVIOUS
<1>1. FormInv
  BY FormInit
<1>2. PageInv
  <2>1. \A f \in Field : page[f].longest \in Nat
    BY PagesAssumption DEF Init
  <2>2. value \in [Field -> Nat] /\ \A f \in Field : value[f] \in 0 .. page[f].longest
    BY <2>1 DEF Init, Blank
  <2>3. DOMAIN options = {}
    BY DEF Init
  <2>4. ~form.sent
    BY DEF Init, NewForm
  <2> QED
    BY <2>2, <2>3, <2>4 DEF Init, PageInv
<1>3. DOMAIN form = FormFields /\ ~form.sent
  BY DEF Init, NewForm, FormFields
<1>4. Listed(form)
  BY DEF Init, NewForm, Listed
<1>5. Tracked(form, accepted)
  <2>1. \A f \in Field : form.previous[f] = [old |-> None, valid |-> TRUE]
    BY DEF Init, NewForm
  <2>2. \A f \in Field : form.request[f] = None
    BY DEF Init, NewForm
  <2>3. DOMAIN form.previous = Field /\ DOMAIN form.request = Field
    BY DEF Init, NewForm
  <2> QED
    BY <2>1, <2>2, <2>3 DEF Tracked, Tracks
<1> QED
  BY <1>1, <1>2, <1>3, <1>4, <1>5 DEF SendInv, Kept

-----------------------------------------------------------------------------
(* The theorems.                                                            *)

\* Whatever the inputs, their attributes and texts are, however the events, the
\* answers and the failed requests fall, and whatever scripts add and parse: the
\* inputs of the form are inputs, every input that has rules has one that always
\* passes, and the validator's lists and the page's marks agree.
THEOREM FormInvariant == Spec => []FormInv
<1> QED
  BY FormInit, FormNext, PTL DEF Spec

\* A submission waits for exactly the inputs whose requests are not settled: the
\* counter that startRequest and stopRequest keep is their number, and its
\* correction from below zero never happens.
THEOREM RequestsCounted == Spec => []PendingIsCounted
<1>1. FormInv => PendingIsCounted
  BY DEF FormInv, GoodForm, Counts, PendingIsCounted
<1> QED
  BY <1>1, FormInvariant, PTL

\* The page tells what the validator holds: away from the inputs that wait and
\* those that can be hidden, the containers in error are those of the names that
\* are true in "invalid", and a container in error that takes messages holds one.
THEOREM MarksTell == Spec => []ContainersTellValidity
<1>1. FormInv => ContainersTellValidity
  BY DEF FormInv, GoodForm, Marks, ContainersTellValidity
<1> QED
  BY <1>1, FormInvariant, PTL

\* attachValidation never changes the rules of a form that has a validator.
THEOREM RulesStay == Spec => RulesAreFixed
<1>1. [Next]_vars => [settings # None => settings' = settings]_vars
  <2> SUFFICES ASSUME Next, settings # None
               PROVE  settings' = settings
    BY DEF vars
  <2> QED
    BY DEF Next, Ready, ParseAgain, ParseElement, Parse, AttachValidation, AddField,
           Hide, Show, KeyUp, Blur, Fail, Type, Submit, Validate, Reset, Answer, Handles
<1> QED
  BY <1>1, PTL DEF Spec, RulesAreFixed

\* Whatever the forms, the attributes, the texts, the formats and what scripts and
\* the server do: the rules are those of the attributes, an answer that will be kept
\* is to the value that is remembered, what is remembered as valid is what the
\* server accepted last, and a form that is sent had nothing left to check.
THEOREM SendInvariant == Spec => []SendInv
<1>1. SendInv /\ [Next]_vars => SendInv'
  BY FormNext, PageNext, KeptNext DEF SendInv
<1> QED
  BY <1>1, SendInit, PTL DEF Spec

\* The validator's lists name inputs that are there.
THEOREM FormTyped == Spec => []FormTypeOK
<1>1. SendInv => FormTypeOK
  <2> SUFFICES ASSUME SendInv PROVE FormTypeOK
    OBVIOUS
  <2>1. form.pendingRequest \in 0 .. Cardinality(Field)
    <3>1. form.pendingRequest = Cardinality(form.pending) /\ form.pending \subseteq Field
      BY DEF SendInv, FormInv, GoodForm, Counts
    <3>2. Cardinality(form.pending) <= Cardinality(Field)
      BY <3>1, FieldAssumption, FS_Subset
    <3> QED
      BY <3>1, <3>2, FieldsAreFinite
  <2> QED
    BY <2>1 DEF SendInv, FormInv, HiddenCan, PageInv, Kept, Listed, FormTypeOK
<1> QED
  BY <1>1, SendInvariant, PTL

\* What the script makes of the attributes of an input is what they say, whatever
\* adapters they use, whichever part of the form was parsed first, and whatever text
\* the input has: the check agrees with the markup.  The order of strings plays no
\* part in it: only a range with one limit is compared as a string, and that is
\* left out, as is a comparison with an input that was not loaded.
THEOREM VerdictsFollow == Spec => []VerdictFollowsMarkup
<1>1. SendInv => VerdictFollowsMarkup
  <2> SUFFICES ASSUME SendInv, settings # None, NEW f \in DOMAIN settings,
                      ComparesWithLoaded(f), RangeHasBothEnds(page[f])
               PROVE  /\ Verdict(form, f) \in {"valid", "pending"} =>
                           Meets(f, page[f], value[f], value)
                      /\ Verdict(form, f) = "invalid" =>
                           \/ ~Meets(f, page[f], value[f], value)
                           \/ ~form.previous[f].valid
                      /\ Verdict(form, f) # "none"
    BY DEF VerdictFollowsMarkup
  <2>1. PageInv /\ RulesHaveDummy /\ f \in Field
    BY DEF SendInv, FormInv, PageInv
  <2>2. RulesFor(f) # NoRules
    BY <2>1, RulesAreNotNone
  <2>3. Failing(f) = {} <=> Meets(f, page[f], value[f], value)
    BY <2>1, FailingSaysMarkup
  <2>4. Verdict(form, f) \in {"valid", "invalid", "pending"}
    BY <2>1, <2>2, VerdictCases
  <2>5. CASE Failing(f) # {}
    BY <2>2, <2>3, <2>5 DEF Verdict
  <2>6. CASE Failing(f) = {}
    BY <2>2, <2>3, <2>4, <2>6 DEF Verdict
  <2> QED
    BY <2>5, <2>6
<1> QED
  BY <1>1, SendInvariant, PTL

\* A form that is sent by a button that does not cancel the check is only sent as
\* its attributes, with the two exceptions above, and the server allow it of every
\* input with rules that is not hidden.
THEOREM SentMeets == Spec => []SentMeetsMarkup
<1>1. SendInv => SentMeetsMarkup
  <2> SUFFICES ASSUME SendInv, form.sent, ~form.cancelled, settings # None,
                      NEW f \in DOMAIN settings \ hidden
               PROVE  /\ ComparesWithLoaded(f) /\ RangeHasBothEnds(page[f]) =>
                           Meets(f, page[f], value[f], value)
                      /\ <<"remote">> \in DOMAIN page[f].attrs /\ value[f] # Blank =>
                           IsAccepted(f)
    BY DEF SentMeetsMarkup
  <2>1. PageInv
    BY DEF SendInv
  <2>2. /\ Failing(f) = {}
        /\ "remote" \in DOMAIN RulesFor(f) /\ value[f] # Blank => accepted[f] = Carried(f)
    BY DEF SendInv, Kept, Fulfilled
  <2>3. ASSUME <<"remote">> \in DOMAIN page[f].attrs, value[f] # Blank
        PROVE  IsAccepted(f)
    <3>1. /\ "remote" \in DOMAIN RulesFor(f)
          /\ RulesFor(f)["remote"] = AskedBy(f, page[f])
      BY <2>1, <2>3, RemoteRule
    <3>2. accepted[f] = Carried(f)
      BY <2>2, <2>3, <3>1
    <3>3. Carried(f) # None
      BY <2>1, <3>1, CarriedIsText
    <3>4. Carried(f) = [g \in AskedBy(f, page[f]) \cup {f} |-> value[g]]
      BY <3>1 DEF Carried
    <3> QED
      BY <3>2, <3>3, <3>4 DEF IsAccepted, AskedBy
  <2> QED
    BY <2>1, <2>2, <2>3, FailingSaysMarkup
<1> QED
  BY <1>1, SendInvariant, PTL
=============================================================================
