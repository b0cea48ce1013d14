--------------------------- MODULE FormValidation ---------------------------
(***************************************************************************)
(* One form in the browser under jquery.validate.unobtrusive, on the       *)
(* validator of jquery.validate: the script parses the inputs and attaches *)
(* a validator, then the user types, leaves inputs, submits and resets,    *)
(* scripts add inputs and parse again, and the answers of the server to    *)
(* "remote" rules arrive whenever they do.                                 *)
(*                                                                         *)
(* JavaScript runs one handler at a time, so that a handler is one step.   *)
(* A handler is an operator from the state of the validator and its marks  *)
(* in the page (the record form) to that state after it.                   *)
(***************************************************************************)
EXTENDS ValidationAdapters

CONSTANTS
  Field,   \* the names of the inputs
  Pages,   \* the forms: for each name an input
  None     \* no validator, no request, no text that was checked

ASSUME FieldAssumption ==
  /\ Field \subseteq Seq(STRING) /\ IsFiniteSet(Field)
  /\ \A f \in Field : f # <<>> /\ f[1] # "*"
  /\ Undefined \notin Field /\ \A fs \in SUBSET Field : Undefined # fs

\* An input: its attributes, whether it is a checkbox, whether its message
\* replaces what its container says, whether it can be hidden, and, as a bound,
\* its longest text.
ASSUME PagesAssumption ==
  \A page \in Pages : \A f \in Field :
    /\ DOMAIN page[f] = {"attrs", "checkbox", "replace", "hides", "longest"}
    /\ page[f].checkbox \in BOOLEAN /\ page[f].replace \in BOOLEAN
    /\ page[f].hides \in BOOLEAN
    /\ page[f].longest \in Nat
    /\ DOMAIN ParsedRules(f, page[f], Field) \subseteq Method
    /\ WellMarked(f, page[f], Field)

\* No two inputs of a form compare themselves with the same one, whose blur
\* event is bound once.
ASSUME ComparersAssumption ==
  \A page \in Pages : \A f, g \in Field :
    LET asks(h) == <<"equalto">> \in DOMAIN page[h].attrs
        other(h) == AppendModelPrefix(page[h].attrs[<<"equalto", "other">>],
                                      GetModelPrefix(h)) IN
    f # g /\ asks(f) /\ asks(g) => other(f) # other(g)

\* The rules that inputs of a form can have.
RulesOf(page) ==
  {Copy(ParsedRules(f, page[f], inputs)) : f \in Field, inputs \in SUBSET Field}

\* What None stands for is neither what a request carries nor a form's rules.
ASSUME NoneAssumption ==
  \A fs \in SUBSET Field :
    None \notin [fs -> Nat] /\ \A page \in Pages : None \notin [fs -> RulesOf(page)]

VARIABLES
  page,      \* the form
  loaded,    \* the inputs that it has when the browser loads it
  present,   \* those that it has now
  hidden,    \* those that the page does not show
  value,     \* their texts
  ready,     \* the document is ready, and parsed once
  options,   \* the rules that the script collects, for the inputs it parsed
  settings,  \* the validator's own copy of them, None without a validator
  attached,  \* attachValidation has run: the reset event is handled
  form,      \* the validator and its marks in the page
  accepted   \* history: what the server accepted for each input, if its last
             \* answer did

vars == <<page, loaded, present, hidden, value, ready, options, settings,
          attached, form, accepted>>

NewForm ==
  [ errors         |-> {},      \* errorMap
    successes      |-> {},      \* successList
    submitted      |-> {},
    judged         |-> {},      \* the names in the object "invalid" ...
    invalid        |-> {},      \* ... and those for which it is true
    pending        |-> {},
    pendingRequest |-> 0,
    previous       |-> [f \in Field |-> [old |-> None, valid |-> TRUE]],
    request        |-> [f \in Field |-> None],
    formSubmitted  |-> FALSE,
    compared       |-> {},      \* the inputs that follow the one they compare with
    error          |-> {},      \* the inputs whose container has the error class
    says           |-> {},      \* those whose container holds a message
    summary        |-> {},      \* what the summary lists while it shows errors
    sent           |-> FALSE,
    cancelled      |-> FALSE ]  \* history: sent by a button that cancels the check

Init ==
  /\ page \in Pages
  /\ loaded \in SUBSET Field \ {{}}
  /\ present = loaded
  /\ hidden \in SUBSET {f \in Field : page[f].hides}
  /\ value = [f \in Field |-> Blank]
  /\ ready = FALSE
  /\ options = [f \in {} |-> NoRules]
  /\ settings = None
  /\ attached = FALSE
  /\ form = NewForm
  /\ accepted = [f \in Field |-> None]

-----------------------------------------------------------------------------
(* The marks: onError, onSuccess, onErrors.                                 *)

\* A message is placed: its container takes the error class, and the message
\* itself only where messages replace.
OnError(s, fs) ==
  [s EXCEPT !.error = @ \cup fs,
            !.says = @ \cup {f \in fs : page[f].replace}]

OnSuccess(s, fs) ==
  [s EXCEPT !.error = @ \ fs,
            !.says = @ \ {f \in fs : page[f].replace}]

OnErrors(s) == IF s.errors = {} THEN s ELSE [s EXCEPT !.summary = s.errors]

\* Every success is placed as a message, which has no text, before it is marked.
ShowErrors(s) == OnSuccess(OnError(s, s.errors \cup s.successes), s.successes)

-----------------------------------------------------------------------------
(* The validator.                                                           *)

RulesFor(f) == IF f \in DOMAIN settings THEN settings[f] ELSE NoRules

\* Those of the inputs that are shown and have rules.
Elements == {f \in present : f \notin hidden /\ RulesFor(f) # NoRules}

Failing(f) ==
  {r \in DOMAIN RulesFor(f) \ {"remote"} :
     ~Passes(r, RulesFor(f)[r], value[f], value)}

\* What a request of "remote" carries.
Carried(f) == [g \in RulesFor(f)["remote"] \cup {f} |-> value[g]]

\* What check makes of an input.  The request's value is compared with that of
\* the last one, whether or not that one has been answered.
Verdict(s, f) ==
  CASE RulesFor(f) = NoRules -> "none"
    [] RulesFor(f) # NoRules /\ Failing(f) # {} -> "invalid"
    [] RulesFor(f) # NoRules /\ Failing(f) = {} ->
         IF \E r \in DOMAIN RulesFor(f) :
              DOMAIN RulesFor(f) = {r} /\ Abstains(r, value[f])
           THEN "none"
         ELSE IF "remote" \notin DOMAIN RulesFor(f) \/ value[f] = Blank
           THEN "valid"
         ELSE IF s.previous[f].old = Carried(f)
           THEN (IF s.previous[f].valid THEN "valid" ELSE "invalid")
         ELSE "pending"

\* Mistake: every request is counted.
CountsEveryRequest(s, fs) ==
  [s EXCEPT
    !.pendingRequest = @ + Cardinality(fs),
    !.pending = @ \cup fs,
    !.previous = [f \in Field |->
       IF f \in fs THEN [@[f] EXCEPT !.old = Carried(f)] ELSE @[f]],
    !.request = [f \in Field |->
       IF f \in fs THEN [value |-> Carried(f), kept |-> TRUE] ELSE @[f]]]

\* The requests of the inputs fs start, each instead of the one under way.  An
\* answer is kept with the data of the input that it was asked for.
StartRequests(s, fs) ==
  [s EXCEPT
    !.pendingRequest = @ + Cardinality(fs \ s.pending),
    !.pending = @ \cup fs,
    !.previous = [f \in Field |->
       IF f \in fs THEN [@[f] EXCEPT !.old = Carried(f)] ELSE @[f]],
    !.request = [f \in Field |->
       IF f \in fs THEN [value |-> Carried(f), kept |-> TRUE] ELSE @[f]]]

\* The rules of f that are checked after its comparison, and "remote" last: those
\* of the adapters that are registered after "equalto".
AfterComparison(f) ==
  IF <<"password">> \in DOMAIN page[f].attrs
    THEN {"minlength", "nonalphamin", "regex"} ELSE {}

\* The inputs of fs whose comparison is reached: they are checked again from
\* now on when the other input is left.
Compared(fs) ==
  {f \in fs : /\ "equalTo" \in DOMAIN RulesFor(f)
             /\ Failing(f) \subseteq {"equalTo"} \cup AfterComparison(f)}

\* The check of the inputs fs, after resetInternals.
Checked(s, fs) ==
  LET saying(v) == {f \in fs : Verdict(s, f) = v} IN
  [StartRequests(s, saying("pending")) EXCEPT
    !.errors = saying("invalid"),
    !.successes = saying("valid"),
    !.submitted = @ \cup saying("invalid"),
    !.compared = @ \cup Compared(fs)]

\* form(): every element; the names in "invalid" are those in error.
WholeForm(s) ==
  LET c == Checked(s, Elements) IN
  ShowErrors(OnErrors([c EXCEPT !.judged = c.errors, !.invalid = c.errors]))

\* element(): one input, which is not checked while it is hidden.
OneElement(s, f) ==
  LET c == Checked(s, {f}) IN
  IF f \in hidden
    THEN [s EXCEPT !.judged = @ \ {f}, !.invalid = @ \ {f}]
    ELSE ShowErrors([c EXCEPT
           !.judged = @ \cup {f},
           !.invalid = IF f \in c.errors THEN @ \cup {f} ELSE @ \ {f}])

\* A form that is sent as it is.
Sent(s, cancelSubmit) == [s EXCEPT !.sent = TRUE, !.cancelled = cancelSubmit]

\* Mistake: the form does not wait for the answers of the server.
SendsWithoutAnswer(s, cancelSubmit) ==
  LET c == WholeForm(s) IN
  IF cancelSubmit THEN Sent(s, TRUE)
  ELSE IF c.errors # {} THEN c ELSE Sent(c, FALSE)

\* The handler of the form's submission; the button that was clicked may cancel
\* the check.
HandleSubmit(s, cancelSubmit) ==
  LET c == WholeForm(s) IN
  IF cancelSubmit THEN Sent(s, TRUE)
  ELSE IF c.errors # {} THEN c
  ELSE IF c.pendingRequest > 0 THEN [c EXCEPT !.formSubmitted = TRUE]
  ELSE Sent(c, FALSE)

\* A submission that waits is done again with the answer to the last request.
StopRequest(s, f, valid) ==
  LET c == [s EXCEPT !.pendingRequest = IF @ = 0 THEN 0 ELSE @ - 1,
                     !.pending = @ \ {f}]
      last == c.pendingRequest = 0 /\ c.formSubmitted IN
  CASE last /\ valid ->
         LET again == WholeForm(c) IN
         IF again.errors # {} THEN again
         ELSE [HandleSubmit(again, FALSE) EXCEPT !.formSubmitted = FALSE]
    [] last /\ ~valid -> [OnErrors(c) EXCEPT !.formSubmitted = FALSE]
    [] ~last -> c

\* The answer to the request of f.
Answered(s, f, valid) ==
  LET noted == [s EXCEPT !.judged = @ \cup {f},
                         !.invalid = IF valid THEN @ \ {f} ELSE @ \cup {f},
                         !.errors = IF valid THEN {} ELSE @ \cup {f},
                         !.successes = IF valid THEN {f} ELSE @ \ {f}]
      kept == [ShowErrors(noted) EXCEPT
                 !.previous[f].valid = IF s.request[f].kept THEN valid ELSE @,
                 !.request[f] = None]
  IN StopRequest(kept, f, valid)

\* onReset, around resetForm: the elements forget their requests, the containers
\* lose the error class and keep what they say; requests under way stay so, and a waiting submission too.
OnReset(s) ==
  [s EXCEPT !.judged = {}, !.invalid = {}, !.submitted = {},
            !.errors = {}, !.successes = {},
            !.previous = [f \in Field |-> IF f \in Elements
                            THEN NewForm.previous[f] ELSE @[f]],
            !.request = [f \in Field |-> IF f \in Elements /\ @[f] # None
                           THEN [@[f] EXCEPT !.kept = FALSE] ELSE @[f]],
            !.summary = {}, !.error = {}]

-----------------------------------------------------------------------------
(* Parsing.                                                                 *)

HasRules(f) == page[f].attrs # NoRules   \* data-val=true

\* Mistake: what is parsed does not depend on the selector.
ParsesEverything(fs) ==
  [f \in Field |-> ParsedRules(f, page[f], present)]

\* The options after parseElement of the inputs fs.
ParsedElements(fs) ==
  [f \in DOMAIN options \cup fs |->
     IF f \in fs THEN ParsedRules(f, page[f], present) ELSE options[f]]

\* Mistake: an attached form takes the new rules.
AttachesAgain(collected) ==
  /\ attached' = TRUE
  /\ settings' = [f \in DOMAIN collected |-> Copy(collected[f])]

\* attachValidation: a form has one validator, and the one it has stays.
AttachValidation(collected) ==
  /\ attached' = TRUE
  /\ settings' = IF settings # None THEN settings
                 ELSE [f \in DOMAIN collected |-> Copy(collected[f])]

\* parse: the inputs of fs, then the form if it has an input to validate.
Parse(fs) ==
  LET parsed == {f \in fs : HasRules(f)} IN
  /\ options' = ParsedElements(parsed)
  /\ IF \E f \in present : HasRules(f)
       THEN AttachValidation(options') ELSE UNCHANGED <<settings, attached>>

\* The document is ready.
Ready ==
  /\ ~ready
  /\ ready' = TRUE
  /\ Parse(present)
  /\ UNCHANGED <<page, loaded, present, hidden, value, form, accepted>>

\* A script parses what is in some part of the form.
ParseAgain(fs) ==
  /\ ready /\ ~form.sent
  /\ fs # {} /\ fs \subseteq present
  /\ Parse(fs)
  /\ UNCHANGED <<page, loaded, present, hidden, value, ready, form, accepted>>

\* A script parses one input, and attaches the validator or skips that.
ParseElement(f, skipAttach) ==
  /\ ready /\ ~form.sent
  /\ f \in present
  /\ options' = ParsedElements({f})
  /\ IF skipAttach THEN UNCHANGED <<settings, attached>>
     ELSE AttachValidation(options')
  /\ UNCHANGED <<page, loaded, present, hidden, value, ready, form, accepted>>

\* A script adds an input.
AddField(f) ==
  /\ ready /\ ~form.sent
  /\ f \notin present
  /\ present' = present \cup {f}
  /\ UNCHANGED <<page, loaded, hidden, value, ready, options, settings, attached,
                 form, accepted>>

\* Scripts and styles hide an input and show it.
Hide(f) ==
  /\ ready /\ ~form.sent
  /\ f \in present \ hidden /\ page[f].hides
  /\ hidden' = hidden \cup {f}
  /\ UNCHANGED <<page, loaded, present, value, ready, options, settings, attached,
                 form, accepted>>

Show(f) ==
  /\ ready /\ ~form.sent
  /\ f \in present \cap hidden
  /\ hidden' = hidden \ {f}
  /\ UNCHANGED <<page, loaded, present, value, ready, options, settings, attached,
                 form, accepted>>

-----------------------------------------------------------------------------
(* Events.  Those of a hidden input are ignored, but for the handler that   *)
(* checks the input that follows it.                                        *)

\* A handler runs and leaves everything but the validator and its marks.
Handles(s) ==
  /\ form' = s
  /\ UNCHANGED <<page, loaded, present, hidden, value, ready, options, settings,
                 attached>>

Validating == settings # None /\ ~form.sent

Type(f, text) ==
  /\ ready /\ ~form.sent
  /\ f \in present
  /\ text # value[f]
  /\ value' = [value EXCEPT ![f] = text]
  /\ UNCHANGED <<page, loaded, present, hidden, ready, options, settings, attached,
                 form, accepted>>

KeyUp(f) ==
  /\ Validating /\ f \in present \ hidden
  /\ f \in form.submitted \cup form.judged
  /\ Handles(OneElement(form, f))
  /\ UNCHANGED accepted

\* The inputs that compare themselves with f, whose handler runs first.
Followers(f) ==
  {g \in form.compared \cap present :
     "equalTo" \in DOMAIN RulesFor(g) /\ RulesFor(g)["equalTo"] = f}

\* An input is left: it is checked if it is filled or was once in error.  At
\* most one input follows another.
Blur(f) ==
  LET s == IF Followers(f) = {} THEN form
           ELSE OneElement(form, CHOOSE g \in Followers(f) : TRUE) IN
  /\ Validating /\ f \in present
  /\ Handles(IF /\ f \notin hidden /\ ~page[f].checkbox
                /\ f \in s.submitted \/ value[f] # Blank
               THEN OneElement(s, f) ELSE s)
  /\ UNCHANGED accepted

\* The user submits, with a button that may cancel the check.  A form without a
\* validator is sent as it is.
Submit(cancelSubmit) ==
  /\ ready /\ ~form.sent
  /\ Handles(IF settings = None THEN Sent(form, FALSE)
             ELSE HandleSubmit(form, cancelSubmit))
  /\ UNCHANGED accepted

\* validate(), which unobtrusive Ajax calls: it makes a validator that has no
\* rules where the form has none.
Validate ==
  /\ ready /\ ~form.sent
  /\ DOMAIN options # {} \/ attached
  /\ IF settings = None
       THEN settings' = [f \in {} |-> NoRules] /\ UNCHANGED form
       ELSE form' = WholeForm(form) /\ UNCHANGED settings
  /\ UNCHANGED <<page, loaded, present, hidden, value, ready, options, attached,
                 accepted>>

\* The reset event, then the texts become what they were.
Reset ==
  /\ ready /\ ~form.sent
  /\ form' = IF attached THEN OnReset(form) ELSE form
  /\ value' = [f \in Field |-> Blank]
  /\ UNCHANGED <<page, loaded, present, hidden, ready, options, settings, attached,
                 accepted>>

\* The server answers "remote" for f, whatever it thinks now.
Answer(f, valid) ==
  /\ Validating /\ form.request[f] # None
  /\ Handles(Answered(form, f, valid))
  /\ accepted' = [accepted EXCEPT ![f] =
                    IF valid THEN form.request[f].value ELSE None]

\* The request fails, which nothing handles.
Fail(f) ==
  /\ Validating /\ form.request[f] # None
  /\ Handles([form EXCEPT !.request[f] = None])
  /\ UNCHANGED accepted

Next ==
  \/ Ready
  \/ \E fs \in SUBSET Field : ParseAgain(fs)
  \/ \E f \in Field, skipAttach \in BOOLEAN : ParseElement(f, skipAttach)
  \/ \E f \in Field : AddField(f) \/ Hide(f) \/ Show(f)
  \/ \E f \in Field : KeyUp(f) \/ Blur(f) \/ Fail(f)
  \/ \E f \in Field : \E text \in 0 .. page[f].longest : Type(f, text)
  \/ \E cancelSubmit \in BOOLEAN : Submit(cancelSubmit)
  \/ Validate \/ Reset
  \/ \E f \in Field, valid \in BOOLEAN : Answer(f, valid)

Spec == Init /\ [][Next]_vars

-----------------------------------------------------------------------------
(* Properties.                                                              *)

\* Type invariant: the names in the validator's lists are names of inputs that
\* are there, and what is true in an object is a key of it.
FormTypeOK ==
  /\ present \in SUBSET Field /\ loaded \subseteq present
  /\ hidden \subseteq {f \in Field : page[f].hides}
  /\ \A f \in Field : value[f] \in 0 .. page[f].longest
  /\ DOMAIN options \subseteq present
  /\ settings # None => DOMAIN settings \subseteq DOMAIN options
  /\ form.errors \cup form.successes \cup form.submitted \cup form.judged
       \cup form.pending \cup form.error \cup form.summary \subseteq present
  /\ form.invalid \subseteq form.judged
  /\ form.errors \cap form.successes = {}
  /\ form.pendingRequest \in 0 .. Cardinality(Field)
  /\ attached => settings # None

\* The other input of a comparison that a script adds may not be there when the
\* comparison is parsed; the copy of the rules then lacks it.
ComparesWithLoaded(f) ==
  <<"equalto">> \in DOMAIN page[f].attrs =>
    AppendModelPrefix(page[f].attrs[<<"equalto", "other">>], GetModelPrefix(f)) \in loaded

\* What the script checks is what the attributes say: of every input that the
\* validator has rules for, and whatever text it has, the check finds valid
\* only what the attributes allow, and invalid only what they forbid or what the
\* last answer to the same request refused.  A range with one limit is left out,
\* for it is compared as a string, and so is a comparison with an input that was
\* not there yet.  It is about the adapters, the names they resolve and the
\* methods together.
VerdictFollowsMarkup ==
  settings # None =>
    \A f \in DOMAIN settings :
      LET meets == Meets(f, page[f], value[f], value)
          verdict == Verdict(form, f) IN
      ComparesWithLoaded(f) /\ RangeHasBothEnds(page[f]) =>
        /\ verdict \in {"valid", "pending"} => meets
        /\ verdict = "invalid" => ~meets \/ ~form.previous[f].valid
        /\ verdict # "none"

\* The server's answer for f is about the texts the form has now.
IsAccepted(f) ==
  LET asked == {f} \cup
        AdaptRemote(f, IF <<"remote", "additionalfields">> \in DOMAIN page[f].attrs
                         THEN page[f].attrs[<<"remote", "additionalfields">>]
                         ELSE Undefined)["remote"] IN
  /\ accepted[f] # None
  /\ \A g \in asked : g \in DOMAIN accepted[f] /\ accepted[f][g] = value[g]

\* A form that is sent, and not by a button that cancels the check, is valid as
\* it is sent: every input on the page that the validator has rules for meets its
\* attributes (but for the two exceptions above), and the server has accepted the
\* very texts of an input that it is asked about, however the answers, the edits,
\* the resets, the hiding and the failed requests fell between the submission and
\* the sending.
SentMeetsMarkup ==
  form.sent /\ ~form.cancelled /\ settings # None =>
    \A f \in DOMAIN settings \ hidden :
      /\ ComparesWithLoaded(f) /\ RangeHasBothEnds(page[f]) =>
           Meets(f, page[f], value[f], value)
      /\ <<"remote">> \in DOMAIN page[f].attrs /\ value[f] # Blank => IsAccepted(f)

\* The page shows what the validator holds: an input that no request is out for
\* has the error class on its container exactly if it is in the validator's
\* "invalid", after any order of checks, answers and resets; and a container in
\* error that takes messages has one.  One that can be hidden keeps its mark when
\* a check passes over it.
ContainersTellValidity ==
  \A f \in present :
    /\ f \notin form.pending /\ ~page[f].hides =>
         (f \in form.error <=> f \in form.invalid)
    /\ f \in form.error /\ page[f].replace => f \in form.says

\* The number of requests that a submission waits for is that of the inputs
\* that wait: it is never too small to send a form early, and never has to be
\* kept from falling below zero.
PendingIsCounted ==
  /\ form.pendingRequest = Cardinality(form.pending)
  /\ \A f \in Field : form.request[f] # None => f \in form.pending

\* A step never changes the rules of a form that has a validator: what is parsed
\* after the first attachment is collected and not checked.
RulesAreFixed == [][settings # None => settings' = settings]_vars
=============================================================================
