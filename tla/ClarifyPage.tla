----------------------------- MODULE ClarifyPage ----------------------------
(***************************************************************************)
(* The two widgets that answer a suspended run from the chat: the question *)
(* (components/ui/clarification-question.tsx with its inputs) and the      *)
(* database engine selector (registry/components/                          *)
(* database_engine_selector.tsx).  Both send their answer with             *)
(* submitClarification, under an idempotency key and with a timeout.       *)
(*                                                                         *)
(* The controller behind the call wants the workspace in the query, and    *)
(* submitClarification sends none (submit.ts:19): every call that arrives  *)
(* is refused, and the run, with the question that waits, never sees one.  *)
(* What the run does with an answer is modelled in RunLifecycle.           *)
(***************************************************************************)
EXTENDS Naturals, Sequences, SequencesExt

CONSTANT MaxPayloads   \* bound: payloads that the engine selector is given

ASSUME ClarifyPageAssumption == MaxPayloads \in Nat \ {0}

VARIABLES ask,   \* the widget
          sent   \* history: the calls it has made, what payloads offered so far

clarifyVars == <<ask, sent>>

\* Answers and selections are tuples of strings, so that any two compare.
Null    == <<"null">>
NoCall  == [key |-> <<>>, answer |-> <<>>, at |-> "none"]
Options == {"v", "w"}

-----------------------------------------------------------------------------
(* The question.                                                           *)

initialValue(input) == IF input \in {"boolean", "confirmation"} THEN Null ELSE <<>>

\* An answer of blanks only is empty once it is trimmed.
isAnswerValid(value) ==
  IF ask.input \in {"boolean", "confirmation"} THEN value # Null
  ELSE ask.required => value \notin {<<>>, <<"blank">>}

\* What each input passes to onChange; a confirmation has no input.
Inputs ==
  CASE ask.input = "text"         -> {<<>>, <<"blank">>, <<"v">>, <<"w">>}
    [] ask.input = "select"       -> {<<o>> : o \in Options}
    [] ask.input = "multi_select" ->
         {SelectSeq(ask.value, LAMBDA x : x # o) : o \in Options}
           \cup {Append(ask.value, o) : o \in Options \ ToSet(ask.value)}
    [] ask.input = "boolean"      -> {<<"true">>, <<"false">>}
    [] OTHER                      -> {}

handleChange ==
  /\ ask.kind = "question" /\ ask.phase = "idle"
  /\ \E v \in Inputs \ {ask.value} : ask' = [ask EXCEPT !.value = v]
  /\ UNCHANGED sent

-----------------------------------------------------------------------------
(* Submitting, the same in both widgets: the key and the answer of the     *)
(* call are those of the closure, and the widget waits for it to settle.   *)

Send(key, answer) ==
  /\ ask' = [ask EXCEPT !.phase = "pending", !.last = answer,
                        !.call = [key |-> key, answer |-> answer, at |-> "token"]]
  /\ sent' = [sent EXCEPT !.calls = @ \cup {[key |-> key, answer |-> answer]}]

\* answer ?? value.
submit(answer) ==
  LET finalValue == IF answer = Null THEN ask.value ELSE answer
  IN  /\ isAnswerValid(finalValue)
      /\ Send(<<"question">>, finalValue)

SubmitValue ==
  /\ ask.kind = "question" /\ ask.phase = "idle" /\ ask.input # "confirmation"
  /\ submit(Null)

\* "Confirm" and "Cancel".
ConfirmOrCancel(choice) ==
  /\ ask.kind = "question" /\ ask.phase = "idle" /\ ask.input = "confirmation"
  /\ submit(choice)

\* The error view has this button only.
RetryAnswer ==
  /\ ask.kind = "question" /\ ask.phase = "error"
  /\ submit(ask.last)

-----------------------------------------------------------------------------
(* The engine selector.                                                    *)

Engines    == {"postgres", "mysql"}
CUSTOM_KEY == "__custom__"
NoText     == ""

\* A payload: the version of every engine that it says is supported.
Payloads     == [Engines -> {NoText, "1", "2"}]
Supported(d) == {e \in Engines : d[e] # NoText}
Offered(d)   == {<<e, d[e], "listed">> : e \in Supported(d)}

\* safeParse of the data in the registry entry point, then the first render.
initialSelection(supported, recommended, current) ==
  IF current # NoText /\ current \notin Engines THEN [key |-> CUSTOM_KEY, custom |-> current]
  ELSE IF current \in supported                    THEN [key |-> current, custom |-> NoText]
  ELSE [key |-> IF recommended \in supported THEN recommended ELSE NoText, custom |-> NoText]

locked == ask.phase \in {"pending", "done"}
Enabled(e)  == IF e \in Supported(ask.data) THEN <<e>> ELSE <<>>
enabledKeys == Enabled("postgres") \o Enabled("mysql") \o <<CUSTOM_KEY>>
customInvalid == ask.custom \in {NoText, "blank"}

\* <<engine, version, custom>>; a custom engine has no version.
currentSelection ==
  CASE ask.key = CUSTOM_KEY /\ ~customInvalid -> <<ask.custom, NoText, "custom">>
    [] ask.key \in Supported(ask.data)         -> <<ask.key, ask.data[ask.key], "listed">>
    [] OTHER                                   -> Null

choose(key) ==
  /\ ~locked
  /\ ask' = [ask EXCEPT !.key = key, !.phase = IF @ = "error" THEN "idle" ELSE @]
  /\ UNCHANGED sent

ChooseRadio ==
  /\ ask.kind = "engine" /\ \E key \in ToSet(enabledKeys) \ {ask.key} : choose(key)

\* A key pressed on the i-th of the enabled radios.
handleKeyDown(i, pressed) ==
  LET n == Len(enabledKeys)
  IN  choose(enabledKeys[CASE pressed = "next"     -> (i % n) + 1
                           [] pressed = "previous" -> ((i + n - 2) % n) + 1
                           [] pressed = "Home"     -> 1
                           [] OTHER                -> n])

PressKey ==
  /\ ask.kind = "engine"
  /\ \E i \in DOMAIN enabledKeys, pressed \in {"next", "previous", "Home", "End"} :
       handleKeyDown(i, pressed)

\* The custom name may be that of an engine on the list.  Typing does not
\* leave the error phase.
TypeCustom ==
  /\ ask.kind = "engine" /\ ask.key = CUSTOM_KEY /\ ask.phase \in {"idle", "error"}
  /\ \E t \in {"blank", "mysql"} \ {ask.custom} : ask' = [ask EXCEPT !.custom = t]
  /\ UNCHANGED sent

\* Mutant of engineSelectionQuestionId: the choice is no part of the key.
engineSelectionQuestionIdFixed(selection) == <<"database_engine">>

engineSelectionQuestionId(selection) == <<"database_engine", selection[1], selection[2]>>

\* "Confirm engine" sends what is selected now, as the payload in view offers
\* it; "Retry" what was sent last, offered still or not.
ConfirmEngine ==
  /\ ask.kind = "engine" /\ ask.phase \in {"idle", "error"} /\ ask.key # NoText
  /\ currentSelection # Null
  /\ Send(engineSelectionQuestionId(currentSelection), currentSelection)

RetryEngine ==
  /\ ask.kind = "engine" /\ ask.phase = "error"
  /\ Send(engineSelectionQuestionId(ask.last), ask.last)

NewWidget ==
  [kind |-> "question", input |-> "text", required |-> TRUE, value |-> <<>>,
   data |-> [e \in Engines |-> NoText], key |-> NoText, custom |-> NoText,
   phase |-> "idle", last |-> Null, call |-> NoCall]

NewSelector(data, recommended, current) ==
  LET initial == initialSelection(Supported(data), recommended, current)
  IN  [NewWidget EXCEPT !.kind = "engine", !.data = data,
                        !.key = initial.key, !.custom = initial.custom]

Recommendations == {NoText, "mysql"}
Selections      == {NoText, "postgres", "other"}

\* RegistryRenderer passes other data to the selector, which stays mounted
\* and keeps what is selected and what was sent; or, after data that could not
\* be parsed, mounts a new one.
ReplacePayload ==
  /\ ask.kind = "engine" /\ sent.payloads < MaxPayloads
  /\ \E data \in Payloads :
       /\ sent' = [sent EXCEPT !.payloads = @ + 1, !.offered = @ \cup Offered(data)]
       /\ \/ ask' = [ask EXCEPT !.data = data]
          \/ \E recommended \in Recommendations, current \in Selections :
               ask' = NewSelector(data, recommended, current)

-----------------------------------------------------------------------------
(* submitClarification and the controller.                                 *)

Settle(at) == ask' = [ask EXCEPT !.call.at = at] /\ UNCHANGED sent

TokenGiven   == ask.call.at = "token" /\ Settle("sent")
TokenMissing == ask.call.at = "token" /\ Settle("failed")

\* No workspaceId in the query: the pipe answers 400 before clarifyRun.
clarify == ask.call.at = "sent" /\ Settle("refused")

\* AbortSignal.timeout, or a transport error; the answer may be lost.
TimesOut == ask.call.at \in {"sent", "refused"} /\ Settle("failed")

\* Mutant of submitClarification: the status of the response is not looked at.
submitClarificationBlind ==
  /\ ask.call.at \in {"refused", "failed"}
  /\ ask' = [ask EXCEPT !.phase = IF ask.call.at = "refused" THEN "done" ELSE "error",
                        !.call = NoCall]
  /\ UNCHANGED sent

\* The promise settles: neither a refusal nor a failure is an answer saved,
\* and the catch block shows the error, with Retry.
submitClarification ==
  /\ ask.call.at \in {"refused", "failed"}
  /\ ask' = [ask EXCEPT !.phase = "error", !.call = NoCall]
  /\ UNCHANGED sent

-----------------------------------------------------------------------------
ClarifyInit ==
  /\ \/ \E input \in {"text", "select", "multi_select", "boolean", "confirmation"},
           required \in BOOLEAN :
          ask = [NewWidget EXCEPT !.input = input, !.required = required,
                                  !.value = initialValue(input)]
     \/ \E data \in Payloads, recommended \in Recommendations, current \in Selections :
          ask = NewSelector(data, recommended, current)
  /\ sent = [calls |-> {}, offered |-> Offered(ask.data), payloads |-> 1]

\* Clerk answers, the timer of the request fires, and promises settle; the
\* orchestrator owes no answer.
ClarifyReplies == TokenGiven \/ TokenMissing \/ TimesOut \/ submitClarification

ClarifyNext ==
  \/ ClarifyReplies \/ clarify \/ ReplacePayload
  \/ handleChange \/ SubmitValue \/ RetryAnswer
  \/ \E choice \in {<<"true">>, <<"false">>} : ConfirmOrCancel(choice)
  \/ ChooseRadio \/ PressKey \/ TypeCustom \/ ConfirmEngine \/ RetryEngine

ClarifyTypeOK ==
  /\ ask.data \in Payloads
  /\ ask.call.at \in {"none", "token", "sent", "refused", "failed"}
  /\ ask.phase = "pending" <=> ask.call # NoCall
  /\ sent.payloads \in 1..MaxPayloads

-----------------------------------------------------------------------------
(* Properties.                                                             *)

\* "Answer saved" and "Engine confirmed: ..." are claims about the run, and no
\* call of these widgets reaches it: neither is ever shown, whatever is
\* refused, lost or repeated.
NeverConfirmed == ask.phase \in {"idle", "pending", "error"}

\* "a retry reuses its idempotency key and a different choice gets a new one"
\* (engineSelectionQuestionId, submit.ts): over all the calls of a widget,
\* through payloads that replace the version or the whole widget, one key
\* stands for one answer and one answer has one key.
KeyNamesAnswer ==
  \A c, d \in sent.calls : c.key = d.key <=> c.answer = d.answer

\* No mouse, no key and no payload selects an engine that the provider was
\* never said to support, and every engine sent was offered with the version
\* it is sent with.  It need not be offered still: the selector keeps its
\* choice under a payload that withdraws it, and Retry repeats it.
EngineOffered ==
  ask.kind = "engine" =>
    /\ ask.key \in {o[1] : o \in sent.offered} \cup {NoText, CUSTOM_KEY}
    /\ \A c \in sent.calls : c.answer[3] = "custom" \/ c.answer \in sent.offered

\* A submission ends in an error with a way to retry, even when the
\* orchestrator never answers.
SubmissionEnds == ask.phase = "pending" ~> ask.phase # "pending"

\* No answer is shown as saved, every call has the key of its answer, and every
\* engine sent was offered, over refusals, timeouts, retries and new payloads.
ClarifyPageInv == ClarifyTypeOK /\ NeverConfirmed /\ KeyNamesAnswer /\ EngineOffered
=============================================================================
