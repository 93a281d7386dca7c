----------------------------- MODULE ReadBudget -----------------------------
(***************************************************************************)
(* The byte budget of a Read (kdna-read/src/budget.js, budget-decision.js  *)
(* and the end of prepareRead in pipeline.js), with callers that ask again *)
(* for the figure they were told (the loop of python-sdk/tests/scenarios). *)
(*                                                                         *)
(* An envelope carries its own counts, so its length depends on how those  *)
(* counts are printed: required_bytes and actual_bytes are padded, while   *)
(* the limit the caller asked for and the serials that name the receipt    *)
(* and the handles are not.  The serial is shared by all Reads of the      *)
(* process.  All the rest of an envelope is its base length, what the Host *)
(* names in it included: a caller that asks again is taken to meet the     *)
(* same asset, scope and Host, as that loop does.                          *)
(***************************************************************************)
EXTENDS Naturals, FiniteSets

CONSTANTS
  Readers,
  Budgets,       \* budget_bytes of first attempts
  Bodies,        \* what is asked for: the base length, the handles it mints, and where ids are
                 \* printed, as pairs of a serial, counted from the first, and a place
  Serials,       \* where earlier Reads left the serial
  RejectedBase,  \* base length of a rejection
  Codes,         \* semantic failures
  Padding,       \* width of a padded count
  MaxWidth,      \* bound: no number printed has more digits
  MaxSerial,     \* bound on receiptSequence
  MaxAttempts    \* bound on the attempts of one caller

Insufficient == "READ_BUDGET_INSUFFICIENT"

ASSUME BudgetAssumption ==
  /\ Budgets \subseteq Nat
  /\ Bodies \subseteq [base: Nat, handles: Nat, ids: SUBSET (Nat \X Nat)]
  /\ RejectedBase \in Nat /\ Padding \in Nat \ {0} /\ MaxWidth \in Nat \ {0}
  /\ MaxSerial \in Nat /\ Serials \subseteq 0..MaxSerial
  /\ MaxAttempts \in Nat \ {0}
  /\ Codes \cap {Insufficient, "none", "ready"} = {}

\* Only serials of the body's handles and of its receipt are printed, each in a few places.
ASSUME IdsAssumption ==
  \A b \in Bodies : IsFiniteSet(b.ids) /\ \A id \in b.ids : id[1] \in 1..b.handles + 1

VARIABLES
  serial,    \* receiptSequence
  body,      \* what each caller asks for
  budget,    \* budget_bytes of each caller's latest attempt
  attempts,
  found,     \* what the latest attempt found before its budget was looked at:
             \* "none" while it runs, "ready" or a semantic failure
  answer,    \* how the latest attempt that ended was answered
  opening    \* history: the first budget, and the serial it met

budgetVars == <<serial, body, budget, attempts, found, answer, opening>>

Unanswered == [kind |-> "none", code |-> "none", limit |-> 0, required |-> 0, actual |-> 0,
               length |-> 0, serial |-> 0]
Answers == [kind: {"none", "ready", "rejected", "control"},
            code: Codes \cup {Insufficient, "none"},
            limit: Nat, required: Nat, actual: Nat, length: Nat, serial: 0..MaxSerial]

BudgetTypeOK ==
  /\ serial \in 0..MaxSerial
  /\ body \in [Readers -> Bodies]
  /\ budget \in [Readers -> Nat]
  /\ attempts \in [Readers -> 0..MaxAttempts]
  /\ found \in [Readers -> Codes \cup {"none", "ready"}]
  /\ answer \in [Readers -> Answers]
  /\ opening \in [budget: [Readers -> Budgets], serial: 0..MaxSerial]

BudgetInit ==
  /\ serial \in Serials
  /\ body \in [Readers -> Bodies]
  /\ budget \in [Readers -> Budgets]
  /\ attempts = [r \in Readers |-> 0]
  /\ found = [r \in Readers |-> "none"]
  /\ answer = [r \in Readers |-> Unanswered]
  /\ opening = [budget |-> budget, serial |-> serial]

-----------------------------------------------------------------------------

\* Digits of a number printed without padding.
Width(n) == 1 + Cardinality({d \in 1..MaxWidth : n >= 10^d})

\* Fault: counts are printed as they are.
FixedUnpadded(n) == Width(n)

\* Width of a count printed by fixed().
Fixed(n) == Padding

\* Length of an envelope with these counts in it.
Length(bare, limit, required, actual) == bare + Width(limit) + Fixed(required) + Fixed(actual)

\* A ready envelope names its handles and its receipt by consecutive serials.  The id of
\* a handle is printed with the handle, in its descriptor and in the omissions it lifts,
\* that of the receipt once: a digit each time, and one more for every power of ten reached.
ReadyBare(b, first) ==
  b.base + Cardinality(b.ids)
    + Cardinality({p \in b.ids \X (1..MaxWidth) : first + p[1][1] >= 10^p[2]})

\* Fault: the figure told is the length of the rejection that tells it.
RequiredByRejection(code, success, rejection) == rejection

\* The figure a rejection tells: what the body would have needed, unless something
\* failed before.
Required(code, success, rejection) == IF code = "none" THEN success ELSE rejection

\* The first failure stays the cause, whether or not its rejection fits.
Cause(code, fits) == IF code = "none" THEN Insufficient ELSE code

\* Measured with the counts zeroed; a rejection already repeats the success it refuses.
Measure(bare, limit, required) == Length(bare, limit, required, 0)

\* finish and decideBudget, for an envelope of this bare length or a failure code.
Finish(limit, code, bare, first) ==
  LET success == Measure(bare, limit, 0)
      rejection == Measure(RejectedBase, limit, IF code = "none" THEN success ELSE 0)
      required == Required(code, success, rejection)
      say(kind, cause, need, actual, length) ==
        [kind |-> kind, code |-> cause, limit |-> limit, required |-> need,
         actual |-> actual, length |-> length, serial |-> first]
  IN  IF code = "none" /\ success <= limit
      THEN say("ready", "none", success, success, Length(bare, limit, success, success))
      ELSE IF rejection <= limit
      THEN say("rejected", Cause(code, TRUE), required, rejection,
               Length(RejectedBase, limit, required, rejection))
      ELSE say("control", Cause(code, FALSE), 0, 0, 0)

Attempt(r, outcome) ==
  /\ found[r] = "none" /\ attempts[r] < MaxAttempts
  /\ found' = [found EXCEPT ![r] = outcome]
  /\ attempts' = [attempts EXCEPT ![r] = @ + 1]
  /\ UNCHANGED <<body, budget, opening>>

\* The body is complete: handles and receipt take their serials in one turn, then the
\* budget decides.
Prepare(r) ==
  /\ Attempt(r, "ready")
  /\ serial + body[r].handles + 1 <= MaxSerial
  /\ serial' = serial + body[r].handles + 1
  /\ answer' = [answer EXCEPT ![r] =
       Finish(budget[r], "none", ReadyBare(body[r], serial), serial)]

\* Something else failed; the serials of handles minted before stay taken.
Fail(r) ==
  \E code \in Codes, minted \in 0..body[r].handles :
    /\ Attempt(r, code)
    /\ serial + minted <= MaxSerial
    /\ serial' = serial + minted
    /\ answer' = [answer EXCEPT ![r] = Finish(budget[r], code, 0, serial)]

\* The caller was refused for its budget, and asks for exactly the figure it was told.
Retry(r) ==
  /\ found[r] # "none"
  /\ answer[r].kind = "rejected" /\ answer[r].code = Insufficient
  /\ budget' = [budget EXCEPT ![r] = answer[r].required]
  /\ found' = [found EXCEPT ![r] = "none"]
  /\ UNCHANGED <<serial, body, attempts, answer, opening>>

BudgetNext == \E r \in Readers : Prepare(r) \/ Fail(r) \/ Retry(r)

BudgetSpec == BudgetInit /\ [][BudgetNext]_budgetVars

-----------------------------------------------------------------------------
(* Properties                                                               *)

\* "budget_bytes limits the complete final JCS read_envelope" (packages/kdna-read/README.md:74):
\* what is sent has, with its own counts in it, exactly the length it states, and no
\* more than the caller allowed.
CountsAreHonest ==
  \A r \in Readers :
    answer[r].kind \in {"ready", "rejected"} =>
      answer[r].length = answer[r].actual /\ answer[r].length <= answer[r].limit

\* The budget never hides why a Read failed: only a Read that would have succeeded is
\* told that its budget was insufficient, however small that budget was.
FirstCauseIsNamed ==
  \A r \in Readers :
    found[r] # "none" /\ answer[r].kind # "ready" =>
      answer[r].code = (IF found[r] = "ready" THEN Insufficient ELSE found[r])

\* What holds of every answer a Reader has.
AnswerInvariant == BudgetTypeOK /\ CountsAreHonest /\ FirstCauseIsNamed

\* A caller that asks for the figure it was told is refused for its budget again only if
\* a number in the envelope got wider meanwhile: the limit itself, or a serial that other
\* Reads, or its own first attempt, moved.
ToldFigureIsEnough ==
  [][\A r \in Readers :
       /\ found[r] = "none" /\ found'[r] = "ready"
       /\ answer[r].kind = "rejected" /\ answer'[r].code = Insufficient
       => \/ Width(budget[r]) > Width(answer[r].limit)
          \/ Width(serial') > Width(answer[r].serial + 1)]_budgetVars

\* So a caller is refused at most once for a digit its limit gained since it began, twice
\* for a digit the serials gained (an attempt may straddle it), and once more: its
\* attempts are few, whatever the size of the asset or of the first budget.
RetriesConverge ==
  \A r \in Readers :
    attempts[r] <= 2 + (Width(budget[r]) - Width(opening.budget[r]))
                     + 2 * (Width(serial) - Width(opening.serial))
=============================================================================
