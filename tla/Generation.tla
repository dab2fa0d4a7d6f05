------------------------------- MODULE Generation -------------------------------
(***************************************************************************)
(* workflow_generate and security_generate: the AI is asked for a plan and *)
(* asked again, told of what was wrong, up to MaxAttempts times; the user  *)
(* is shown the answer and may approve it, or a text of his own.  Of a     *)
(* plan is kept how many tests it has and whether it is valid otherwise.   *)
(***************************************************************************)
EXTENDS Naturals

CONSTANTS MaxAttempts,   \* MAX_GENERATION_ATTEMPTS, MAX_SECURITY_ATTEMPTS
          MaxTests,      \* most tests a valid plan has
          MaxAdded       \* tests security_generate may add itself

ASSUME GenerationAssumption ==
  MaxAttempts \in Nat \ {0} /\ MaxTests \in Nat \ {0} /\ MaxAdded \in Nat

VARIABLES kind,     \* workflow or security
          genStep,  \* ask, answer, preview, approve, done
          asked,    \* attempts
          hint,     \* what the next prompt says of the last answer, or "none"
          preview,  \* [plan, errors]: what the user is shown
          savedPlan,\* the plan saved, or None
          history   \* history: the answers

genVars == <<kind, genStep, asked, hint, preview, savedPlan, history>>

None    == [form |-> "none", tests |-> 0, sound |-> FALSE]
PlanForms   == [form : {"plan"}, tests : 0..(MaxTests + 1), sound : BOOLEAN]
Answers == PlanForms \cup {[None EXCEPT !.form = "no json"], [None EXCEPT !.form = "no schema"]}

\* validate, validate_plan
valid(plan) == plan.form = "plan" /\ plan.tests \in 1..MaxTests /\ plan.sound
errors(plan) == IF valid(plan) THEN "none" ELSE IF plan.form = "plan" THEN "invalid" ELSE plan.form

GenInit ==
  /\ kind \in {"workflow", "security"} /\ genStep = "ask" /\ asked = 0 /\ hint = "none"
  /\ preview = [plan |-> None, errors |-> "none"] /\ savedPlan = None /\ history = {}

\* A call of the AI that fails ends the generation.
AskModel ==
  /\ genStep = "ask" /\ asked' = asked + 1 /\ genStep' \in {"answer", "done"}
  /\ UNCHANGED <<kind, hint, preview, savedPlan, history>>

last_attempt == asked >= MaxAttempts

\* security_generate adds tests of its own to the plan it has validated.
added(plan) ==
  IF kind = "security" /\ plan.form = "plan"
  THEN {[plan EXCEPT !.tests = @ + n] : n \in 0..MaxAdded} ELSE {plan}

\* The answer is read and validated; with errors it is asked for again, while asked last.
Answer ==
  /\ genStep = "answer"
  /\ \E plan \in Answers :
       /\ history' = history \cup {plan}
       /\ IF errors(plan) = "none" \/ last_attempt
          THEN /\ genStep' = "preview" /\ hint' = hint
               /\ \E shown \in added(plan) : preview' = [plan |-> shown, errors |-> errors(plan)]
          ELSE genStep' = "ask" /\ hint' = errors(plan) /\ UNCHANGED preview
  /\ UNCHANGED <<kind, asked, savedPlan>>

\* workflow_approve, security_approve: the text the browser sends, of the preview or
\* edited, is validated again.
Approve ==
  /\ genStep = "preview"
  /\ \E plan \in {preview.plan} \cup Answers : savedPlan' = IF valid(plan) THEN plan ELSE None
  /\ genStep' = "done" /\ UNCHANGED <<kind, asked, hint, preview, history>>

GenNext == AskModel \/ Answer \/ Approve
GenSpec == GenInit /\ [][GenNext]_genVars

-------------------------------------------------------------------------------
(* Properties *)

GenTypeOK ==
  /\ asked \in 0..MaxAttempts /\ hint \in {"none", "no json", "no schema", "invalid"}
  /\ genStep \in {"ask", "answer", "preview", "done"}

\* Only valid plans are saved, whatever the AI or the browser sent.
OnlyValidSaved == savedPlan # None => valid(savedPlan)

\* workflow_service.rs:80, "final validation errors (empty = ready to approve)": a workflow
\* shown without errors is accepted as it is.  A security plan may be refused for the tests
\* security_generate has added (security_service.rs:171-231).
WorkflowReadyIsApprovable == genStep = "preview" /\ kind = "workflow" /\ preview.errors = "none" => valid(preview.plan)

\* The user is shown errors only after MaxAttempts answers, and the AI is told of the
\* error of an answer it gave.
ErrorsOnlyAtLast ==
  /\ genStep = "preview" /\ preview.errors # "none" => asked = MaxAttempts
  /\ hint # "none" => \E plan \in history : errors(plan) = hint

\* Nothing invalid is saved, errors are shown after the last attempt only, and a workflow shown without
\* errors would not be refused.
GenerationKept == GenTypeOK /\ OnlyValidSaved /\ WorkflowReadyIsApprovable /\ ErrorsOnlyAtLast
===============================================================================
