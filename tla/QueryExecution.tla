--------------------------- MODULE QueryExecution ---------------------------
(***************************************************************************)
(* One call of Connection.QueryContext (src/go/connection.go) driven      *)
(* against an Athena backend whose executions progress on their own.      *)
(*                                                                         *)
(* The driver side is a program counter over the suspension points of the *)
(* Go code: every remote call is one atomic step that includes the code   *)
(* that handles its answer, and the poll loop's select between the        *)
(* caller's context and the poll timer is two actions.  The timer is a    *)
(* fresh time.After(pollInterval) made when the select is entered, so it  *)
(* is never ready at entry: a cancellation that came before it fires is   *)
(* the case the select takes.                                             *)
(*                                                                         *)
(* The environment is the caller, which may cancel its context at any     *)
(* moment, and the backend, which moves the submitted execution through   *)
(* QUEUED -> RUNNING -> {SUCCEEDED, FAILED, CANCELLED} without regard to  *)
(* the driver.  Strings, identifiers and result pages are abstracted to   *)
(* the few values that change the control flow.                           *)
(***************************************************************************)
EXTENDS Naturals, FiniteSets

CONSTANTS
    StmtTypes,      \* statement types the backend reports (DDL, DML, ...)
    TimeoutLimit,   \* [StmtTypes -> Nat]: poll intervals before the client gives up
    MaxElapsed      \* the clock saturates here; bounds the poll loop

ASSUME TimeoutLimit \in [StmtTypes -> Nat]
ASSUME MaxElapsed \in Nat /\ \A t \in StmtTypes : TimeoutLimit[t] < MaxElapsed

VARIABLES
    pc,           \* where QueryContext is: idle, submit, poll, wait, done
    call,         \* the arguments and session configuration of the call
    ctxDone,      \* the caller's context has been cancelled
    remote,       \* state of the submitted execution at the backend
    reason,       \* the FAILED status carries a StateChangeReason
    stmtType,     \* statement type the backend reports for the execution
    seen,         \* state in the driver's last status response (statusResp)
    elapsed,      \* poll intervals since startOfStartQueryExecution
    qidKnown,     \* the driver holds the execution id (Start answered)
    starts,       \* StartQueryExecution requests that reached the backend
    stopCalls,    \* StopQueryExecution requests for the execution this call started
    costPrinted,  \* printCost was called for this call
    startAns,     \* how StartQueryExecution answered ("none" before)
    outcome       \* what QueryContext returned

vars == <<pc, call, ctxDone, remote, reason, stmtType, seen, elapsed, qidKnown,
          starts, stopCalls, costPrinted, startAns, outcome>>

-----------------------------------------------------------------------------
(* Values of the call.                                                    *)

\* The pseudo-command prefix "pc:<cmd> " of the query string; "none" is a
\* plain query, "unknown" any other word after "pc:".
Cmds == {"none", "get_query_id", "get_query_id_status", "stop_query_id",
         "get_driver_version", "unknown"}

\* What the query text (after the prefix is stripped) is: a read-only
\* statement, a write, or a string shaped like an execution id.
Texts == {"read", "write", "qid"}

\* config.GetWorkgroup().Name: empty, the default "primary", or another.
WGNames == {"", "primary", "custom"}

Calls == [cmd : Cmds, text : Texts, hasArgs : BOOLEAN, readOnly : BOOLEAN,
          moneyWise : BOOLEAN, wg : WGNames, createWG : BOOLEAN]

\* Execution states of athenatypes.QueryExecutionState, plus "none"
\* before anything was submitted.
Active   == {"QUEUED", "RUNNING"}
Terminal == {"SUCCEEDED", "FAILED", "CANCELLED"}

\* Values QueryContext returns: a rows object of some shape or an error.
Outcomes == {"none", "Rows", "QIDRow", "RequestIDRow", "StatusRow", "OKRow",
             "VersionRow", "ErrUnknownPC", "ErrWriteViolation",
             "ErrInvalidQuery", "ErrWG", "ErrWGDisabled", "ErrRemote",
             "ErrCtx", "ErrCanceledBackend", "ErrFailedReason",
             "ErrTimeout", "ErrStop", "Panic"}

\* Answers of the backend to the driver's calls.  The mock client
\* (src/unnamed/part_001) scripts exactly these cases.
GetWGAnswers == {"enabled", "disabled", "error"}
\* Start: the id; an error (a service ResponseError or another) with no
\* execution; a lost response after the execution started; or, as the
\* mock's FAILED_AFTER_GETQID cases, an id together with an error.
StartAnswers == {"ok", "serviceError", "transportError", "lostResponse",
                 "idWithError", "idWithServiceError"}
StartsExecution == {"ok", "lostResponse", "idWithError", "idWithServiceError"}
ServiceErrors   == {"serviceError", "idWithServiceError"}
IdWithError     == {"idWithError", "idWithServiceError"}
StopAnswers  == {"ok", "error", "lostResponse"}

-----------------------------------------------------------------------------
(* Helpers of the code that live outside src/ (utils.go).                 *)

\* isReadOnlyStatement: a keyword-prefix test; only the read text passes.
IsReadOnlyStatement(text) == text = "read"

\* IsQID: the text has the shape of an execution id.
IsQID(text) == text = "qid"

\* Mutant: the timeout never fires.
IsQueryTimeOutNever(e, t) == e > MaxElapsed

\* isQueryTimeOut: the time since the start request exceeds the limit of
\* the statement type in the last status.
IsQueryTimeOut(e, t) == e > TimeoutLimit[t]

-----------------------------------------------------------------------------
(* Driver steps.                                                          *)

Return(o) == /\ pc' = "done"
             /\ outcome' = o

\* The error the context-bound SDK call returns when it fails.
CallError == IF ctxDone THEN "ErrCtx" ELSE "ErrRemote"

\* The workgroup block of QueryContext: getWG for a custom name, then
\* CreateWGRemotely when the lookup failed and creation is allowed.
WorkgroupError(wgAns, createOK) ==
    CASE call.wg # "custom"                          -> "none"
      [] wgAns = "enabled"                           -> "none"
      [] wgAns = "disabled"                          -> "ErrWGDisabled"
      [] call.createWG /\ createOK                   -> "none"
      [] OTHER                                       -> "ErrWG"

\* The read-only check of QueryContext, on the text left after the
\* pseudo-command prefix is stripped.
WriteViolation(c) == c.readOnly /\ ~IsReadOnlyStatement(c.text)

\* QueryContext up to the start request: pseudo-command parsing, the
\* read-only check, interpolation of the arguments, the workgroup.
Invoke ==
    /\ pc = "idle"
    /\ \E wgAns \in GetWGAnswers, createOK \in BOOLEAN, argsOK \in BOOLEAN :
        LET err ==
              CASE call.cmd = "get_driver_version"  -> "VersionRow"
                [] call.cmd = "unknown"             -> "ErrUnknownPC"
                [] WriteViolation(call)             -> "ErrWriteViolation"
                [] call.hasArgs /\ ~argsOK          -> "ErrInvalidQuery"
                [] OTHER -> WorkgroupError(wgAns, createOK)
        IN IF err = "none" THEN pc' = "submit" /\ UNCHANGED outcome
                           ELSE Return(err)
    /\ UNCHANGED <<call, ctxDone, remote, reason, stmtType, seen, elapsed,
                   qidKnown, starts, stopCalls, costPrinted, startAns>>

\* A text shaped like an execution id is not submitted: the status and
\* stop pseudo-commands act on that other execution (outside the model;
\* stopCalls counts stops of this call's own execution), anything else
\* reads its cached results.
SubmitQID ==
    /\ pc = "submit"
    /\ IsQID(call.text)
    /\ \E ok \in BOOLEAN :
        CASE call.cmd = "get_query_id_status" ->
                Return(IF ok THEN "StatusRow" ELSE CallError)
                /\ UNCHANGED <<stopCalls, costPrinted>>
          [] call.cmd = "stop_query_id" ->
                Return(IF ok THEN "OKRow" ELSE CallError)
                /\ UNCHANGED <<stopCalls, costPrinted>>
          [] OTHER ->
                Return("Rows")
                /\ costPrinted' = call.moneyWise
                /\ UNCHANGED stopCalls
    /\ UNCHANGED <<call, ctxDone, remote, reason, stmtType, seen, elapsed,
                   qidKnown, starts, startAns>>

\* Mutant: the new execution recorded in the spec's transient SUBMITTED
\* state, which athenatypes does not have.
SubmitSpecState ==
    /\ pc = "submit"
    /\ ~IsQID(call.text)
    /\ \E ans \in StartAnswers, t \in StmtTypes :
        /\ remote'   = IF ans \in StartsExecution THEN "SUBMITTED" ELSE remote
        /\ stmtType' = t
        /\ starts'   = IF ans \in StartsExecution THEN starts + 1 ELSE starts
        /\ qidKnown' = (ans = "ok")
        /\ startAns' = ans
        /\ CASE ans = "ok" /\ call.cmd = "get_query_id" -> Return("QIDRow")
             [] ans = "ok" -> pc' = "poll" /\ UNCHANGED outcome
             [] ans \in ServiceErrors /\ call.cmd = "get_query_id" -> Return("RequestIDRow")
             [] OTHER -> Return(CallError)
    /\ UNCHANGED <<call, ctxDone, reason, seen, elapsed, stopCalls, costPrinted>>

\* buildExecutionParams and StartQueryExecution.  On any error the response
\* is ignored, an id in it included; for an awshttp.ResponseError
\* get_query_id returns the request id as if it were the query id.  A lost
\* response started the execution although the driver sees an error.
Submit ==
    /\ pc = "submit"
    /\ ~IsQID(call.text)
    /\ \E ans \in StartAnswers, t \in StmtTypes :
        /\ remote'   = IF ans \in StartsExecution THEN "QUEUED" ELSE remote
        /\ stmtType' = t
        /\ starts'   = IF ans \in StartsExecution THEN starts + 1 ELSE starts
        /\ qidKnown' = (ans = "ok")
        /\ startAns' = ans
        /\ CASE ans = "ok" /\ call.cmd = "get_query_id" -> Return("QIDRow")
             [] ans = "ok" -> pc' = "poll" /\ UNCHANGED outcome
             [] ans \in ServiceErrors /\ call.cmd = "get_query_id" -> Return("RequestIDRow")
             [] OTHER -> Return(CallError)
    /\ UNCHANGED <<call, ctxDone, reason, seen, elapsed, stopCalls, costPrinted>>

\* Mutant: RUNNING taken for a finished execution (a test for != QUEUED).
StatusOutcomeRunningDone(s) ==
    CASE s = "CANCELLED" -> "ErrCanceledBackend"
      [] s = "FAILED"    -> IF reason THEN "ErrFailedReason" ELSE "Panic"
      [] s \in {"SUCCEEDED", "RUNNING"} -> "Rows"
      [] OTHER           -> "none"

\* The switch on statusResp.QueryExecution.Status.State: what QueryContext
\* returns for a terminal state ("none": QUEUED and RUNNING fall through to
\* the select).  A FAILED status without a StateChangeReason dereferences
\* a nil pointer.
StatusOutcome(s) ==
    CASE s = "CANCELLED" -> "ErrCanceledBackend"
      [] s = "FAILED"    -> IF reason THEN "ErrFailedReason" ELSE "Panic"
      [] s = "SUCCEEDED" -> "Rows"
      [] OTHER           -> "none"

\* The terminal states whose case calls printCost when IsMoneyWise().
PrintsCost(s) == s \in {"CANCELLED", "SUCCEEDED"}

\* One iteration of WAITING_FOR_RESULT up to the select: GetQueryExecution
\* and the switch on the state it reports.
Poll ==
    /\ pc = "poll"
    /\ \E ok \in BOOLEAN :
        /\ seen' = IF ok THEN remote ELSE seen
        /\ CASE ~ok -> Return(CallError) /\ UNCHANGED costPrinted
             [] StatusOutcome(remote) = "none" ->
                   pc' = "wait" /\ UNCHANGED <<outcome, costPrinted>>
             [] OTHER ->
                   Return(StatusOutcome(remote))
                   /\ costPrinted' = (call.moneyWise /\ PrintsCost(remote))
    /\ UNCHANGED <<call, ctxDone, remote, reason, stmtType, elapsed, qidKnown,
                   starts, stopCalls, startAns>>

\* The ctx.Done() case of the select: StopQueryExecution with a background
\* context, then the caller's context error, or the stop call's error.
WaitCancel ==
    /\ pc = "wait"
    /\ ctxDone
    /\ \E ans \in StopAnswers :
        /\ stopCalls' = stopCalls + 1
        /\ remote' = IF ans # "error" /\ remote \in Active THEN "CANCELLED" ELSE remote
        /\ IF ans = "ok"
             THEN Return("ErrCtx") /\ costPrinted' = call.moneyWise
             ELSE Return("ErrStop") /\ UNCHANGED costPrinted
    /\ UNCHANGED <<call, ctxDone, reason, stmtType, seen, elapsed, qidKnown, starts, startAns>>

\* Mutant: the timeout tested only while the execution is RUNNING.
WaitTimerRunningOnly ==
    /\ pc = "wait"
    /\ ~ctxDone
    /\ elapsed' = IF elapsed < MaxElapsed THEN elapsed + 1 ELSE elapsed
    /\ IF seen = "RUNNING" /\ IsQueryTimeOut(elapsed', stmtType)
         THEN Return("ErrTimeout")
         ELSE pc' = "poll" /\ UNCHANGED outcome
    /\ UNCHANGED <<call, ctxDone, remote, reason, stmtType, seen, qidKnown,
                   starts, stopCalls, costPrinted, startAns>>

\* Mutant: the timer case taken although the context was done first.
WaitTimerIgnoresCtx ==
    /\ pc = "wait"
    /\ elapsed' = IF elapsed < MaxElapsed THEN elapsed + 1 ELSE elapsed
    /\ IF IsQueryTimeOut(elapsed', stmtType)
         THEN Return("ErrTimeout")
         ELSE pc' = "poll" /\ UNCHANGED outcome
    /\ UNCHANGED <<call, ctxDone, remote, reason, stmtType, seen, qidKnown,
                   starts, stopCalls, costPrinted, startAns>>

\* The time.After(pollInterval) case of the select, taken when the
\* interval ends before the caller cancels: the client-side timeout, which
\* returns without stopping the execution, or the next iteration.
WaitTimer ==
    /\ pc = "wait"
    /\ ~ctxDone
    /\ elapsed' = IF elapsed < MaxElapsed THEN elapsed + 1 ELSE elapsed
    /\ IF IsQueryTimeOut(elapsed', stmtType)
         THEN Return("ErrTimeout")
         ELSE pc' = "poll" /\ UNCHANGED outcome
    /\ UNCHANGED <<call, ctxDone, remote, reason, stmtType, seen, qidKnown,
                   starts, stopCalls, costPrinted, startAns>>

-----------------------------------------------------------------------------
(* Environment steps.                                                     *)

\* The caller cancels the context it passed to QueryContext.
CallerCancel ==
    /\ ~ctxDone
    /\ pc # "done"
    /\ ctxDone' = TRUE
    /\ UNCHANGED <<pc, call, remote, reason, stmtType, seen, elapsed,
                   qidKnown, starts, stopCalls, costPrinted, outcome, startAns>>

\* The backend moves the execution one step along its lifecycle; it can
\* cancel it on its own, and a failure may or may not carry a reason.
RemoteAdvance ==
    /\ \/ remote = "QUEUED"  /\ remote' = "RUNNING" /\ UNCHANGED reason
       \/ remote = "RUNNING" /\ remote' = "SUCCEEDED" /\ UNCHANGED reason
       \/ remote = "RUNNING" /\ remote' = "FAILED" /\ reason' \in BOOLEAN
       \/ remote \in Active  /\ remote' = "CANCELLED" /\ UNCHANGED reason
    /\ UNCHANGED <<pc, call, ctxDone, stmtType, seen, elapsed, qidKnown,
                   starts, stopCalls, costPrinted, outcome, startAns>>

\* The call has returned and the backend has nothing left to do.
Finished ==
    /\ pc = "done"
    /\ remote \notin Active
    /\ UNCHANGED vars

-----------------------------------------------------------------------------

Init ==
    /\ pc = "idle"
    /\ call \in Calls
    /\ ctxDone = FALSE
    /\ remote = "none"
    /\ reason = FALSE
    /\ stmtType = CHOOSE t \in StmtTypes : TRUE
    /\ seen = "none"
    /\ elapsed = 0
    /\ qidKnown = FALSE
    /\ starts = 0
    /\ stopCalls = 0
    /\ costPrinted = FALSE
    /\ startAns = "none"
    /\ outcome = "none"

Driver == Invoke \/ SubmitQID \/ Submit \/ Poll \/ WaitCancel \/ WaitTimer

Next == Driver \/ CallerCancel \/ RemoteAdvance \/ Finished

\* The goroutine running QueryContext is never starved and its timer
\* always fires; the caller and the backend owe the driver nothing.
Spec == Init /\ [][Next]_vars /\ WF_vars(Driver)

-----------------------------------------------------------------------------
(* Properties.                                                            *)

TypeOK ==
    /\ pc \in {"idle", "submit", "poll", "wait", "done"}
    /\ call \in Calls
    /\ ctxDone \in BOOLEAN
    /\ remote \in {"none"} \cup Active \cup Terminal
    /\ reason \in BOOLEAN
    /\ stmtType \in StmtTypes
    /\ seen \in {"none"} \cup Active \cup Terminal
    /\ elapsed \in 0..MaxElapsed
    /\ qidKnown \in BOOLEAN
    /\ starts \in Nat
    /\ stopCalls \in Nat
    /\ costPrinted \in BOOLEAN
    /\ startAns \in {"none"} \cup StartAnswers
    /\ outcome \in Outcomes

\* The poll loop is bounded by the client-side timeout: whatever the backend
\* does, WAITING_FOR_RESULT never runs more than one poll interval past the
\* limit of the execution's statement type (isQueryTimeOut after time.After).
PollBounded == elapsed <= TimeoutLimit[stmtType] + 1

\* What QueryContext returns for a submitted execution agrees with the
\* backend: rows only for a SUCCEEDED execution, the failure reason only
\* for a FAILED one, context.Canceled from the switch only for a CANCELLED
\* one, and a timeout only while the last status was QUEUED or RUNNING and
\* without a StopQueryExecution (the timeout leaves the query to Athena).
OutcomeMatchesExecution ==
    pc = "done" /\ qidKnown =>
        /\ outcome = "Rows"               => remote = "SUCCEEDED"
        /\ outcome = "ErrFailedReason"    => remote = "FAILED"
        /\ outcome = "ErrCanceledBackend" => remote = "CANCELLED"
        /\ outcome = "ErrTimeout"         => seen \in Active /\ stopCalls = 0

\* Every call of QueryContext returns, even when the backend never finishes
\* the execution and the caller never cancels: the poll timer always fires
\* and isQueryTimeOut eventually holds.
QueryContextReturns == <>(pc = "done")

\* Spec 8 (scenario): a caller that cancels while the driver waits between
\* polls of an execution causes exactly one StopQueryExecution and gets a
\* cancellation (or the stop's own error), never a timeout: the select in
\* WAITING_FOR_RESULT takes ctx.Done() over the poll timer it raced.
CancelInWaitStops ==
    (pc = "wait" /\ ctxDone)
        ~> (pc = "done" /\ stopCalls = 1 /\ outcome \in {"ErrCtx", "ErrStop"})

-----------------------------------------------------------------------------
(* What the spec says and the code does not do (checked for violation).   *)

\* Spec 4.5: when the caller's cancellation fires before a terminal state,
\* the driver issues StopQueryExecution.  A call that returns the context's
\* error for an execution whose id it holds has therefore stopped it.
CancelStopsExecution == outcome = "ErrCtx" /\ qidKnown => stopCalls > 0

\* Spec 3: the failure reason of a FAILED execution is optional; the
\* driver reports the failure as an error and never crashes the caller.
NoPanic == outcome # "Panic"

\* Spec 7(f): when the caller cancels and the stop succeeds, the caller's
\* cancellation is reported because the execution was stopped; a write the
\* caller is told was cancelled has not been executed.
CancelMeansNotExecuted ==
    outcome = "ErrCtx" /\ stopCalls > 0 => remote # "SUCCEEDED"

\* Spec 6: pc:get_query_id_status and pc:stop_query_id act on an existing
\* execution; they never start a new one.
PseudoCommandNeverSubmits ==
    call.cmd \in {"get_query_id_status", "stop_query_id"} => starts = 0

\* Spec 4.5 step 6: with cost accounting on, the cost is emitted at every
\* terminal transition, a FAILED execution included.
CostAtEveryTerminal ==
    /\ pc = "done"
    /\ call.moneyWise
    /\ \/ outcome \in {"Rows", "ErrCanceledBackend", "ErrFailedReason"}
       \/ outcome = "ErrCtx" /\ stopCalls > 0
    => costPrinted

\* Spec 4.5 step 3: when the start request fails after the service has
\* returned an execution id, that id stays discoverable for the caller:
\* the driver keeps the id of the execution it started, also under
\* pc:get_query_id, whose failure path returns a request id instead.
IdentifierKept ==
    pc = "done" /\ call.cmd \in {"none", "get_query_id"} /\ startAns \in IdWithError
        => qidKnown

=============================================================================
