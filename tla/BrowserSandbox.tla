--------------------------- MODULE BrowserSandbox ---------------------------
(***************************************************************************)
(* The browser behind runs executed in mode local.  run-execute.ts:12      *)
(* keeps one PlaywrightSandbox (src/enterprise/playwright-sandbox.ts) for  *)
(* the process; every plan execution, executeDeterministicPlanAsync of     *)
(* src/agent/executor-async.ts, opens sessions on it and, when it ends,    *)
(* closes its own sessions and shuts the whole sandbox down.  Nothing      *)
(* keeps two runs from executing at once, so launches, sessions and        *)
(* shutdowns of several executions interleave at every await.              *)
(*                                                                         *)
(* An execution here is one call of executeDeterministicPlanAsync; its     *)
(* browser steps are abstracted to their session id, the other steps touch *)
(* no shared state.  Playwright is external: a call on it may fail at any  *)
(* time and must fail on a browser or a context that is gone; a close      *)
(* always closes.  Page and context of a session are created and closed    *)
(* together by the code and are one context here.                          *)
(***************************************************************************)
EXTENDS Naturals

CONSTANTS Execution,        \* plan executions
          SessionId,        \* sessionId of a sandbox step
          MaxSteps,         \* sandbox steps of one plan (options.maxSteps)
          None              \* undefined

ASSUME MaxStepsAssumption == MaxSteps \in Nat

VARIABLES browser,          \* the field this.browser
          sessions,         \* the field this.sessions
          browsers,         \* browser processes running
          contexts,         \* contexts not closed
          exec,             \* exec[p]: where the execution stands
          overlaps          \* history: pairs that were in flight together

vars == << browser, sessions, browsers, contexts, exec, overlaps >>

(* A browser or a context is named by the step that made it.               *)
Browser == [by : Execution, step : 0..MaxSteps]
Context == [by : Execution, step : 0..MaxSteps, browser : Browser]

ASSUME NoneAssumption == None \notin Browser \cup Context

NewBrowser(p) == [by |-> p, step |-> exec[p].step]
NewContext(p, b) == [by |-> p, step |-> exec[p].step, browser |-> b]

Usable(c) == c \in contexts /\ c.browser \in browsers

(* at: the await the execution is suspended in; handles: its own sessions  *)
(* map; id: session of the current step; on: the browser or context the    *)
(* await is about; ahead: what its shutdown's Map iterator has yet to      *)
(* reach.                                                                  *)
Fresh == [at |-> "idle", step |-> 0, handles |-> {}, id |-> None,
          on |-> None, ahead |-> {}]

InFlight(p) == exec[p].at \notin {"idle", "done"}
InFlightSet == {p \in Execution : InFlight(p)}

Occupied == {s \in SessionId : sessions[s] # None}

Goto(p, at, on) == [exec EXCEPT ![p].at = at, ![p].on = on]

(* A Map iterator sees entries inserted behind it and skips deleted ones;  *)
(* overwriting a key moves nothing.                                        *)
IteratorsInsert(e, s) ==
    [q \in Execution |-> IF e[q].at \in {"sweep", "sweepClosing"}
                         THEN [e[q] EXCEPT !.ahead = @ \cup {s}] ELSE e[q]]

(* Mutant of IteratorsDelete: iterating over a copy of the keys.           *)
IteratorsDeleteIgnored(e, S) == e

IteratorsDelete(e, S) ==
    [q \in Execution |-> [e[q] EXCEPT !.ahead = @ \ S]]

Init ==
    /\ browser = None
    /\ sessions = [s \in SessionId |-> None]
    /\ browsers = {}
    /\ contexts = {}
    /\ exec = [p \in Execution |-> Fresh]
    /\ overlaps = {}

Begin(p) ==
    /\ exec[p].at = "idle"
    /\ exec' = Goto(p, "stepping", None)
    /\ overlaps' = overlaps \cup (InFlightSet \X {p}) \cup ({p} \X InFlightSet)
    /\ UNCHANGED << browser, sessions, browsers, contexts >>

-----------------------------------------------------------------------------
(* One sandbox step: getOrCreateSession, then the page's operation.        *)

(* sessions.get, and this.browser when there is no session; chromium.launch*)
(* is called when there is no browser either.                              *)
BeginStep(p, s) ==
    /\ exec[p].at = "stepping" /\ exec[p].step < MaxSteps
    /\ LET found ==
               CASE sessions[s] # None -> [at |-> "page", on |-> sessions[s]]
                 [] sessions[s] = None /\ browser # None -> [at |-> "context", on |-> browser]
                 [] OTHER -> [at |-> "launch", on |-> None]
       IN exec' = [exec EXCEPT ![p].at = found.at, ![p].on = found.on, ![p].id = s,
                               ![p].handles = @ \cup {s}, ![p].step = @ + 1]
    /\ UNCHANGED << browser, sessions, browsers, contexts, overlaps >>

(* Mutant of Launched: the new browser is not kept in the field.           *)
LaunchedUnrecorded(p) ==
    /\ exec[p].at = "launch"
    /\ browsers' = browsers \cup {NewBrowser(p)}
    /\ exec' = Goto(p, "context", NewBrowser(p))
    /\ UNCHANGED << browser, sessions, contexts, overlaps >>

(* The launch resolved; whatever the field holds by now is overwritten.    *)
Launched(p) ==
    /\ exec[p].at = "launch"
    /\ browser' = NewBrowser(p)
    /\ browsers' = browsers \cup {NewBrowser(p)}
    /\ exec' = Goto(p, "context", NewBrowser(p))
    /\ UNCHANGED << sessions, contexts, overlaps >>

ContextCreated(p) ==
    /\ exec[p].at = "context" /\ exec[p].on \in browsers
    /\ contexts' = contexts \cup {NewContext(p, exec[p].on)}
    /\ exec' = Goto(p, "newPage", NewContext(p, exec[p].on))
    /\ UNCHANGED << browser, sessions, browsers, overlaps >>

(* The page exists; the session is stored, over any that was stored since  *)
(* this step looked for one.                                               *)
PageCreated(p) ==
    LET s == exec[p].id
        paged == Goto(p, "page", exec[p].on)
    IN
    /\ exec[p].at = "newPage" /\ Usable(exec[p].on)
    /\ sessions' = [sessions EXCEPT ![s] = exec[p].on]
    /\ exec' = IF sessions[s] = None THEN IteratorsInsert(paged, s) ELSE paged
    /\ UNCHANGED << browser, browsers, contexts, overlaps >>

PageDone(p) ==
    /\ exec[p].at = "page" /\ Usable(exec[p].on)
    /\ exec' = Goto(p, "stepping", None)
    /\ UNCHANGED << browser, sessions, browsers, contexts, overlaps >>

(* Mutant of StepFails: the finally block is skipped.                      *)
StepFailsWithoutFinally(p) ==
    /\ exec[p].at \in {"launch", "context", "newPage", "page"}
    /\ exec' = Goto(p, "done", None)
    /\ UNCHANGED << browser, sessions, browsers, contexts, overlaps >>

(* The awaited call failed: the plan fails, on to the finally block.       *)
StepFails(p) ==
    /\ exec[p].at \in {"launch", "context", "newPage", "page"}
    /\ exec' = Goto(p, "closing", None)
    /\ UNCHANGED << browser, sessions, browsers, contexts, overlaps >>

EndSteps(p) ==
    /\ exec[p].at = "stepping"
    /\ exec' = Goto(p, "closing", None)
    /\ UNCHANGED << browser, sessions, browsers, contexts, overlaps >>

-----------------------------------------------------------------------------
(* The finally block: close the execution's sessions, shut down.           *)

(* Mutant of CloseSession: closing a session over and over.                *)
CloseSessionRepeated(p, s) ==
    /\ exec[p].at = "closing" /\ s \in exec[p].handles
    /\ exec' = [exec EXCEPT ![p].at = IF sessions[s] = None THEN "closing" ELSE "closingSession",
                            ![p].on = sessions[s]]
    /\ sessions' = [sessions EXCEPT ![s] = None]
    /\ UNCHANGED << browser, browsers, contexts, overlaps >>

(* close() of one handle: it deletes the entry of its session id, whoever  *)
(* made it.                                                                *)
CloseSession(p, s) ==
    LET released == [exec EXCEPT ![p].handles = @ \ {s}] IN
    /\ exec[p].at = "closing" /\ s \in exec[p].handles
    /\ IF sessions[s] = None
       THEN exec' = released
       ELSE exec' = IteratorsDelete([released EXCEPT ![p].at = "closingSession",
                                                     ![p].on = sessions[s]], {s})
    /\ sessions' = [sessions EXCEPT ![s] = None]
    /\ UNCHANGED << browser, browsers, contexts, overlaps >>

SessionClosed(p) ==
    /\ exec[p].at = "closingSession"
    /\ contexts' = contexts \ {exec[p].on}
    /\ exec' = Goto(p, "closing", None)
    /\ UNCHANGED << browser, sessions, browsers, overlaps >>

(* shutdown() starts to iterate over every session of the sandbox.         *)
Shutdown(p) ==
    /\ exec[p].at = "closing" /\ exec[p].handles = {}
    /\ exec' = [exec EXCEPT ![p].at = "sweep", ![p].ahead = Occupied]
    /\ UNCHANGED << browser, sessions, browsers, contexts, overlaps >>

SweepSession(p, s) ==
    /\ exec[p].at = "sweep" /\ s \in exec[p].ahead
    /\ exec' = [exec EXCEPT ![p].at = "sweepClosing", ![p].on = sessions[s],
                            ![p].ahead = @ \ {s}]
    /\ UNCHANGED << browser, sessions, browsers, contexts, overlaps >>

SessionSwept(p) ==
    /\ exec[p].at = "sweepClosing"
    /\ contexts' = contexts \ {exec[p].on}
    /\ exec' = Goto(p, "sweep", None)
    /\ UNCHANGED << browser, sessions, browsers, overlaps >>

(* sessions.clear(), and browser.close() of the browser now in the field.  *)
ClearSessions(p) ==
    /\ exec[p].at = "sweep" /\ exec[p].ahead = {}
    /\ sessions' = [s \in SessionId |-> None]
    /\ exec' = IteratorsDelete(Goto(p, IF browser = None THEN "done" ELSE "browserClose",
                                    browser), SessionId)
    /\ UNCHANGED << browser, browsers, contexts, overlaps >>

(* Mutant of BrowserClosed: the field keeps the closed browser.            *)
BrowserClosedKept(p) ==
    /\ exec[p].at = "browserClose"
    /\ browsers' = browsers \ {exec[p].on}
    /\ contexts' = {c \in contexts : c.browser # exec[p].on}
    /\ exec' = Goto(p, "done", None)
    /\ UNCHANGED << browser, sessions, overlaps >>

(* The browser is gone with its contexts; the field is reset, even when it *)
(* holds another browser by now.                                           *)
BrowserClosed(p) ==
    /\ exec[p].at = "browserClose"
    /\ browsers' = browsers \ {exec[p].on}
    /\ contexts' = {c \in contexts : c.browser # exec[p].on}
    /\ browser' = None
    /\ exec' = Goto(p, "done", None)
    /\ UNCHANGED << sessions, overlaps >>

-----------------------------------------------------------------------------

Step(p) ==
    \/ \E s \in SessionId : BeginStep(p, s)
    \/ Launched(p) \/ ContextCreated(p) \/ PageCreated(p) \/ PageDone(p)
    \/ StepFails(p) \/ EndSteps(p)

Finally(p) ==
    \/ \E s \in SessionId : CloseSession(p, s) \/ SweepSession(p, s)
    \/ SessionClosed(p) \/ Shutdown(p) \/ SessionSwept(p)
    \/ ClearSessions(p) \/ BrowserClosed(p)

Next == \E p \in Execution : Begin(p) \/ Step(p) \/ Finally(p)

(* Playwright's calls carry timeouts and closes return, so what an         *)
(* execution awaits settles.                                               *)
Spec == Init /\ [][Next]_vars /\ \A p \in Execution : WF_vars(Step(p) \/ Finally(p))

-----------------------------------------------------------------------------

At == {"idle", "stepping", "launch", "context", "newPage", "page", "closing",
       "closingSession", "sweep", "sweepClosing", "browserClose", "done"}

Progress == [at : At, step : 0..MaxSteps, handles : SUBSET SessionId,
             id : SessionId \cup {None}, on : Browser \cup Context \cup {None},
             ahead : SUBSET SessionId]

OnBrowser == {"context", "browserClose"}
OnContext == {"newPage", "page", "closingSession", "sweepClosing"}

(* Type invariant.                                                         *)
TypeOK ==
    /\ browser \in Browser \cup {None}
    /\ sessions \in [SessionId -> Context \cup {None}]
    /\ browsers \subseteq Browser
    /\ contexts \subseteq Context
    /\ exec \in [Execution -> Progress]
    /\ \A p \in Execution :
          /\ exec[p].at \in OnBrowser => exec[p].on \in Browser
          /\ exec[p].at \in OnContext => exec[p].on \in Context
          /\ exec[p].at \in {"launch", "context", "newPage", "page"} => exec[p].id \in SessionId
    /\ overlaps \subseteq Execution \X Execution

Clears(p) == InFlight(p) /\ exec[p].at # "browserClose"

(* What the shared sandbox holds was made by an execution still in flight, *)
(* which has yet to clear it away: when no execution is in flight there is *)
(* no session and no browser in the fields, however launches, closes and   *)
(* shutdowns crossed.                                                      *)
SharedStateIsOwned ==
    /\ \A s \in SessionId : sessions[s] # None => Clears(sessions[s].by)
    /\ browser # None => InFlight(browser.by)

(* An execution works on a browser or a session of another one only if the *)
(* two were in flight together: cookies and pages of a run are never       *)
(* carried over to a later run, even under the same session id.            *)
NothingCarriedOver ==
    \A p \in Execution :
        exec[p].on # None /\ exec[p].on.by # p => << p, exec[p].on.by >> \in overlaps

Alone(p) == \A q \in Execution : << p, q >> \notin overlaps

(* An execution with no other beside it finds its browser and its pages    *)
(* alive, whatever mess overlapping executions left before it: only then   *)
(* is a failure of its steps the page's own.                               *)
AloneIsUndisturbed ==
    \A p \in Execution : Alone(p) =>
        /\ exec[p].at = "context" => exec[p].on \in browsers
        /\ exec[p].at \in {"newPage", "page"} => Usable(exec[p].on)

(* A browser process outlives the execution that launched it only if that  *)
(* execution overlapped another one: two launches or a launch and a        *)
(* shutdown that crossed.                                                  *)
LeakOnlyByOverlap ==
    \A b \in browsers : Alone(b.by) => InFlight(b.by)

(* What makes the invariants inductive.  A shutdown's iterator only meets  *)
(* sessions that are there; executions in flight together are recorded; a  *)
(* session about to be stored is the work of the execution storing it.     *)
AheadIsOccupied == \A p \in Execution : exec[p].ahead \subseteq Occupied

OverlapsRecorded ==
    \A p, q \in Execution :
        p # q /\ InFlight(p) /\ InFlight(q) => << p, q >> \in overlaps

StoresItsOwn == \A p \in Execution : exec[p].at = "newPage" => exec[p].on.by = p

(* The view of an execution that is alone: all it can find in the sandbox  *)
(* is alive, and the only browser it launched is the one in the field.     *)
AloneSees(p) ==
    /\ browser # None => browser \in browsers
    /\ exec[p].at \in {"stepping", "launch", "context", "newPage", "page"} =>
          \A s \in SessionId : sessions[s] # None => Usable(sessions[s])
    /\ exec[p].at = "launch" => browser = None
    /\ exec[p].at = "browserClose" => exec[p].on = browser
    /\ \A b \in browsers : b.by = p => b = browser

AloneHasItsOwn == \A p \in Execution : Alone(p) /\ InFlight(p) => AloneSees(p)

SandboxInv ==
    /\ TypeOK
    /\ AheadIsOccupied /\ OverlapsRecorded /\ StoresItsOwn
    /\ SharedStateIsOwned /\ NothingCarriedOver
    /\ AloneHasItsOwn /\ AloneIsUndisturbed /\ LeakOnlyByOverlap

(* Every execution ends: its shutdown iterates over a map that others go   *)
(* on filling, but not for ever.                                           *)
EveryExecutionEnds ==
    \A p \in Execution : InFlight(p) ~> exec[p].at = "done"
=============================================================================
