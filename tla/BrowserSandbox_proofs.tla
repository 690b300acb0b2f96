------------------------ MODULE BrowserSandbox_proofs ------------------------
(***************************************************************************)
(* For any number of executions, session ids and steps: what the shared    *)
(* sandbox holds belongs to an execution in flight, nothing is carried     *)
(* over to a later execution, an execution that overlaps no other finds    *)
(* everything it uses alive and leaves no browser behind.                  *)
(***************************************************************************)
EXTENDS BrowserSandbox, TLAPS

USE MaxStepsAssumption

-----------------------------------------------------------------------------
(* Types.                                                                  *)

(* Nothing is shared and no execution has begun.                           *)
LEMMA InitSandboxInv == Init => SandboxInv
<1> SUFFICES ASSUME Init PROVE SandboxInv
    OBVIOUS
<1>1. TypeOK
    BY DEF Init, TypeOK, Fresh, Progress, At, OnBrowser, OnContext, Browser, Context
<1> QED
    BY <1>1 DEF Init, SandboxInv, AheadIsOccupied, OverlapsRecorded, StoresItsOwn,
       SharedStateIsOwned, NothingCarriedOver, AloneHasItsOwn, AloneIsUndisturbed,
       LeakOnlyByOverlap, Fresh, InFlight

(* Moving p to another await changes nothing else.                         *)
LEMMA GotoFields ==
    ASSUME exec \in [Execution -> Progress], NEW p \in Execution,
           NEW at \in At, NEW on \in Browser \cup Context \cup {None}
    PROVE  LET e == Goto(p, at, on) IN
           /\ e \in [Execution -> Progress]
           /\ e[p].at = at /\ e[p].on = on
           /\ e[p].step = exec[p].step /\ e[p].handles = exec[p].handles
           /\ e[p].id = exec[p].id /\ e[p].ahead = exec[p].ahead
           /\ \A q \in Execution \ {p} : e[q] = exec[q]
BY DEF Goto, Progress

(* An inserted session changes at most what iterators have ahead.          *)
LEMMA InsertFields ==
    ASSUME NEW e \in [Execution -> Progress], NEW s \in SessionId
    PROVE  LET f == IteratorsInsert(e, s) IN
           /\ f \in [Execution -> Progress]
           /\ \A q \in Execution :
                /\ f[q].at = e[q].at /\ f[q].on = e[q].on /\ f[q].id = e[q].id
                /\ f[q].step = e[q].step /\ f[q].handles = e[q].handles
                /\ f[q].ahead \subseteq e[q].ahead \cup {s}
BY DEF IteratorsInsert, Progress

(* Deleted sessions are no longer ahead of any iterator.                   *)
LEMMA DeleteFields ==
    ASSUME NEW e \in [Execution -> Progress], NEW S \in SUBSET SessionId
    PROVE  LET f == IteratorsDelete(e, S) IN
           /\ f \in [Execution -> Progress]
           /\ \A q \in Execution :
                /\ f[q].at = e[q].at /\ f[q].on = e[q].on /\ f[q].id = e[q].id
                /\ f[q].step = e[q].step /\ f[q].handles = e[q].handles
                /\ f[q].ahead = e[q].ahead \ S
BY DEF IteratorsDelete, Progress

-----------------------------------------------------------------------------
(* What is left to show for an action of one execution.                    *)

(* An execution with another in flight is not alone.                       *)
LEMMA NotAlone ==
    ASSUME OverlapsRecorded, NEW p \in Execution, NEW q \in Execution,
           p # q, InFlight(p), InFlight(q)
    PROVE  ~ Alone(p)
BY DEF OverlapsRecorded, Alone

(* Steps of p never change what holds of an execution that is alone,       *)
(* because that is p itself or one that is not in flight.                  *)
LEMMA StepOfOne ==
    ASSUME SandboxInv, NEW p \in Execution, InFlight(p), TypeOK', overlaps' = overlaps,
           \A q \in Execution \ {p} : exec'[q].at = exec[q].at /\ exec'[q].on = exec[q].on,
           AheadIsOccupied', SharedStateIsOwned',
           exec'[p].at = "newPage" => exec'[p].on.by = p,
           exec'[p].on # None /\ exec'[p].on.by # p => << p, exec'[p].on.by >> \in overlaps,
           Alone(p) /\ InFlight(p)' =>
              /\ AloneSees(p)'
              /\ exec'[p].at = "context" => exec'[p].on \in browsers'
              /\ exec'[p].at \in {"newPage", "page"} => Usable(exec[p].on)',
           Alone(p) /\ ~ InFlight(p)' => \A b \in browsers' : b.by # p,
           \A b \in browsers' : b \in browsers \/ b.by = p
    PROVE  SandboxInv'
<1>1. \A q \in Execution \ {p} : InFlight(q)' <=> InFlight(q)
    BY DEF InFlight
<1>2. \A q \in Execution : Alone(q)' <=> Alone(q)
    BY DEF Alone
<1>3. \A q \in Execution \ {p} : InFlight(q) => ~ Alone(q)
    BY NotAlone DEF SandboxInv
<1>4. OverlapsRecorded'
    BY <1>1 DEF SandboxInv, OverlapsRecorded
<1>5. StoresItsOwn'
    BY DEF SandboxInv, StoresItsOwn
<1>6. NothingCarriedOver'
    BY DEF SandboxInv, NothingCarriedOver
<1>7. AloneHasItsOwn'
    BY <1>1, <1>2, <1>3 DEF AloneHasItsOwn
<1>8. AloneIsUndisturbed'
    <2> SUFFICES ASSUME NEW q \in Execution, Alone(q)'
                 PROVE  /\ exec'[q].at = "context" => exec'[q].on \in browsers'
                        /\ exec'[q].at \in {"newPage", "page"} => Usable(exec[q].on)'
        BY DEF AloneIsUndisturbed
    <2>1. CASE q = p
        BY <2>1, <1>2 DEF InFlight
    <2>2. CASE q # p
        BY <2>2, <1>1, <1>2, <1>3 DEF InFlight
    <2> QED
        BY <2>1, <2>2
<1>9. LeakOnlyByOverlap'
    <2> SUFFICES ASSUME NEW b \in browsers', Alone(b.by)' PROVE InFlight(b.by)'
        BY DEF LeakOnlyByOverlap
    <2>1. b.by \in Execution
        BY DEF TypeOK, Browser
    <2> QED
        BY <2>1, <1>1, <1>2 DEF SandboxInv, LeakOnlyByOverlap
<1> QED
    BY <1>4, <1>5, <1>6, <1>7, <1>8, <1>9 DEF SandboxInv

(* Beginning an execution adds the pairs it makes to the history; whoever  *)
(* is in flight is no longer alone.                                        *)
LEMMA BeginKeepsSandboxInv ==
    ASSUME SandboxInv, NEW p \in Execution, Begin(p)
    PROVE  SandboxInv'
<1>1. /\ exec[p].at = "idle"
      /\ exec' = Goto(p, "stepping", None)
      /\ overlaps' = overlaps \cup (InFlightSet \X {p}) \cup ({p} \X InFlightSet)
      /\ UNCHANGED << browser, sessions, browsers, contexts >>
    BY DEF Begin
<1>2. /\ exec' \in [Execution -> Progress]
      /\ exec'[p].at = "stepping" /\ exec'[p].on = None /\ exec'[p].ahead = exec[p].ahead
      /\ \A q \in Execution \ {p} : exec'[q] = exec[q]
    BY <1>1, GotoFields DEF SandboxInv, TypeOK, At
<1>3. ~ InFlight(p) /\ InFlight(p)' /\ Clears(p)'
    BY <1>1, <1>2 DEF InFlight, Clears
<1>4. \A q \in Execution \ {p} : (InFlight(q)' <=> InFlight(q)) /\ (Clears(q)' <=> Clears(q))
    BY <1>2 DEF InFlight, Clears
<1>5. \A q \in Execution : (Alone(q)' => Alone(q)) /\ (q # p /\ InFlight(q) => ~ Alone(q)')
    BY <1>1 DEF Alone, InFlightSet
<1>6. TypeOK'
    BY <1>1, <1>2 DEF SandboxInv, TypeOK, InFlightSet, OnBrowser, OnContext
<1>7. AheadIsOccupied' /\ StoresItsOwn' /\ NothingCarriedOver'
    BY <1>1, <1>2 DEF SandboxInv, AheadIsOccupied, Occupied, StoresItsOwn, NothingCarriedOver
<1>8. OverlapsRecorded'
    BY <1>1, <1>3, <1>4 DEF SandboxInv, OverlapsRecorded, InFlightSet
<1>9. /\ \A s \in SessionId : sessions[s] # None => sessions[s].by \in Execution
      /\ browser # None => browser.by \in Execution
      /\ \A b \in browsers : b.by \in Execution
    BY DEF SandboxInv, TypeOK, Context, Browser
<1>10. SharedStateIsOwned'
    BY <1>1, <1>3, <1>4, <1>9 DEF SandboxInv, SharedStateIsOwned, Clears
<1>11. LeakOnlyByOverlap'
    BY <1>1, <1>3, <1>4, <1>5, <1>9 DEF SandboxInv, LeakOnlyByOverlap
<1>12. AloneIsUndisturbed'
    BY <1>1, <1>2, <1>5 DEF SandboxInv, AloneIsUndisturbed, Usable
<1>13. ASSUME Alone(p)' PROVE AloneSees(p)'
    <2>1. \A q \in Execution : ~ InFlight(q)
        BY <1>3, <1>1, <1>13 DEF Alone, InFlightSet
    <2>2. browser = None /\ \A s \in SessionId : sessions[s] = None
        BY <2>1, <1>9 DEF SandboxInv, SharedStateIsOwned, Clears
    <2>3. \A b \in browsers : b.by # p
        BY <1>3, <1>5, <1>13 DEF SandboxInv, LeakOnlyByOverlap
    <2> QED
        BY <1>1, <1>2, <2>2, <2>3 DEF AloneSees
<1>14. AloneHasItsOwn'
    BY <1>4, <1>5, <1>13 DEF AloneHasItsOwn
<1> QED
    BY <1>6, <1>7, <1>8, <1>10, <1>11, <1>12, <1>14 DEF SandboxInv

-----------------------------------------------------------------------------
(* The steps of a plan.                                                    *)

(* Types of what is held in the sandbox and what an execution works on.    *)
LEMMA Makers ==
    ASSUME TypeOK
    PROVE  /\ \A s \in SessionId : sessions[s] # None => sessions[s].by \in Execution
           /\ browser # None => browser.by \in Execution
           /\ \A b \in browsers : b.by \in Execution
BY DEF TypeOK, Context, Browser

(* A step looks for its session, then for the browser.                     *)
LEMMA BeginStepKeepsSandboxInv ==
    ASSUME SandboxInv, NEW p \in Execution, NEW s \in SessionId, BeginStep(p, s)
    PROVE  SandboxInv'
<1> DEFINE e == exec'[p]
<1>1. /\ exec[p].at = "stepping" /\ exec[p].step < MaxSteps
      /\ UNCHANGED << browser, sessions, browsers, contexts, overlaps >>
    BY DEF BeginStep
<1>2. /\ exec' \in [Execution -> Progress]
      /\ e.id = s /\ e.ahead = exec[p].ahead
      /\ \A q \in Execution \ {p} : exec'[q] = exec[q]
      /\ \/ sessions[s] # None /\ e.at = "page" /\ e.on = sessions[s]
         \/ sessions[s] = None /\ browser # None /\ e.at = "context" /\ e.on = browser
         \/ sessions[s] = None /\ browser = None /\ e.at = "launch" /\ e.on = None
    <2>1. exec \in [Execution -> Progress] /\ exec[p] \in Progress
        BY DEF SandboxInv, TypeOK
    <2>2. sessions[s] \in Browser \cup Context \cup {None}
          /\ browser \in Browser \cup Context \cup {None}
          /\ None \in Browser \cup Context \cup {None}
        BY DEF SandboxInv, TypeOK
    <2> DEFINE found == CASE sessions[s] # None -> [at |-> "page", on |-> sessions[s]]
                          [] sessions[s] = None /\ browser # None -> [at |-> "context", on |-> browser]
                          [] OTHER -> [at |-> "launch", on |-> None]
    <2>3. /\ found.at \in At /\ found.on \in Browser \cup Context \cup {None}
          /\ \/ sessions[s] # None /\ found.at = "page" /\ found.on = sessions[s]
             \/ sessions[s] = None /\ browser # None /\ found.at = "context" /\ found.on = browser
             \/ sessions[s] = None /\ browser = None /\ found.at = "launch" /\ found.on = None
        <3>1. CASE sessions[s] # None
            BY <2>2, <3>1 DEF At
        <3>2. CASE sessions[s] = None /\ browser # None
            BY <2>2, <3>2 DEF At
        <3>3. CASE sessions[s] = None /\ browser = None
            BY <2>2, <3>3 DEF At
        <3> QED
            BY <3>1, <3>2, <3>3
    <2> DEFINE r == [exec[p] EXCEPT !.at = found.at, !.on = found.on, !.id = s,
                                    !.handles = @ \cup {s}, !.step = @ + 1]
    <2>4. exec' = [exec EXCEPT ![p] = r]
        BY <2>1 DEF BeginStep
    <2> HIDE DEF found
    <2>5. exec[p].step + 1 \in 0 .. MaxSteps
        BY <1>1, <2>1, MaxStepsAssumption DEF Progress
    <2>6. /\ r.at = found.at /\ r.on = found.on /\ r.id = s /\ r.ahead = exec[p].ahead
        BY <2>1 DEF Progress
    <2>7. r \in Progress
        BY <2>1, <2>3, <2>5 DEF Progress
    <2> HIDE DEF r
    <2>8. exec' \in [Execution -> Progress] /\ e = r
          /\ \A q \in Execution \ {p} : exec'[q] = exec[q]
        BY <2>1, <2>4, <2>7
    <2> QED
        BY <2>3, <2>6, <2>8
<1>3. /\ InFlight(p) /\ InFlight(p)'
      /\ \A q \in Execution : (InFlight(q)' <=> InFlight(q)) /\ (Clears(q)' <=> Clears(q))
    BY <1>1, <1>2 DEF InFlight, Clears
<1>4. TypeOK'
    BY <1>1, <1>2 DEF SandboxInv, TypeOK, OnBrowser, OnContext
<1>5. AheadIsOccupied'
    BY <1>1, <1>2 DEF SandboxInv, AheadIsOccupied, Occupied
<1>6. SharedStateIsOwned'
    BY <1>1, <1>2, <1>3, Makers DEF SandboxInv, SharedStateIsOwned
<1>7. e.on # None => e.on.by \in Execution /\ InFlight(e.on.by)
    BY <1>2, Makers DEF SandboxInv, SharedStateIsOwned, Clears
<1>8. e.on # None /\ e.on.by # p => << p, e.on.by >> \in overlaps
    BY <1>3, <1>7 DEF SandboxInv, OverlapsRecorded
<1>9. ASSUME Alone(p)
      PROVE  /\ AloneSees(p)'
             /\ e.at = "context" => e.on \in browsers'
             /\ e.at \in {"newPage", "page"} => Usable(exec[p].on)'
    <2>1. AloneSees(p)
        BY <1>3, <1>9 DEF SandboxInv, AloneHasItsOwn
    <2> QED
        BY <1>1, <1>2, <2>1 DEF AloneSees, Usable
<1> QED
    BY <1>1, <1>2, <1>3, <1>4, <1>5, <1>6, <1>8, <1>9, StepOfOne

(* A launched browser takes the place of the one in the field.             *)
LEMMA LaunchedKeepsSandboxInv ==
    ASSUME SandboxInv, NEW p \in Execution, Launched(p)
    PROVE  SandboxInv'
<1> DEFINE b == NewBrowser(p)
<1>1. /\ exec[p].at = "launch" /\ exec' = Goto(p, "context", b)
      /\ browser' = b /\ browsers' = browsers \cup {b}
      /\ UNCHANGED << sessions, contexts, overlaps >>
    BY DEF Launched
<1>2. b \in Browser /\ b.by = p
    BY DEF NewBrowser, Browser, SandboxInv, TypeOK, Progress
<1>3. /\ exec' \in [Execution -> Progress]
      /\ exec'[p].at = "context" /\ exec'[p].on = b
      /\ exec'[p].id = exec[p].id /\ exec'[p].ahead = exec[p].ahead
      /\ \A q \in Execution \ {p} : exec'[q] = exec[q]
    BY <1>1, <1>2, GotoFields DEF SandboxInv, TypeOK, At
<1>4. /\ InFlight(p) /\ InFlight(p)'
      /\ \A q \in Execution : (InFlight(q)' <=> InFlight(q)) /\ (Clears(q)' <=> Clears(q))
    BY <1>1, <1>3 DEF InFlight, Clears
<1>5. TypeOK'
    BY <1>1, <1>2, <1>3 DEF SandboxInv, TypeOK, OnBrowser, OnContext
<1>6. AheadIsOccupied'
    BY <1>1, <1>3 DEF SandboxInv, AheadIsOccupied, Occupied
<1>7. SharedStateIsOwned'
    BY <1>1, <1>2, <1>4, Makers DEF SandboxInv, SharedStateIsOwned
<1>8. ASSUME Alone(p) PROVE AloneSees(p)' /\ b \in browsers'
    <2>1. AloneSees(p) /\ browser = None
        BY <1>1, <1>4, <1>8 DEF SandboxInv, AloneHasItsOwn, AloneSees
    <2>2. \A x \in browsers : x.by # p
        BY <2>1, NoneAssumption DEF AloneSees, SandboxInv, TypeOK
    <2> QED
        BY <1>1, <1>2, <1>3, <2>1, <2>2 DEF AloneSees, Usable
<1> QED
    BY <1>1, <1>2, <1>3, <1>4, <1>5, <1>6, <1>7, <1>8, StepOfOne

(* A new context belongs to the execution that asked for it.               *)
LEMMA ContextCreatedKeepsSandboxInv ==
    ASSUME SandboxInv, NEW p \in Execution, ContextCreated(p)
    PROVE  SandboxInv'
<1> DEFINE c == NewContext(p, exec[p].on)
<1>1. /\ exec[p].at = "context" /\ exec[p].on \in browsers /\ exec' = Goto(p, "newPage", c)
      /\ contexts' = contexts \cup {c}
      /\ UNCHANGED << browser, sessions, browsers, overlaps >>
    BY DEF ContextCreated
<1>2. c \in Context /\ c.by = p /\ c.browser = exec[p].on
    BY <1>1 DEF NewContext, Context, SandboxInv, TypeOK, Progress
<1>3. /\ exec' \in [Execution -> Progress]
      /\ exec'[p].at = "newPage" /\ exec'[p].on = c
      /\ exec'[p].id = exec[p].id /\ exec'[p].ahead = exec[p].ahead
      /\ \A q \in Execution \ {p} : exec'[q] = exec[q]
    BY <1>1, <1>2, GotoFields DEF SandboxInv, TypeOK, At
<1>4. /\ InFlight(p) /\ InFlight(p)'
      /\ \A q \in Execution : (InFlight(q)' <=> InFlight(q)) /\ (Clears(q)' <=> Clears(q))
    BY <1>1, <1>3 DEF InFlight, Clears
<1>5. TypeOK'
    BY <1>1, <1>2, <1>3 DEF SandboxInv, TypeOK, OnBrowser, OnContext
<1>6. AheadIsOccupied'
    BY <1>1, <1>3 DEF SandboxInv, AheadIsOccupied, Occupied
<1>7. SharedStateIsOwned'
    BY <1>1, <1>4, Makers DEF SandboxInv, SharedStateIsOwned
<1>8. ASSUME Alone(p) PROVE AloneSees(p)' /\ Usable(exec[p].on)'
    <2>1. AloneSees(p)
        BY <1>4, <1>8 DEF SandboxInv, AloneHasItsOwn
    <2> QED
        BY <1>1, <1>2, <1>3, <2>1 DEF AloneSees, Usable
<1> QED
    BY <1>1, <1>2, <1>3, <1>4, <1>5, <1>6, <1>7, <1>8, StepOfOne

(* Storing the session: iterators may have it ahead, and it is there.      *)
LEMMA PageCreatedKeepsSandboxInv ==
    ASSUME SandboxInv, NEW p \in Execution, PageCreated(p)
    PROVE  SandboxInv'
<1> DEFINE s == exec[p].id
           c == exec[p].on
           paged == Goto(p, "page", c)
<1>1. /\ exec[p].at = "newPage" /\ Usable(c)
      /\ sessions' = [sessions EXCEPT ![s] = c]
      /\ exec' = IF sessions[s] = None THEN IteratorsInsert(paged, s) ELSE paged
      /\ UNCHANGED << browser, browsers, contexts, overlaps >>
    BY DEF PageCreated
<1>2. s \in SessionId /\ c \in Context /\ c.by = p /\ sessions \in [SessionId -> Context \cup {None}]
    BY <1>1 DEF SandboxInv, TypeOK, OnContext, StoresItsOwn
<1>3. /\ paged \in [Execution -> Progress]
      /\ paged[p].at = "page" /\ paged[p].on = c
      /\ paged[p].id = exec[p].id /\ paged[p].ahead = exec[p].ahead
      /\ \A q \in Execution \ {p} : paged[q] = exec[q]
    BY <1>2, GotoFields DEF SandboxInv, TypeOK, At
<1>4. /\ exec' \in [Execution -> Progress]
      /\ exec'[p].at = "page" /\ exec'[p].on = c /\ exec'[p].id = s
      /\ \A q \in Execution \ {p} :
            exec'[q].at = exec[q].at /\ exec'[q].on = exec[q].on /\ exec'[q].id = exec[q].id
      /\ \A q \in Execution : exec'[q].ahead \subseteq exec[q].ahead \cup {s}
    <2>1. CASE sessions[s] = None
        <3> HIDE DEF paged
        <3>1. exec' = IteratorsInsert(paged, s)
            BY <1>1, <2>1
        <3>2. LET f == IteratorsInsert(paged, s) IN
              /\ f \in [Execution -> Progress]
              /\ \A q \in Execution :
                    /\ f[q].at = paged[q].at /\ f[q].on = paged[q].on /\ f[q].id = paged[q].id
                    /\ f[q].ahead \subseteq paged[q].ahead \cup {s}
            BY <1>2, <1>3, InsertFields
        <3> QED
            BY <1>2, <1>3, <3>1, <3>2
    <2>2. CASE sessions[s] # None
        BY <1>1, <1>3, <2>2
    <2> QED
        BY <2>1, <2>2
<1> HIDE DEF paged
<1>5. /\ InFlight(p) /\ InFlight(p)' /\ Clears(p)
      /\ \A q \in Execution : (InFlight(q)' <=> InFlight(q)) /\ (Clears(q)' <=> Clears(q))
    BY <1>1, <1>4 DEF InFlight, Clears
<1>6. TypeOK'
    BY <1>1, <1>2, <1>4 DEF SandboxInv, TypeOK, OnBrowser, OnContext
<1>7. c # None
    BY NoneAssumption, <1>2
<1>8. AheadIsOccupied'
    BY <1>1, <1>2, <1>4, <1>7 DEF SandboxInv, AheadIsOccupied, Occupied
<1>9. SharedStateIsOwned'
    BY <1>1, <1>2, <1>5, Makers DEF SandboxInv, SharedStateIsOwned
<1>10. ASSUME Alone(p) PROVE AloneSees(p)' /\ Usable(exec[p].on)'
    <2>1. AloneSees(p)
        BY <1>5, <1>10 DEF SandboxInv, AloneHasItsOwn
    <2> QED
        BY <1>1, <1>2, <1>4, <2>1 DEF AloneSees, Usable
<1> QED
    BY <1>1, <1>2, <1>4, <1>5, <1>6, <1>8, <1>9, <1>10, StepOfOne

(* A settled call that only moves p on and may have closed a context: the  *)
(* page's result, a failure, a close.                                      *)
LEMMA SettledKeepsSandboxInv ==
    ASSUME SandboxInv, NEW p \in Execution, NEW at \in {"stepping", "closing", "sweep"},
           Clears(p), exec' = Goto(p, at, None),
           contexts' \subseteq contexts,
           at = "stepping" => exec[p].at = "page" /\ contexts' = contexts,
           UNCHANGED << browser, sessions, browsers, overlaps >>
    PROVE  SandboxInv'
<1>1. /\ exec' \in [Execution -> Progress]
      /\ exec'[p].at = at /\ exec'[p].on = None
      /\ exec'[p].id = exec[p].id /\ exec'[p].ahead = exec[p].ahead
      /\ \A q \in Execution \ {p} : exec'[q] = exec[q]
    BY GotoFields DEF SandboxInv, TypeOK, At
<1>2. /\ InFlight(p) /\ InFlight(p)'
      /\ \A q \in Execution : (InFlight(q)' <=> InFlight(q)) /\ (Clears(q)' <=> Clears(q))
    BY <1>1 DEF InFlight, Clears
<1>3. TypeOK'
    BY <1>1 DEF SandboxInv, TypeOK, OnBrowser, OnContext
<1>4. AheadIsOccupied'
    BY <1>1 DEF SandboxInv, AheadIsOccupied, Occupied
<1>5. SharedStateIsOwned'
    BY <1>2, Makers DEF SandboxInv, SharedStateIsOwned
<1>6. ASSUME Alone(p) PROVE AloneSees(p)'
    <2>1. AloneSees(p)
        BY <1>2, <1>6 DEF SandboxInv, AloneHasItsOwn
    <2> QED
        BY <1>1, <2>1 DEF AloneSees, Usable
<1> QED
    BY <1>1, <1>2, <1>3, <1>4, <1>5, <1>6, StepOfOne

(* Every step of a plan preserves the invariant.                           *)
LEMMA StepKeepsSandboxInv ==
    ASSUME SandboxInv, NEW p \in Execution, Step(p)
    PROVE  SandboxInv'
<1>1. CASE PageDone(p)
    BY <1>1, SettledKeepsSandboxInv DEF PageDone, Clears, InFlight
<1>2. CASE StepFails(p)
    BY <1>2, SettledKeepsSandboxInv DEF StepFails, Clears, InFlight
<1>3. CASE EndSteps(p)
    BY <1>3, SettledKeepsSandboxInv DEF EndSteps, Clears, InFlight
<1> QED
    BY <1>1, <1>2, <1>3, BeginStepKeepsSandboxInv, LaunchedKeepsSandboxInv,
       ContextCreatedKeepsSandboxInv, PageCreatedKeepsSandboxInv DEF Step

-----------------------------------------------------------------------------
(* The finally block.                                                      *)

(* A handle's close takes the session out of the map and of every iterator.*)
LEMMA CloseSessionKeepsSandboxInv ==
    ASSUME SandboxInv, NEW p \in Execution, NEW s \in SessionId, CloseSession(p, s)
    PROVE  SandboxInv'
<1> DEFINE released == [exec EXCEPT ![p].handles = @ \ {s}]
           closing == [released EXCEPT ![p].at = "closingSession", ![p].on = sessions[s]]
<1>1. /\ exec[p].at = "closing" /\ s \in exec[p].handles
      /\ IF sessions[s] = None THEN exec' = released
                               ELSE exec' = IteratorsDelete(closing, {s})
      /\ sessions' = [sessions EXCEPT ![s] = None]
      /\ UNCHANGED << browser, browsers, contexts, overlaps >>
    BY DEF CloseSession
<1>2. sessions \in [SessionId -> Context \cup {None}]
    BY DEF SandboxInv, TypeOK
<1> DEFINE mine == [exec[p] EXCEPT !.handles = @ \ {s}]
<1>3. /\ closing \in [Execution -> Progress]
      /\ closing[p].at = "closingSession" /\ closing[p].on = sessions[s]
      /\ \A q \in Execution : closing[q].ahead = exec[q].ahead
      /\ \A q \in Execution \ {p} : closing[q] = exec[q]
    <2>1. exec \in [Execution -> Progress]
        BY DEF SandboxInv, TypeOK
    <2>2. mine \in Progress /\ mine.ahead = exec[p].ahead
        BY <2>1 DEF Progress
    <2>3. released = [exec EXCEPT ![p] = mine]
        BY <2>1
    <2>4. /\ released \in [Execution -> Progress] /\ released[p] = mine
          /\ \A q \in Execution \ {p} : released[q] = exec[q]
        <3> HIDE DEF mine, released
        <3> QED
            BY <2>1, <2>2, <2>3
    <2>5. sessions[s] \in Browser \cup Context \cup {None}
        BY <1>2
    <2>6. "closingSession" \in At
        BY DEF At
    <2> DEFINE closed == [mine EXCEPT !.at = "closingSession", !.on = sessions[s]]
    <2> HIDE DEF mine, released
    <2>7. /\ closed \in Progress /\ closed.at = "closingSession"
          /\ closed.on = sessions[s] /\ closed.ahead = mine.ahead
        BY <2>2, <2>5, <2>6 DEF Progress
    <2>8. closing = [released EXCEPT ![p] = closed]
        BY <2>4
    <2> HIDE DEF closing, closed
    <2>9. closing[p] = closed /\ \A q \in Execution \ {p} : closing[q] = released[q]
        BY <2>4, <2>8
    <2>10. closing \in [Execution -> Progress]
        BY <2>4, <2>7, <2>8
    <2> QED
        BY <2>2, <2>4, <2>7, <2>9, <2>10
<1>4. /\ exec' \in [Execution -> Progress]
      /\ \/ sessions[s] = None /\ exec'[p].at = "closing" /\ exec'[p].on = exec[p].on
         \/ sessions[s] # None /\ exec'[p].at = "closingSession" /\ exec'[p].on = sessions[s]
      /\ \A q \in Execution \ {p} :
            exec'[q].at = exec[q].at /\ exec'[q].on = exec[q].on /\ exec'[q].id = exec[q].id
      /\ \A q \in Execution : exec'[q].ahead \subseteq exec[q].ahead
      /\ sessions[s] # None => \A q \in Execution : s \notin exec'[q].ahead
    <2>1. CASE sessions[s] = None
        BY <1>1, <2>1 DEF SandboxInv, TypeOK, Progress
    <2>2. CASE sessions[s] # None
        <3> HIDE DEF closing
        <3>1. exec' = IteratorsDelete(closing, {s})
            BY <1>1, <2>2
        <3>2. LET f == IteratorsDelete(closing, {s}) IN
              /\ f \in [Execution -> Progress]
              /\ \A q \in Execution :
                    /\ f[q].at = closing[q].at /\ f[q].on = closing[q].on
                    /\ f[q].id = closing[q].id /\ f[q].ahead = closing[q].ahead \ {s}
            BY <1>3, DeleteFields
        <3> QED
            BY <1>3, <2>2, <3>1, <3>2
    <2> QED
        BY <2>1, <2>2
<1> HIDE DEF closing
<1>5. /\ InFlight(p) /\ InFlight(p)'
      /\ \A q \in Execution : (InFlight(q)' <=> InFlight(q)) /\ (Clears(q)' <=> Clears(q))
    BY <1>1, <1>4 DEF InFlight, Clears
<1>6. TypeOK'
    BY <1>1, <1>2, <1>4 DEF SandboxInv, TypeOK, OnBrowser, OnContext
<1>7. AheadIsOccupied'
    BY <1>1, <1>2, <1>4 DEF SandboxInv, AheadIsOccupied, Occupied
<1>8. SharedStateIsOwned'
    BY <1>1, <1>2, <1>5, Makers DEF SandboxInv, SharedStateIsOwned
<1>9. exec'[p].on # None /\ exec'[p].on.by # p => << p, exec'[p].on.by >> \in overlaps
    <2>1. CASE sessions[s] = None
        BY <1>4, <2>1 DEF SandboxInv, NothingCarriedOver
    <2>2. CASE sessions[s] # None
        <3>1. sessions[s].by \in Execution /\ InFlight(sessions[s].by)
            BY <2>2, Makers DEF SandboxInv, SharedStateIsOwned, Clears
        <3> QED
            BY <1>4, <1>5, <2>2, <3>1 DEF SandboxInv, OverlapsRecorded
    <2> QED
        BY <2>1, <2>2
<1>10. ASSUME Alone(p) PROVE AloneSees(p)'
    <2>1. AloneSees(p)
        BY <1>5, <1>10 DEF SandboxInv, AloneHasItsOwn
    <2> QED
        BY <1>1, <1>4, <2>1 DEF AloneSees
<1> QED
    BY <1>1, <1>4, <1>5, <1>6, <1>7, <1>8, <1>9, <1>10, StepOfOne

(* A shutdown starts with every session ahead of it.                       *)
LEMMA ShutdownKeepsSandboxInv ==
    ASSUME SandboxInv, NEW p \in Execution, Shutdown(p)
    PROVE  SandboxInv'
<1>1. /\ exec[p].at = "closing"
      /\ UNCHANGED << browser, sessions, browsers, contexts, overlaps >>
    BY DEF Shutdown
<1>2. /\ exec' \in [Execution -> Progress]
      /\ exec'[p].at = "sweep" /\ exec'[p].on = exec[p].on /\ exec'[p].ahead = Occupied
      /\ \A q \in Execution \ {p} : exec'[q] = exec[q]
    <2>1. exec \in [Execution -> Progress] /\ exec[p] \in Progress
        BY DEF SandboxInv, TypeOK
    <2> DEFINE r == [exec[p] EXCEPT !.at = "sweep", !.ahead = Occupied]
    <2>2. exec' = [exec EXCEPT ![p] = r]
        BY <2>1 DEF Shutdown
    <2>3. r \in Progress /\ r.at = "sweep" /\ r.on = exec[p].on /\ r.ahead = Occupied
        BY <2>1 DEF Progress, At, Occupied
    <2> HIDE DEF r
    <2> QED
        BY <2>1, <2>2, <2>3
<1>3. /\ InFlight(p) /\ InFlight(p)'
      /\ \A q \in Execution : (InFlight(q)' <=> InFlight(q)) /\ (Clears(q)' <=> Clears(q))
    BY <1>1, <1>2 DEF InFlight, Clears
<1>4. TypeOK'
    BY <1>1, <1>2 DEF SandboxInv, TypeOK, OnBrowser, OnContext
<1>5. AheadIsOccupied'
    BY <1>1, <1>2 DEF SandboxInv, AheadIsOccupied, Occupied
<1>6. SharedStateIsOwned'
    BY <1>1, <1>3, Makers DEF SandboxInv, SharedStateIsOwned
<1>7. exec'[p].on # None /\ exec'[p].on.by # p => << p, exec'[p].on.by >> \in overlaps
    BY <1>2 DEF SandboxInv, NothingCarriedOver
<1>8. ASSUME Alone(p) PROVE AloneSees(p)'
    <2>1. AloneSees(p)
        BY <1>3, <1>8 DEF SandboxInv, AloneHasItsOwn
    <2> QED
        BY <1>1, <1>2, <2>1 DEF AloneSees
<1> QED
    BY <1>1, <1>2, <1>3, <1>4, <1>5, <1>6, <1>7, <1>8, StepOfOne

(* The shutdown reaches a session, its own or another's.                   *)
LEMMA SweepSessionKeepsSandboxInv ==
    ASSUME SandboxInv, NEW p \in Execution, NEW s \in SessionId, SweepSession(p, s)
    PROVE  SandboxInv'
<1>1. /\ exec[p].at = "sweep" /\ s \in exec[p].ahead
      /\ UNCHANGED << browser, sessions, browsers, contexts, overlaps >>
    BY DEF SweepSession
<1>2. sessions[s] # None /\ sessions[s] \in Context /\ sessions[s].by \in Execution
    BY <1>1 DEF SandboxInv, AheadIsOccupied, Occupied, TypeOK, Context
<1>3. /\ exec' \in [Execution -> Progress]
      /\ exec'[p].at = "sweepClosing" /\ exec'[p].on = sessions[s]
      /\ exec'[p].ahead \subseteq exec[p].ahead
      /\ \A q \in Execution \ {p} : exec'[q] = exec[q]
    BY <1>2 DEF SweepSession, SandboxInv, TypeOK, Progress, At
<1>4. /\ InFlight(p) /\ InFlight(p)'
      /\ \A q \in Execution : (InFlight(q)' <=> InFlight(q)) /\ (Clears(q)' <=> Clears(q))
    BY <1>1, <1>3 DEF InFlight, Clears
<1>5. TypeOK'
    BY <1>1, <1>2, <1>3 DEF SandboxInv, TypeOK, OnBrowser, OnContext
<1>6. AheadIsOccupied'
    BY <1>1, <1>3 DEF SandboxInv, AheadIsOccupied, Occupied
<1>7. SharedStateIsOwned'
    BY <1>1, <1>4, Makers DEF SandboxInv, SharedStateIsOwned
<1>8. exec'[p].on.by # p => << p, exec'[p].on.by >> \in overlaps
    BY <1>2, <1>3, <1>4 DEF SandboxInv, SharedStateIsOwned, Clears, OverlapsRecorded
<1>9. ASSUME Alone(p) PROVE AloneSees(p)'
    <2>1. AloneSees(p)
        BY <1>4, <1>9 DEF SandboxInv, AloneHasItsOwn
    <2> QED
        BY <1>1, <1>3, <2>1 DEF AloneSees
<1> QED
    BY <1>1, <1>3, <1>4, <1>5, <1>6, <1>7, <1>8, <1>9, StepOfOne

(* After the clear nothing is ahead of any iterator.  Without a browser in *)
(* the field the execution is done; alone, it then left none running.      *)
LEMMA ClearSessionsKeepsSandboxInv ==
    ASSUME SandboxInv, NEW p \in Execution, ClearSessions(p)
    PROVE  SandboxInv'
<1> DEFINE at == IF browser = None THEN "done" ELSE "browserClose"
           moved == Goto(p, at, browser)
<1>1. /\ exec[p].at = "sweep"
      /\ sessions' = [s \in SessionId |-> None]
      /\ exec' = IteratorsDelete(moved, SessionId)
      /\ UNCHANGED << browser, browsers, contexts, overlaps >>
    BY DEF ClearSessions
<1>2. browser \in Browser \cup {None} /\ browser \in Browser \cup Context \cup {None} /\ at \in At
    BY DEF SandboxInv, TypeOK, At
<1> HIDE DEF at
<1>3. /\ moved \in [Execution -> Progress]
      /\ moved[p].at = at /\ moved[p].on = browser
      /\ \A q \in Execution \ {p} : moved[q] = exec[q]
    BY <1>2, GotoFields DEF SandboxInv, TypeOK
<1> HIDE DEF moved
<1>4. /\ exec' \in [Execution -> Progress]
      /\ exec'[p].at = at /\ exec'[p].on = browser
      /\ \A q \in Execution \ {p} :
            exec'[q].at = exec[q].at /\ exec'[q].on = exec[q].on /\ exec'[q].id = exec[q].id
      /\ \A q \in Execution : exec'[q].ahead = {}
    <2>1. LET f == IteratorsDelete(moved, SessionId) IN
          /\ f \in [Execution -> Progress]
          /\ \A q \in Execution :
                /\ f[q].at = moved[q].at /\ f[q].on = moved[q].on
                /\ f[q].id = moved[q].id /\ f[q].ahead = moved[q].ahead \ SessionId
        BY <1>3, DeleteFields
    <2>2. \A q \in Execution : moved[q].ahead \in SUBSET SessionId
        BY <1>3 DEF Progress
    <2> QED
        BY <1>1, <1>3, <2>1, <2>2
<1>5. \/ browser = None /\ exec'[p].at = "done"
      \/ browser # None /\ exec'[p].at = "browserClose"
    BY <1>4 DEF at
<1>6. InFlight(p) /\ \A q \in Execution \ {p} : InFlight(q)' <=> InFlight(q)
    BY <1>1, <1>4 DEF InFlight
<1>7. TypeOK'
    BY <1>1, <1>2, <1>4, <1>5 DEF SandboxInv, TypeOK, OnBrowser, OnContext
<1>8. AheadIsOccupied'
    BY <1>4 DEF AheadIsOccupied
<1>9. browser # None => browser.by \in Execution /\ InFlight(browser.by) /\ InFlight(browser.by)'
    BY <1>1, <1>5, <1>6, Makers DEF SandboxInv, SharedStateIsOwned, InFlight
<1>10. SharedStateIsOwned'
    BY <1>1, <1>9 DEF SharedStateIsOwned
<1>11. exec'[p].on # None /\ exec'[p].on.by # p => << p, exec'[p].on.by >> \in overlaps
    BY <1>4, <1>6, <1>9 DEF SandboxInv, OverlapsRecorded
<1>12. ASSUME Alone(p)
       PROVE  /\ InFlight(p)' => AloneSees(p)'
              /\ ~ InFlight(p)' => \A b \in browsers' : b.by # p
    <2>1. AloneSees(p)
        BY <1>6, <1>12 DEF SandboxInv, AloneHasItsOwn
    <2>2. \A b \in browsers : b # None
        BY NoneAssumption DEF SandboxInv, TypeOK
    <2> QED
        BY <1>1, <1>4, <1>5, <2>1, <2>2 DEF AloneSees, InFlight
<1> QED
    BY <1>1, <1>4, <1>5, <1>6, <1>7, <1>8, <1>10, <1>11, <1>12, StepOfOne

(* The browser that was closed is, for an execution alone, the only one it *)
(* launched; the reset of the field concerns executions still in flight.   *)
LEMMA BrowserClosedKeepsSandboxInv ==
    ASSUME SandboxInv, NEW p \in Execution, BrowserClosed(p)
    PROVE  SandboxInv'
<1>1. /\ exec[p].at = "browserClose" /\ exec' = Goto(p, "done", None)
      /\ browsers' = browsers \ {exec[p].on} /\ contexts' \subseteq contexts
      /\ browser' = None
      /\ UNCHANGED << sessions, overlaps >>
    BY DEF BrowserClosed
<1>2. /\ exec' \in [Execution -> Progress]
      /\ exec'[p].at = "done" /\ exec'[p].on = None /\ exec'[p].ahead = exec[p].ahead
      /\ \A q \in Execution \ {p} : exec'[q] = exec[q]
    BY <1>1, GotoFields DEF SandboxInv, TypeOK, At
<1>3. InFlight(p) /\ ~ InFlight(p)' /\ ~ Clears(p)
    BY <1>1, <1>2 DEF InFlight, Clears
<1>4. \A q \in Execution \ {p} : Clears(q)' <=> Clears(q)
    BY <1>2 DEF InFlight, Clears
<1>5. TypeOK'
    BY <1>1, <1>2 DEF SandboxInv, TypeOK, OnBrowser, OnContext
<1>6. AheadIsOccupied'
    BY <1>1, <1>2 DEF SandboxInv, AheadIsOccupied, Occupied
<1>7. SharedStateIsOwned'
    BY <1>1, <1>3, <1>4, Makers DEF SandboxInv, SharedStateIsOwned
<1>8. ASSUME Alone(p) PROVE \A b \in browsers' : b.by # p
    BY <1>1, <1>3, <1>8 DEF SandboxInv, AloneHasItsOwn, AloneSees
<1> QED
    BY <1>1, <1>2, <1>3, <1>5, <1>6, <1>7, <1>8, StepOfOne

(* Every step of the finally block preserves the invariant.                *)
LEMMA FinallyKeepsSandboxInv ==
    ASSUME SandboxInv, NEW p \in Execution, Finally(p)
    PROVE  SandboxInv'
<1>1. CASE SessionClosed(p)
    BY <1>1, SettledKeepsSandboxInv DEF SessionClosed, Clears, InFlight
<1>2. CASE SessionSwept(p)
    BY <1>2, SettledKeepsSandboxInv DEF SessionSwept, Clears, InFlight
<1> QED
    BY <1>1, <1>2, CloseSessionKeepsSandboxInv, ShutdownKeepsSandboxInv,
       SweepSessionKeepsSandboxInv, ClearSessionsKeepsSandboxInv,
       BrowserClosedKeepsSandboxInv DEF Finally

-----------------------------------------------------------------------------
(* The invariant and what it gives.                                        *)

(* The inductive invariant holds in every state.                           *)
THEOREM SandboxInvariant == Spec => []SandboxInv
<1>1. Init => SandboxInv
    BY InitSandboxInv
<1>2. SandboxInv /\ [Next]_vars => SandboxInv'
    <2> SUFFICES ASSUME SandboxInv, [Next]_vars PROVE SandboxInv'
        OBVIOUS
    <2>1. CASE Next
        BY <2>1, BeginKeepsSandboxInv, StepKeepsSandboxInv, FinallyKeepsSandboxInv DEF Next
    <2>2. CASE UNCHANGED vars
        BY <2>2 DEF vars, SandboxInv, TypeOK, AheadIsOccupied, Occupied, OverlapsRecorded,
           StoresItsOwn, SharedStateIsOwned, NothingCarriedOver, AloneHasItsOwn, AloneSees,
           AloneIsUndisturbed, LeakOnlyByOverlap, Alone, Usable, Clears, InFlight
    <2> QED
        BY <2>1, <2>2
<1> QED
    BY <1>1, <1>2, PTL DEF Spec

(* The state of the model is always well formed.                           *)
THEOREM SandboxTypes == Spec => []TypeOK
<1>1. SandboxInv => TypeOK
    BY DEF SandboxInv
<1> QED
    BY <1>1, SandboxInvariant, PTL

(* Sessions and the browser field are always owned by an execution still   *)
(* in flight: a sandbox nobody uses is empty.                              *)
THEOREM SharedStateAlwaysOwned == Spec => []SharedStateIsOwned
<1>1. SandboxInv => SharedStateIsOwned
    BY DEF SandboxInv
<1> QED
    BY <1>1, SandboxInvariant, PTL

(* No execution ever works in a session or browser of one that ended before*)
(* it began.                                                               *)
THEOREM NothingEverCarriedOver == Spec => []NothingCarriedOver
<1>1. SandboxInv => NothingCarriedOver
    BY DEF SandboxInv
<1> QED
    BY <1>1, SandboxInvariant, PTL

(* An execution that overlaps no other always finds what it uses alive.    *)
THEOREM AloneAlwaysUndisturbed == Spec => []AloneIsUndisturbed
<1>1. SandboxInv => AloneIsUndisturbed
    BY DEF SandboxInv
<1> QED
    BY <1>1, SandboxInvariant, PTL

(* Only an execution that overlapped another leaves a browser running.     *)
THEOREM LeaksAreOverlaps == Spec => []LeakOnlyByOverlap
<1>1. SandboxInv => LeakOnlyByOverlap
    BY DEF SandboxInv
<1> QED
    BY <1>1, SandboxInvariant, PTL
=============================================================================
