-------------------------------- MODULE Browser --------------------------------
(***************************************************************************)
(* The warm Chromium and the browser session (tools/browser/browser.py).   *)
(* Renders take a context of their own, the browser_* tools share one;     *)
(* both come from one Chromium, launched under a lock and launched again   *)
(* after it died.  The session's page is made under a second lock; reset   *)
(* and close take none.                                                    *)
(***************************************************************************)
EXTENDS Naturals, FiniteSets

CONSTANTS Tasks,         \* tool calls, the warm-up and the shutdown
          MaxLaunches, MaxContexts, MaxFaults   \* bounds

None == 0
Free == "free"
Ops == {"warm", "render", "navigate", "reset", "close"}

VARIABLES
    drivers,     \* Playwright drivers that run, by number
    chromes,     \* their Chromium processes that run
    manager,     \* _pw and _browser
    lock,        \* BrowserManager._lock
    contexts,    \* open contexts: [n, browser]
    session,     \* BrowserSession: its context, and its page
    pageLock,    \* BrowserSession._lock
    task,        \* where each task is
    hung,        \* history: a close or stop failed, timed out, or was cancelled
    overlapped,  \* history: the session was closed while a page was being made
    orphaned,    \* history: a page closed by itself or could not be made
    lostDrivers,    \* history: drivers that came up for a render that was cancelled
    lostContexts,   \* history: contexts likewise
    launches, opened, faults

browser == <<drivers, chromes, manager, lock>>
page == <<contexts, session, pageLock, opened>>
lost == <<lostDrivers, lostContexts>>
excuses == <<hung, overlapped, orphaned, lost>>
vars == <<browser, page, task, excuses, launches, faults>>

Rest == [op |-> "none", pc |-> "rest"]
At(t, pc) == task[t].pc = pc
Goto(t, pc) == task' = [task EXCEPT ![t].pc = pc]
Done(t) == task' = [task EXCEPT ![t] = Rest]
Fault(ok) == IF ok THEN UNCHANGED faults ELSE faults < MaxFaults /\ faults' = faults + 1
Hung(ok) == hung' = (hung \/ ~ok)
\* The error of a task that was making a page leaves the session's lock.
Released(t) == IF pageLock = t THEN Free ELSE pageLock

-----------------------------------------------------------------------------
Start(t, op) ==
    /\ task[t] = Rest
    /\ task' = [task EXCEPT ![t] = [op |-> op, browser |-> None, ctx |-> None,
                                    pc |-> CASE op \in {"warm", "render"} -> "ensure"
                                             [] op = "navigate" -> "page"
                                             [] OTHER -> "reset"]]
    /\ UNCHANGED <<browser, page, excuses, launches, faults>>

(* BrowserManager *)

\* What follows _ensure_browser
HandOut(t, b) ==
    task' = [task EXCEPT ![t] = IF @.op = "warm" THEN Rest
                                ELSE [@ EXCEPT !.pc = "context", !.browser = b]]

\* A plausible slip: the browser is looked at before the lock is taken.
EnsureUnlocked(t) ==
    /\ At(t, "ensure")
    /\ IF manager.browser \in chromes
       THEN HandOut(t, manager.browser) /\ UNCHANGED lock
       ELSE Goto(t, "drop") /\ lock' = t
    /\ UNCHANGED <<drivers, chromes, manager, page, excuses, launches, faults>>

EnsureBrowser(t) ==
    /\ At(t, "ensure") /\ lock = Free
    /\ IF manager.browser \in chromes
       THEN HandOut(t, manager.browser) /\ UNCHANGED lock
       ELSE Goto(t, "drop") /\ lock' = t
    /\ UNCHANGED <<drivers, chromes, manager, page, excuses, launches, faults>>

Open(b) == {c \in contexts : c.browser = b}

\* _drop_dead_browser: the browser's close, then the driver's stop.
CloseBrowser(t, ok) ==
    /\ At(t, "drop") /\ Fault(ok) /\ Hung(ok)
    /\ chromes' = IF ok THEN chromes \ {manager.browser} ELSE chromes
    /\ contexts' = IF ok THEN contexts \ Open(manager.browser) ELSE contexts
    /\ Goto(t, "stop")
    /\ UNCHANGED <<drivers, manager, lock, session, pageLock, opened, overlapped, orphaned,
                   lost, launches>>

StopDriver(t, ok) ==
    /\ At(t, "stop") /\ Fault(ok) /\ Hung(ok)
    /\ IF ok
       THEN /\ drivers' = drivers \ {manager.pw} /\ chromes' = chromes \ {manager.pw}
            /\ contexts' = contexts \ Open(manager.pw)
       ELSE UNCHANGED <<drivers, chromes, contexts>>
    /\ manager' = [pw |-> None, browser |-> None]
    /\ IF task[t].op = "close"
       THEN lock' = Free /\ Done(t)
       ELSE UNCHANGED lock /\ Goto(t, "start")
    /\ UNCHANGED <<session, pageLock, opened, overlapped, orphaned, lost, launches>>

StartDriver(t, ok) ==
    /\ At(t, "start") /\ Fault(ok) /\ launches < MaxLaunches
    /\ IF ok
       THEN /\ launches' = launches + 1
            /\ drivers' = drivers \cup {launches'}
            /\ manager' = [manager EXCEPT !.pw = launches']
            /\ Goto(t, "launch") /\ UNCHANGED <<lock, pageLock>>
       ELSE /\ lock' = Free /\ pageLock' = Released(t) /\ Done(t)
            /\ UNCHANGED <<launches, drivers, manager>>
    /\ UNCHANGED <<chromes, contexts, session, opened, excuses>>

\* A launch that fails leaves its driver for the next caller to stop.
Launch(t, ok) ==
    /\ At(t, "launch") /\ Fault(ok)
    /\ lock' = Free
    /\ IF ok
       THEN /\ chromes' = chromes \cup {manager.pw}
            /\ manager' = [manager EXCEPT !.browser = manager.pw]
            /\ HandOut(t, manager.pw) /\ UNCHANGED pageLock
       ELSE Done(t) /\ pageLock' = Released(t) /\ UNCHANGED <<chromes, manager>>
    /\ UNCHANGED <<drivers, contexts, session, opened, excuses, launches>>

\* A render's context, or the session's; it fails when the browser is gone.
NewContext(t) ==
    /\ At(t, "context")
    /\ LET b == task[t].browser
           c == [n |-> opened + 1, browser |-> b]
           render == task[t].op = "render"
       IN  IF b \in chromes
           THEN /\ opened < MaxContexts /\ opened' = opened + 1
                /\ contexts' = contexts \cup {c}
                /\ session' = IF render THEN session ELSE [session EXCEPT !.context = c.n]
                /\ task' = [task EXCEPT ![t].ctx = c.n,
                                        ![t].pc = IF render THEN "use" ELSE "new page"]
                /\ UNCHANGED pageLock
           ELSE Done(t) /\ pageLock' = Released(t) /\ UNCHANGED <<contexts, session, opened>>
    /\ UNCHANGED <<browser, excuses, launches, faults>>

Without(n) == {c \in contexts : c.n # n}

\* The end of a render
CloseContext(t, ok) ==
    /\ At(t, "use") /\ Fault(ok) /\ Hung(ok)
    /\ contexts' = IF ok THEN Without(task[t].ctx) ELSE contexts
    /\ Done(t)
    /\ UNCHANGED <<browser, session, pageLock, opened, overlapped, orphaned, lost, launches>>

(* A render has 30 seconds; then it is cancelled where it waits. *)

Cut(t) ==
    /\ task[t].op = "render" /\ Fault(FALSE)
    /\ lock' = (IF lock = t THEN Free ELSE lock) /\ Done(t)
    /\ UNCHANGED <<session, pageLock, hung, overlapped, orphaned>>

\* Nothing comes of what it waited for.
CutShort(t) ==
    /\ task[t].pc \in {"ensure", "drop", "stop", "start", "launch", "context"} /\ Cut(t)
    /\ UNCHANGED <<drivers, chromes, manager, contexts, opened, lost, launches>>

\* The dead browser closes, or the driver stops, all the same; the manager still has both.
CutDropping(t) ==
    /\ task[t].pc \in {"drop", "stop"} /\ Cut(t)
    /\ LET b == IF At(t, "drop") THEN manager.browser ELSE manager.pw
       IN  /\ drivers' = IF At(t, "drop") THEN drivers ELSE drivers \ {b}
           /\ chromes' = chromes \ {b} /\ contexts' = contexts \ Open(b)
    /\ UNCHANGED <<manager, opened, lost, launches>>

\* The driver comes up all the same, and nobody has it.
CutStarting(t) ==
    /\ At(t, "start") /\ Cut(t)
    /\ launches < MaxLaunches /\ launches' = launches + 1
    /\ drivers' = drivers \cup {launches'} /\ lostDrivers' = lostDrivers \cup {launches'}
    /\ UNCHANGED <<chromes, manager, contexts, opened, lostContexts>>

\* Chromium comes up all the same, for the next caller to stop with its driver.
CutLaunching(t) ==
    /\ At(t, "launch") /\ Cut(t)
    /\ chromes' = chromes \cup {manager.pw}
    /\ UNCHANGED <<drivers, manager, contexts, opened, lost, launches>>

\* The context opens all the same, and nobody has it.
CutOpening(t) ==
    /\ At(t, "context") /\ task[t].browser \in chromes /\ Cut(t)
    /\ opened < MaxContexts /\ opened' = opened + 1
    /\ contexts' = contexts \cup {[n |-> opened', browser |-> task[t].browser]}
    /\ lostContexts' = lostContexts \cup {opened'}
    /\ UNCHANGED <<drivers, chromes, manager, lostDrivers, launches>>

-----------------------------------------------------------------------------
(* BrowserSession *)

Closing == \E t \in Tasks : At(t, "clear")

EnsurePage(t) ==
    /\ At(t, "page") /\ pageLock = Free
    /\ IF session.page = "open"
       THEN Done(t) /\ UNCHANGED pageLock
       ELSE Goto(t, "ensure") /\ pageLock' = t
    /\ overlapped' = (overlapped \/ Closing)
    /\ UNCHANGED <<browser, contexts, session, opened, hung, orphaned, lost, launches, faults>>

\* The page may be made in a context that a reset closed; then it fails.
NewPage(t, ok) ==
    /\ At(t, "new page")
    /\ LET works == ok /\ \E c \in contexts : c.n = task[t].ctx
       IN  /\ Fault(ok)
           /\ session' = IF works THEN [session EXCEPT !.page = "open"] ELSE session
           /\ orphaned' = (orphaned \/ ~works)
    /\ pageLock' = Free /\ Done(t)
    /\ UNCHANGED <<browser, contexts, opened, hung, overlapped, lost, launches>>

\* reset and close: the context's close, if there is one, then both fields are cleared.
Reset(t, ok) ==
    /\ At(t, "reset") /\ session.context # None /\ Fault(ok) /\ Hung(ok)
    /\ contexts' = IF ok THEN Without(session.context) ELSE contexts
    /\ overlapped' = (overlapped \/ pageLock # Free)
    /\ Goto(t, "clear")
    /\ UNCHANGED <<browser, session, pageLock, opened, orphaned, lost, launches>>

Clear(t) ==
    /\ \/ At(t, "clear")
       \/ At(t, "reset") /\ session.context = None
    /\ session' = [context |-> None, page |-> "none"]
    /\ overlapped' = (overlapped \/ pageLock # Free)
    /\ IF task[t].op = "close" THEN Goto(t, "shut") ELSE Done(t)
    /\ UNCHANGED <<browser, contexts, pageLock, opened, hung, orphaned, lost, launches, faults>>

\* BrowserManager.close, the last step of a shutdown
Close(t) ==
    /\ At(t, "shut") /\ lock = Free /\ lock' = t
    /\ Goto(t, "drop")
    /\ UNCHANGED <<drivers, chromes, manager, page, excuses, launches, faults>>

-----------------------------------------------------------------------------
(* Chromium *)

Gone(s) == IF s.page = "open" THEN "closed" ELSE s.page

ChromeDies(b) ==
    /\ b \in chromes /\ Fault(FALSE)
    /\ chromes' = chromes \ {b} /\ contexts' = contexts \ Open(b)
    /\ session' = IF \E c \in Open(b) : c.n = session.context
                  THEN [session EXCEPT !.page = Gone(session)] ELSE session
    /\ UNCHANGED <<drivers, manager, lock, pageLock, opened, task, excuses, launches>>

\* The site closes its only tab.
PageCloses ==
    /\ session.page = "open" /\ Fault(FALSE)
    /\ session' = [session EXCEPT !.page = "closed"]
    /\ orphaned' = TRUE
    /\ UNCHANGED <<browser, contexts, pageLock, opened, task, hung, overlapped, lost, launches>>

Init ==
    /\ drivers = {} /\ chromes = {} /\ manager = [pw |-> None, browser |-> None] /\ lock = Free
    /\ contexts = {} /\ session = [context |-> None, page |-> "none"] /\ pageLock = Free
    /\ task = [t \in Tasks |-> Rest]
    /\ hung = FALSE /\ overlapped = FALSE /\ orphaned = FALSE
    /\ lostDrivers = {} /\ lostContexts = {}
    /\ launches = 0 /\ opened = 0 /\ faults = 0

Step(t) ==
    \/ EnsureBrowser(t) \/ NewContext(t) \/ EnsurePage(t) \/ Clear(t) \/ Close(t)
    \/ \E ok \in BOOLEAN :
          \/ CloseBrowser(t, ok) \/ StopDriver(t, ok) \/ StartDriver(t, ok) \/ Launch(t, ok)
          \/ CloseContext(t, ok) \/ NewPage(t, ok) \/ Reset(t, ok)
    \/ CutShort(t) \/ CutDropping(t) \/ CutStarting(t) \/ CutLaunching(t) \/ CutOpening(t)

Next ==
    \/ \E t \in Tasks, op \in Ops : Start(t, op)
    \/ \E t \in Tasks : Step(t)
    \/ \E b \in chromes : ChromeDies(b)
    \/ PageCloses

Spec == Init /\ [][Next]_vars

-----------------------------------------------------------------------------
Numbers == 0 .. MaxLaunches
Places == {"ensure", "drop", "stop", "start", "launch", "context", "use", "page", "new page",
           "reset", "clear", "shut"}

\* Types of the processes, contexts and tasks.
TypeOK ==
    /\ drivers \subseteq Numbers /\ chromes \subseteq drivers
    /\ manager \in [pw : Numbers, browser : Numbers]
    /\ lock \in Tasks \cup {Free} /\ pageLock \in Tasks \cup {Free}
    /\ contexts \subseteq [n : 1 .. MaxContexts, browser : chromes]
    /\ session \in [context : 0 .. MaxContexts, page : {"none", "open", "closed"}]
    /\ task \in [Tasks -> {Rest} \cup [op : Ops, browser : Numbers, ctx : 0 .. MaxContexts,
                                       pc : Places]]
    /\ {hung, overlapped, orphaned} \subseteq BOOLEAN
    /\ lostDrivers \subseteq Numbers /\ lostContexts \subseteq 0 .. MaxContexts
    /\ launches \in Numbers /\ opened \in 0 .. MaxContexts

Excused == hung \/ overlapped \/ orphaned

\* One driver and one Chromium, whatever renders, navigations, restarts of Chromium and
\* the shutdown do at once, unless a stop failed (BrowserManager: "two concurrent renders
\* can't double-launch"); the drivers that came up for a cancelled render stay beside it.
OneBrowser == hung \/ Cardinality(drivers \ lostDrivers) <= 1

\* Every open context is a render's or the session's, unless it opened for a render that
\* was cancelled, the session was closed while a page was being made, a page closed by
\* itself, or a close failed.
ContextsOwned ==
    Excused \/ \A c \in contexts :
                   \/ c.n \in {session.context} \cup lostContexts
                   \/ \E t \in Tasks : task[t].pc = "use" /\ task[t].ctx = c.n

-----------------------------------------------------------------------------
(* Inductive invariant *)

Launching == {"drop", "stop", "start", "launch"}

\* What a task does is a step of its operation.
OnItsWay ==
    \A t \in Tasks :
        /\ task[t].pc \in {"ensure", "start", "launch"} => task[t].op \in {"warm", "render", "navigate"}
        /\ task[t].pc \in {"drop", "stop"} => task[t].op # "reset"
        /\ task[t].pc = "context" => task[t].op \in {"render", "navigate"}
        /\ task[t].pc \in {"page", "new page"} => task[t].op = "navigate"
        /\ task[t].pc = "shut" => task[t].op = "close"

\* Who launches has the manager's lock; who makes a page has the session's, and no page is open.
LocksHeld ==
    \A t \in Tasks :
        /\ task[t].pc \in Launching => lock = t
        /\ task[t].op = "navigate" /\ task[t].pc # "page" => pageLock = t /\ session.page # "open"

\* The manager knows the only driver nobody lost, and has stopped it before it starts another.
DriverIsManaged ==
    /\ hung \/ drivers \ lostDrivers \subseteq {manager.pw}
    /\ \A t \in Tasks : At(t, "start") => hung \/ drivers \subseteq lostDrivers
    /\ \A t \in Tasks : At(t, "launch") => manager.pw \in drivers

\* Contexts are told apart by their numbers.
NumbersApart ==
    /\ session.context <= opened /\ \A c \in contexts : c.n <= opened
    /\ \A c, d \in contexts : c.n = d.n => c = d

\* While the session has no open page and none is being made in it, and while it is being
\* closed, its context is not open: it was closed, or died with its browser.
SessionIsClosed ==
    Excused \/ (\A c \in contexts : c.n # session.context)
        \/ (~Closing /\ (session.page = "open" \/ \E t \in Tasks : At(t, "new page")))

\* Nobody makes a page while the session is being closed.
ClosesAlone == Closing /\ pageLock # Free => overlapped

IInv ==
    /\ TypeOK /\ OnItsWay /\ LocksHeld /\ DriverIsManaged /\ NumbersApart /\ SessionIsClosed
    /\ ClosesAlone /\ OneBrowser /\ ContextsOwned
================================================================================
