---------------------------- MODULE ToolProcesses ----------------------------
(* The processes of one toolkit (tools/execution.py, run_command of           *)
(* tools/base_tools.py, authorize_command of runtime/access.py): commands and *)
(* skill scripts from their check to the end of what they started, while      *)
(* their turn ends, they run out of time and are cancelled at any await; and  *)
(* the browser, which actions start and a close ends.                         *)
(*                                                                            *)
(* A process starts others, in its tree or detached from it, that hold the    *)
(* pipes of the call or had their output redirected.                          *)
EXTENDS Naturals, FiniteSets

CONSTANTS Call,        \* calls of run_command and of execute_skill_script
          Serial,      \* those of run_command, which take _command_lock
          MaxScopes,   \* bound on changes of turn or session
          MaxHits,     \* bound on cancellations
          MaxActions,  \* bound on actions of the browser
          MaxMishaps   \* bound on failures of the system or of the browser

VARIABLES
  platform,  \* how a tree is killed
  scope,     \* _file_access_scope: the turn and session of now
  call,      \* each call: place, scope it was approved in, cancellation due,
             \* why it cleans up, what it told, whether its tree was killed and its
             \* cleanup cut short
  living,    \* the kinds of its processes that are alive
  launched,  \* history: the scope its process was started in
  cmdLock,   \* _command_lock
  browser,   \* the three fields, what is alive of them, who holds the lock and where
  used       \* counters of the bounds

toolVars == <<platform, scope, call, living, launched, cmdLock, browser, used>>

NoCall == "none"

ASSUME ToolAssumption ==
  /\ Serial \subseteq Call /\ NoCall \notin Call
  /\ {MaxScopes, MaxHits, MaxActions, MaxMishaps} \subseteq Nat

Part == {"driver", "chrome", "page"}
Unused == [at |-> "off", scope |-> 0, due |-> FALSE, why |-> "", told |-> "", killed |-> FALSE, cut |-> FALSE]

\* Its processes: the root, others in its tree, those that left it (stray), and
\* of both the ones with redirected output (quiet, loose).
InTree  == {"root", "tree", "quiet"}
Holders == {"root", "tree", "stray"}
Process == InTree \cup Holders \cup {"loose"}

Spend(what, limit) == used[what] < limit /\ used' = [used EXCEPT ![what] = @ + 1]

ToolInit ==
  /\ platform \in {"posix", "windows"} /\ scope = 1
  /\ call = [c \in Call |-> Unused] /\ living = [c \in Call |-> {}] /\ launched = [c \in Call |-> 0]
  /\ cmdLock = NoCall
  /\ browser = [field |-> {}, live |-> {}, at |-> "idle", due |-> FALSE, wrong |-> FALSE]
  /\ used = [scope |-> 0, hit |-> 0, action |-> 0, mishap |-> 0]

-----------------------------------------------------------------------------
(* A call until its process is started.                                       *)

Freed(c) == IF cmdLock = c THEN NoCall ELSE cmdLock
Told(c, what) == [call EXCEPT ![c].at = "done", ![c].told = what]
At(c, places) == call[c].at \in places /\ ~call[c].due
CallSteps == UNCHANGED <<platform, scope, browser>>

BeginCall(c) ==
  /\ call[c].at = "off"
  /\ call' = [call EXCEPT ![c].at = IF c \in Serial THEN "lock" ELSE "check"]
  /\ UNCHANGED <<living, launched, cmdLock, used>> /\ CallSteps

TakeLock(c) ==
  /\ At(c, {"lock"}) /\ cmdLock = NoCall /\ cmdLock' = c
  /\ call' = [call EXCEPT ![c].at = "check"]
  /\ UNCHANGED <<living, launched, used>> /\ CallSteps

\* validate_agent_command refuses it; or it reads only; or the user is asked.
CheckCommand(c) ==
  /\ At(c, {"check"})
  /\ \/ call' = Told(c, "refused") /\ cmdLock' = Freed(c)
     \/ call' = [call EXCEPT ![c].at = "prepare", ![c].scope = scope] /\ UNCHANGED cmdLock
     \/ call' = [call EXCEPT ![c].at = "ask", ![c].scope = scope] /\ UNCHANGED cmdLock
  /\ UNCHANGED <<living, launched, used>> /\ CallSteps

\* confirm: the answer counts for the scope it was asked in.
Answer(c) ==
  /\ At(c, {"ask"})
  /\ \/ /\ scope = call[c].scope /\ call' = [call EXCEPT ![c].at = "prepare"] /\ UNCHANGED cmdLock
     \/ call' = Told(c, "refused") /\ cmdLock' = Freed(c)
  /\ UNCHANGED <<living, launched, used>> /\ CallSteps

\* The environment is ready; the scope is compared once more right before.
Launch(c) ==
  /\ At(c, {"prepare"})
  /\ IF scope # call[c].scope
     THEN call' = Told(c, "refused") /\ cmdLock' = Freed(c) /\ UNCHANGED <<living, launched>>
     ELSE /\ call' = [call EXCEPT ![c].at = "run"] /\ living' = [living EXCEPT ![c] = {"root"}]
          /\ launched' = [launched EXCEPT ![c] = scope] /\ UNCHANGED cmdLock
  /\ UNCHANGED used /\ CallSteps

\* A cancellation before there is a process.
GiveUpCall(c) ==
  /\ call[c].at \in {"lock", "check", "ask", "prepare"} /\ call[c].due
  /\ call' = Told(c, "cancelled") /\ cmdLock' = Freed(c)
  /\ UNCHANGED <<living, launched, used>> /\ CallSteps

-----------------------------------------------------------------------------
(* Its processes, and _terminate_process_tree.                                *)

\* Who left the tree or has no pipes cannot start one who is in it or has them.
Children(p) ==
  {q \in Process \ {"root"} : (q \in InTree => p \in InTree) /\ (q \in Holders => p \in Holders)}

\* They start and end as they like.
Fork(c) ==
  /\ \E p \in living[c] : \E q \in Children(p) : living' = [living EXCEPT ![c] = @ \cup {q}]
  /\ UNCHANGED <<call, launched, cmdLock, used>> /\ CallSteps

Exits(c) ==
  /\ \E p \in living[c] : living' = [living EXCEPT ![c] = @ \ {p}]
  /\ UNCHANGED <<call, launched, cmdLock, used>> /\ CallSteps

\* communicate() returns when the root has exited and nobody holds the pipes.
Finish(c) ==
  /\ At(c, {"run"}) /\ living[c] \cap Holders = {}
  /\ call' = Told(c, "result") /\ cmdLock' = Freed(c)
  /\ UNCHANGED <<living, launched, used>> /\ CallSteps

\* Out of time, or cancelled.
Interrupt(c) ==
  /\ call[c].at = "run"
  /\ call' = [call EXCEPT ![c].at = "kill", ![c].why = IF call[c].due THEN "cancelled" ELSE "timeout",
                          ![c].due = FALSE]
  /\ UNCHANGED <<living, launched, cmdLock, used>> /\ CallSteps

\* The root's own exit leaves the tree to itself: nothing but its pipes is
\* waited for, its number may be another process's by now.
Killed(c) == living' = [living EXCEPT ![c] = @ \ InTree]

\* Mutant: a process that has exited needs no cleanup.
KillTreeUnlessExited(c) ==
  /\ call[c].at = "kill"
  /\ IF "root" \notin living[c]
     THEN call' = Told(c, call[c].why) /\ cmdLock' = Freed(c) /\ UNCHANGED <<living, used>>
     ELSE Killed(c) /\ call' = [call EXCEPT ![c].at = "drain", ![c].killed = TRUE] /\ UNCHANGED <<cmdLock, used>>
  /\ UNCHANGED launched /\ CallSteps

\* killpg at once, taskkill in a process of its own; denied or late, at least
\* the root is killed and the failure is kept.
KillTree(c) ==
  /\ call[c].at = "kill"
  /\ \/ "root" \notin living[c] /\ call' = [call EXCEPT ![c].at = "drain"] /\ UNCHANGED <<living, used>>
     \/ /\ "root" \in living[c] /\ (platform = "windows" => ~call[c].due)
        /\ Killed(c) /\ call' = [call EXCEPT ![c].at = "drain", ![c].killed = TRUE] /\ UNCHANGED used
     \/ /\ "root" \in living[c] /\ (platform = "windows" => ~call[c].due) /\ Spend("mishap", MaxMishaps)
        /\ living' = [living EXCEPT ![c] = @ \ {"root"}] /\ call' = [call EXCEPT ![c].at = "failed"]
  /\ UNCHANGED <<launched, cmdLock>> /\ CallSteps

\* The pipes are closed, or the deadline of the cleanup passes first.
Drain(c) ==
  /\ At(c, {"drain", "failed"})
  /\ \/ call[c].at = "drain" /\ living[c] \cap Holders = {} /\ call' = Told(c, call[c].why)
     \/ call' = Told(c, "unverified")
  /\ cmdLock' = Freed(c)
  /\ UNCHANGED <<living, launched, used>> /\ CallSteps

\* A cancellation breaks the cleanup off, also the first one after a timeout;
\* taskkill may do its work all the same.
CutShort(c) ==
  /\ call[c].due /\ \/ call[c].at \in {"drain", "failed"}
                    \/ platform = "windows" /\ call[c].at = "kill" /\ "root" \in living[c]
  /\ call' = [Told(c, "cancelled") EXCEPT ![c].cut = TRUE] /\ cmdLock' = Freed(c)
  /\ IF call[c].at = "kill" THEN living' \in {living, [living EXCEPT ![c] = @ \ InTree]} ELSE UNCHANGED living
  /\ UNCHANGED <<launched, used>> /\ CallSteps

\* A turn or session ends; its calls are cancelled, maybe later, maybe again.
EndScope ==
  /\ Spend("scope", MaxScopes) /\ scope' = scope + 1
  /\ UNCHANGED <<platform, call, living, launched, cmdLock, browser>>

CancelCall(c) ==
  /\ call[c].at \notin {"off", "done"} /\ ~call[c].due /\ Spend("hit", MaxHits)
  /\ call' = [call EXCEPT ![c].due = TRUE]
  /\ UNCHANGED <<living, launched, cmdLock>> /\ CallSteps

-----------------------------------------------------------------------------
(* PlaywrightBrowserSession: one thing at a time, under its lock.             *)

BrowserGoes(b) == browser' = b /\ UNCHANGED <<platform, scope, call, living, launched, cmdLock>>
Moved(place) == [browser EXCEPT !.at = place, !.due = FALSE]
With(p) == [Moved("") EXCEPT !.field = @ \cup {p}, !.live = @ \cup {p}]

\* page_action: the browser is started unless its page is known.
BeginAction ==
  /\ browser.at = "idle" /\ Spend("action", MaxActions)
  /\ BrowserGoes(Moved(IF "page" \in browser.field THEN "operate" ELSE "start"))

CancelAction ==
  /\ browser.at \notin {"idle", "close", "stop"} /\ ~browser.due /\ Spend("hit", MaxHits)
  /\ BrowserGoes([browser EXCEPT !.due = TRUE])

\* _start: a cancellation while the driver starts leaves it to itself; from
\* then on what was started is closed again.
StartDriver ==
  /\ browser.at = "start"
  /\ \/ ~browser.due /\ BrowserGoes([With("driver") EXCEPT !.at = "launch"]) /\ UNCHANGED used
     \/ /\ browser.due /\ UNCHANGED used
        /\ \/ BrowserGoes(Moved("idle"))
           \/ BrowserGoes([Moved("idle") EXCEPT !.live = @ \cup {"driver"}, !.wrong = TRUE])
     \/ Spend("mishap", MaxMishaps) /\ BrowserGoes(Moved("idle"))

LaunchChrome ==
  /\ browser.at = "launch"
  /\ \/ ~browser.due /\ BrowserGoes([With("chrome") EXCEPT !.at = "open"]) /\ UNCHANGED used
     \/ /\ browser.due /\ UNCHANGED used
        /\ \E got \in {{}, {"chrome"}} : BrowserGoes([Moved("close") EXCEPT !.live = @ \cup got])
     \/ Spend("mishap", MaxMishaps) /\ BrowserGoes(Moved("close"))

OpenPage ==
  /\ browser.at = "open"
  /\ \/ ~browser.due /\ BrowserGoes([With("page") EXCEPT !.at = "operate"]) /\ UNCHANGED used
     \/ browser.due /\ BrowserGoes(Moved("close")) /\ UNCHANGED used
     \/ Spend("mishap", MaxMishaps) /\ BrowserGoes(Moved("close"))

\* goto, click, fill, ...: a result, an error as text, or a cancellation.
Operate == browser.at = "operate" /\ BrowserGoes(Moved("idle")) /\ UNCHANGED used

\* close(): of the toolkit or of browser_close.
BeginClose == browser.at = "idle" /\ BrowserGoes(Moved("close")) /\ UNCHANGED used

\* The browser, and whatever comes of that, the driver, which takes along what
\* it started; the fields only when the driver was stopped.
CloseChrome ==
  /\ browser.at = "close"
  /\ \/ BrowserGoes([Moved("stop") EXCEPT !.live = @ \ (browser.field \cap {"chrome", "page"})]) /\ UNCHANGED used
     \/ "chrome" \in browser.field /\ Spend("mishap", MaxMishaps) /\ BrowserGoes(Moved("stop"))

StopDriver ==
  /\ browser.at = "stop"
  /\ \/ BrowserGoes([Moved("idle") EXCEPT !.field = {},
                       !.live = IF "driver" \in browser.field THEN {} ELSE @]) /\ UNCHANGED used
     \/ /\ "driver" \in browser.field /\ Spend("mishap", MaxMishaps)
        /\ BrowserGoes([Moved("idle") EXCEPT !.wrong = TRUE])

\* The browser goes away by itself.
Crashes ==
  /\ "chrome" \in browser.live /\ Spend("mishap", MaxMishaps)
  /\ BrowserGoes([browser EXCEPT !.live = @ \ {"chrome", "page"}, !.wrong = TRUE])

CommandNext ==
  \/ \E c \in Call : \/ BeginCall(c) \/ TakeLock(c) \/ CheckCommand(c) \/ Answer(c) \/ Launch(c) \/ GiveUpCall(c)
                     \/ Fork(c) \/ Exits(c) \/ Finish(c) \/ Interrupt(c) \/ KillTree(c) \/ Drain(c) \/ CutShort(c)
                     \/ CancelCall(c)
  \/ EndScope

BrowserNext ==
  \/ BeginAction \/ CancelAction \/ StartDriver \/ LaunchChrome \/ OpenPage \/ Operate
  \/ BeginClose \/ CloseChrome \/ StopDriver \/ Crashes

ToolSpec == ToolInit /\ [][CommandNext \/ BrowserNext]_toolVars

-----------------------------------------------------------------------------
Ended(c) == call[c].at = "done"
Excused(c) == call[c].told = "unverified" \/ call[c].cut

\* What a call has to reclaim: who holds its pipes, and its tree if that was
\* killed.  Nobody promises to find a descendant that redirected its output and
\* outlives the root (README, section 6), or left the tree as well.
Owned(c) == living[c] \cap (Holders \cup (IF call[c].killed THEN InTree ELSE {}))

(* A call that ended left nothing it owns, unless it said that this is not    *)
(* verified or its cleanup was cancelled.                                     *)
ReclaimsWhatItOwns ==
  \A c \in Call : Ended(c) /\ ~Excused(c) => Owned(c) = {}

(* Two commands of one toolkit never run at the same time, unless the first   *)
(* one could not be cleaned up.                                               *)
OneCommandAtATime ==
  \A c, d \in Serial : c # d /\ Owned(c) # {} /\ Owned(d) # {} => \E e \in {c, d} : Ended(e) /\ Excused(e)

(* What runs was approved in the turn and session it was started in, however  *)
(* long the question stood and the preparation took.                          *)
StartedAsApproved ==
  \A c \in Call : launched[c] # 0 => call[c].scope = launched[c]

(* Between its actions the browser is there as a whole or not at all, and the *)
(* session knows which, so that a close releases it; unless it went away by   *)
(* itself, its driver could not be stopped, or was cancelled while starting.  *)
BrowserIsOwned ==
  browser.at = "idle" /\ ~browser.wrong => browser.live \in {{}, Part} /\ browser.field = browser.live

ToolsOwnTheirProcesses ==
  ReclaimsWhatItOwns /\ OneCommandAtATime /\ StartedAsApproved /\ BrowserIsOwned
=============================================================================
