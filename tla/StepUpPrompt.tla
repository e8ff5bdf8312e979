---------------------------- MODULE StepUpPrompt ----------------------------
(***************************************************************************)
(* Requests of the administration panel that need a fresh second factor.   *)
(* A request answered with 428 asks for the factor and is sent once more;  *)
(* requests that are refused while the prompt is open join it.  The prompt *)
(* (MfaStepUpDialog) may be closed, left or submitted again while an       *)
(* earlier submission is still under way.                                  *)
(***************************************************************************)
EXTENDS Naturals, FiniteSets

CONSTANTS
    Calls,      \* the requests
    MaxSubmits, \* bound: submissions of a code
    MaxMounts   \* bound: times the prompt is taken away and put back

BoundsAssumption == {MaxSubmits, MaxMounts} \subseteq Nat

VARIABLES
    call,      \* call[c]: the state of a request
    pending,   \* pendingStepUp: the promise that requests join
    mounted,   \* a handler is registered
    dialog,    \* the resolver (active), the error shown, and the grants there were when it opened
    submits,   \* submissions whose answer has not been handled
    made,      \* submissions made
    fresh,     \* the server holds the session for confirmed
    grants,    \* confirmations the server has given
    mounts

vars == <<call, pending, mounted, dialog, submits, made, fresh, grants, mounts>>

Shut == [active |-> FALSE, error |-> FALSE, at |-> 0]
Opened == [active |-> TRUE, error |-> FALSE, at |-> grants]
Waiting == {c \in Calls : call[c] = "waiting"}

(***************************************************************************)
(* runWithMfaStepUpRetry and requestMfaStepUp.                             *)
(***************************************************************************)
Send(c) ==
    /\ call[c] = "idle"
    /\ call' = [call EXCEPT ![c] = "sent"]
    /\ UNCHANGED <<pending, mounted, dialog, submits, made, fresh, grants, mounts>>

\* the request reaches the server, once or once more
Served(c) ==
    /\ call[c] \in {"sent", "resent"}
    /\ call' = [call EXCEPT ![c] =
         IF fresh THEN "done" ELSE IF call[c] = "sent" THEN "needs" ELSE "refused"]
    /\ UNCHANGED <<pending, mounted, dialog, submits, made, fresh, grants, mounts>>

\* joins the prompt that is open, opens one, or gives up when there is none
RequestMfaStepUp(c) ==
    /\ call[c] = "needs"
    /\ IF ~pending /\ ~mounted
       THEN call' = [call EXCEPT ![c] = "refused"] /\ UNCHANGED <<pending, dialog>>
       ELSE /\ call' = [call EXCEPT ![c] = "waiting"]
            /\ pending' = TRUE
            /\ dialog' = IF pending THEN dialog ELSE Opened
    /\ UNCHANGED <<mounted, submits, made, fresh, grants, mounts>>

\* the promise is settled: every request that waits goes on
Settle(success) ==
    /\ pending' = FALSE
    /\ call' = [c \in Calls |->
         IF c \notin Waiting THEN call[c] ELSE IF success THEN "resent" ELSE "refused"]

(***************************************************************************)
(* MfaStepUpDialog.  A submission is live while it is the one of           *)
(* pendingRequestRef and the prompt it was made for is the one that is     *)
(* open.                                                                   *)
(***************************************************************************)
Aborted == {[s EXCEPT !.live = FALSE] : s \in submits}

Submit ==
    /\ dialog.active /\ made < MaxSubmits
    /\ \A s \in submits : ~s.live
    /\ made' = made + 1
    /\ submits' = submits \cup {[id |-> made + 1, st |-> "sent", live |-> TRUE]}
    /\ dialog' = [dialog EXCEPT !.error = FALSE]
    /\ UNCHANGED <<call, pending, mounted, fresh, grants, mounts>>

\* a code that cannot be one is not sent
SubmitInvalid ==
    /\ dialog.active
    /\ \A s \in submits : ~s.live
    /\ dialog' = [dialog EXCEPT !.error = TRUE]
    /\ UNCHANGED <<call, pending, mounted, submits, made, fresh, grants, mounts>>

\* POST /account/mfa/step-up: the code is right, also of a submission that was aborted
StepUpGranted(s) ==
    /\ s.st = "sent"
    /\ submits' = (submits \ {s}) \cup {[s EXCEPT !.st = "granted"]}
    /\ grants' = grants + 1
    /\ fresh' = TRUE
    /\ UNCHANGED <<call, pending, mounted, dialog, made, mounts>>

StepUpRefused(s) ==
    /\ s.st = "sent"
    /\ submits' = (submits \ {s}) \cup {[s EXCEPT !.st = "refused"]}
    /\ UNCHANGED <<call, pending, mounted, dialog, made, fresh, grants, mounts>>

IsCurrent(s) == s.live /\ dialog.active

\* finish(true)
GrantedArrives(s) ==
    /\ s.st = "granted"
    /\ submits' = submits \ {s}
    /\ IF IsCurrent(s)
       THEN Settle(TRUE) /\ dialog' = Shut
       ELSE UNCHANGED <<call, pending, dialog>>
    /\ UNCHANGED <<mounted, made, fresh, grants, mounts>>

\* refused, or the answer was lost: the error is shown and the prompt stays
RefusedArrives(s) ==
    /\ s.st \in {"refused", "granted"}
    /\ submits' = submits \ {s}
    /\ dialog' = IF IsCurrent(s) THEN [dialog EXCEPT !.error = TRUE] ELSE dialog
    /\ UNCHANGED <<call, pending, mounted, made, fresh, grants, mounts>>

\* finish(false): the button, the escape key, a click outside
Cancel ==
    /\ dialog.active
    /\ submits' = Aborted
    /\ Settle(FALSE)
    /\ dialog' = Shut
    /\ UNCHANGED <<mounted, made, fresh, grants, mounts>>

\* the panel is left: whoever waits is told no
Unmount ==
    /\ mounted /\ mounts < MaxMounts
    /\ mounts' = mounts + 1
    /\ mounted' = FALSE
    /\ submits' = Aborted
    /\ IF dialog.active THEN Settle(FALSE) ELSE UNCHANGED <<call, pending>>
    /\ dialog' = Shut
    /\ UNCHANGED <<made, fresh, grants>>

Mount ==
    /\ ~mounted
    /\ mounted' = TRUE
    /\ UNCHANGED <<call, pending, dialog, submits, made, fresh, grants, mounts>>

\* the confirmation lasts for five minutes
GrantExpires ==
    /\ fresh
    /\ fresh' = FALSE
    /\ UNCHANGED <<call, pending, mounted, dialog, submits, made, grants, mounts>>

Init ==
    /\ call = [c \in Calls |-> "idle"]
    /\ pending = FALSE
    /\ mounted = TRUE
    /\ dialog = Shut
    /\ submits = {}
    /\ made = 0
    /\ fresh = FALSE
    /\ grants = 0
    /\ mounts = 0

Next ==
    \/ \E c \in Calls : Send(c) \/ Served(c) \/ RequestMfaStepUp(c)
    \/ \E s \in submits : StepUpGranted(s) \/ StepUpRefused(s) \/ GrantedArrives(s) \/ RefusedArrives(s)
    \/ Submit \/ SubmitInvalid \/ Cancel \/ Unmount \/ Mount \/ GrantExpires

Spec == Init /\ [][Next]_vars

\* Requests are served, and whoever sees the prompt answers or closes it.
FairSpec ==
    /\ Spec
    /\ \A c \in Calls : WF_vars(Served(c)) /\ WF_vars(RequestMfaStepUp(c))
    /\ WF_vars(Cancel)

(***************************************************************************)
(* Properties.                                                             *)
(***************************************************************************)
States == {"idle", "sent", "needs", "waiting", "resent", "done", "refused", "lost"}

TypeOK ==
    /\ call \in [Calls -> States]
    /\ pending \in BOOLEAN /\ mounted \in BOOLEAN /\ fresh \in BOOLEAN
    /\ dialog \in [active : BOOLEAN, error : BOOLEAN, at : 0 .. MaxSubmits]
    /\ Cardinality({s \in submits : s.live}) <= 1

\* Requests wait exactly while a prompt is open for them: none waits for a
\* prompt that has gone, and no prompt is open for nobody.
PromptIsForWaiting ==
    /\ pending <=> dialog.active
    /\ pending <=> Waiting # {}
    /\ dialog.active => mounted

\* A request is sent again only after the server confirmed the factor since its
\* prompt was opened: the late answer to a submission of an earlier prompt, or
\* a refused code, does not repeat the operation.
RetriedOnlyConfirmed ==
    \A c \in Calls : (call[c] = "waiting" /\ call'[c] = "resent") => grants > dialog.at

=============================================================================
