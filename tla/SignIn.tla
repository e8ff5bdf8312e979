------------------------------- MODULE SignIn -------------------------------
(***************************************************************************)
(* Signing in and out, as one browser tab sees it: AuthContext (the user   *)
(* shown, the copy in the session storage, the session lookup when a page  *)
(* loads), the forms of the login page, the logout of the panel and the    *)
(* account page's new name and new password, against the session version   *)
(* of the server.  Answers may be late, lost or arrive after a reload; the *)
(* cookie of an answer is stored although nobody waits for it any more.    *)
(***************************************************************************)
EXTENDS Naturals, FiniteSets

CONSTANTS
    MaxVersion, \* bound: session versions of the account
    MaxSent     \* bound: requests the tab sends

BoundsAssumption == {MaxVersion, MaxSent} \subseteq Nat

None == 0

VARIABLES
    ver,     \* session_version of the account
    name,    \* its name: the version at which it was given
    mfa,     \* a second factor is set up
    cookie,  \* the session version the browser's cookie names, or None
    user,    \* the user AuthContext shows, or None
    stored,  \* the copy in the session storage
    loading, \* authLoading
    rev,     \* authRevisionRef
    form,    \* the login page: which form, the challenge held, a request under way
    reqs,    \* requests without an answer handled
    sent,    \* requests sent
    out,     \* a logout was confirmed and nobody signed in since
    doubt    \* the tab cannot know: ended elsewhere, an answer lost, a logout or a sign-in crossed
             \* a change of the account; a reload with nothing under way settles it

vars == <<ver, name, mfa, cookie, user, stored, loading, rev, form, reqs, sent, out, doubt>>
server == <<ver, name, mfa>>
shown == <<user, stored, loading, rev>>

Form == [mode |-> "password", challenge |-> None, busy |-> FALSE]

(***************************************************************************)
(* Requests carry the cookie of the moment; `live' while the page that     *)
(* sent them is loaded.                                                    *)
(***************************************************************************)
Of(kind) == {r \in reqs : r.kind = kind /\ r.live}

Post(kind, revision) ==
    /\ sent < MaxSent
    /\ sent' = sent + 1
    /\ reqs' = reqs \cup {[id |-> sent + 1, kind |-> kind, rev |-> revision, cookie |-> cookie,
         challenge |-> form.challenge, live |-> TRUE, st |-> "sent", ok |-> FALSE, set |-> None, name |-> None]}

Answered(r, answer) == reqs' = (reqs \ {r}) \cup {[answer EXCEPT !.st = "answered"]}

ClearAuth == user' = None /\ stored' = None /\ loading' = FALSE /\ rev' = rev + 1

(***************************************************************************)
(* The server.                                                             *)
(***************************************************************************)
\* the session of a request is the account's
Valid(r) == r.cookie # None /\ r.cookie = ver

\* GET /me and any request of the panel
ReadServed(r) ==
    /\ r.kind \in {"check", "api"}
    /\ Answered(r, [r EXCEPT !.ok = Valid(r), !.name = name])
    /\ UNCHANGED server

\* POST /login with the right password: a session, or a challenge when there is a factor
LoginServed(r) ==
    /\ r.kind = "login"
    /\ \/ Answered(r, r)
       \/ ~mfa /\ Answered(r, [r EXCEPT !.ok = TRUE, !.set = ver, !.name = name])
       \/ mfa /\ Answered(r, [r EXCEPT !.ok = TRUE, !.challenge = ver])
    /\ UNCHANGED server

\* POST /login/mfa: the challenge belongs to a session version and needs the factor
MfaServed(r) ==
    /\ r.kind = "mfa"
    /\ \/ Answered(r, r)
       \/ r.challenge = ver /\ mfa /\ Answered(r, [r EXCEPT !.ok = TRUE, !.set = ver, !.name = name])
    /\ UNCHANGED server

\* POST /logout ends every session of the account and takes the cookie away; it
\* succeeds too when the session had ended before
LogoutServed(r) ==
    /\ r.kind = "logout"
    /\ \/ Answered(r, r) /\ UNCHANGED server
       \/ /\ ver < MaxVersion
          /\ Answered(r, [r EXCEPT !.ok = TRUE])
          /\ ver' = IF Valid(r) THEN ver + 1 ELSE ver
          /\ UNCHANGED <<name, mfa>>

\* POST /account/username and /account/chpasswd: the old session ends, the answer has a new one
ChangeServed(r) ==
    /\ r.kind \in {"rename", "chpasswd"}
    /\ IF Valid(r)
       THEN /\ ver < MaxVersion
            /\ ver' = ver + 1
            /\ name' = IF r.kind = "rename" THEN ver' ELSE name
            /\ mfa' = mfa
            /\ Answered(r, [r EXCEPT !.ok = TRUE, !.set = ver', !.name = name'])
       ELSE Answered(r, r) /\ UNCHANGED server

Served(r) ==
    /\ r.st = "sent"
    /\ ReadServed(r) \/ LoginServed(r) \/ MfaServed(r) \/ LogoutServed(r) \/ ChangeServed(r)
    /\ UNCHANGED <<cookie, shown, form, sent, out, doubt>>

\* somewhere else the session is ended or the factor is set up or removed
Elsewhere ==
    /\ ver < MaxVersion
    /\ ver' = ver + 1
    /\ mfa' \in BOOLEAN
    /\ doubt' = (doubt \/ user # None \/ reqs # {})
    /\ UNCHANGED <<name, cookie, shown, form, reqs, sent, out>>

(***************************************************************************)
(* The page is loaded: what was stored is shown, and the session is looked *)
(* up.  Requests of the earlier page only leave their cookies.             *)
(***************************************************************************)
Reload ==
    /\ user' = stored /\ stored' = stored /\ loading' = TRUE /\ rev' = rev + 1
    /\ form' = Form
    /\ sent < MaxSent
    /\ sent' = sent + 1
    /\ reqs' = {[r EXCEPT !.live = FALSE] : r \in reqs}
         \cup {[id |-> sent + 1, kind |-> "check", rev |-> rev', cookie |-> cookie, challenge |-> None,
                live |-> TRUE, st |-> "sent", ok |-> FALSE, set |-> None, name |-> None]}
    /\ doubt' = \E r \in reqs : r.kind \notin {"check", "api"}
    /\ out' = (out /\ ~doubt)
    /\ UNCHANGED <<server, cookie>>

\* the effect of AuthProvider
CheckArrives(r) ==
    IF ~r.live \/ r.rev # rev THEN UNCHANGED shown
    ELSE IF r.ok THEN user' = r.name /\ stored' = r.name /\ loading' = FALSE /\ rev' = rev
    ELSE ClearAuth

(***************************************************************************)
(* The login page: shown once the lookup has ended, to a tab without user. *)
(***************************************************************************)
LoginPage == ~loading /\ user = None

\* the forms, and the buttons that are not disabled
PasswordForm == LoginPage /\ form.mode = "password" /\ form.challenge = None
MfaForm == LoginPage /\ form.mode = "password" /\ form.challenge # None
RecoveryForm == LoginPage /\ form.mode = "recovery"

\* a request that ends the account's sessions is under way
Ending == \E r \in reqs : r.kind \in {"logout", "rename", "chpasswd"}

HandleSubmit ==
    /\ PasswordForm /\ ~form.busy
    /\ form' = [form EXCEPT !.busy = TRUE]
    /\ Post("login", rev)
    /\ doubt' = (doubt \/ Ending)
    /\ UNCHANGED <<server, cookie, shown, out>>

HandleMfaSubmit ==
    /\ MfaForm /\ ~form.busy
    /\ form' = [form EXCEPT !.busy = TRUE]
    /\ Post("mfa", rev)
    /\ doubt' = (doubt \/ Ending)
    /\ UNCHANGED <<server, cookie, shown, out>>

\* back to the password, or to the form that resets the administrator and back
DropChallenge ==
    /\ MfaForm
    /\ form' = [form EXCEPT !.challenge = None]
    /\ UNCHANGED <<server, cookie, shown, reqs, sent, out, doubt>>

ToggleRecovery ==
    /\ LoginPage
    /\ form' = [form EXCEPT !.challenge = None, !.mode = IF @ = "password" THEN "recovery" ELSE "password"]
    /\ UNCHANGED <<server, cookie, shown, reqs, sent, out, doubt>>

\* POST /api/admin/recovery ends the sessions; the page goes back to the password
HandleRecoverySubmit ==
    /\ RecoveryForm
    /\ ver < MaxVersion
    /\ ver' = ver + 1 /\ mfa' = FALSE /\ name' = ver'
    /\ form' = [form EXCEPT !.mode = "password"]
    /\ doubt' = (doubt \/ reqs # {})
    /\ UNCHANGED <<cookie, shown, reqs, sent, out>>

\* finishLogin: login and completeMfaLogin end the same way
SignedIn(r) == user' = r.name /\ stored' = r.name /\ loading' = FALSE /\ rev' = rev + 1

LoginArrives(r) ==
    IF ~r.live THEN UNCHANGED <<shown, form>>
    ELSE IF r.ok /\ r.set # None THEN SignedIn(r) /\ form' = Form
    ELSE /\ form' = [form EXCEPT !.busy = FALSE,
              !.challenge = IF r.ok THEN r.challenge
                            ELSE IF r.kind = "mfa" /\ r.challenge # ver THEN None ELSE @]
         /\ UNCHANGED shown

(***************************************************************************)
(* The panel: shown once the lookup has ended, to a tab with a user.       *)
(***************************************************************************)
Panel == ~loading /\ user # None

\* a second click joins the logout under way; one begun beside a change cannot be told from it
Logout ==
    /\ Panel /\ Of("logout") = {}
    /\ Post("logout", rev)
    /\ rev' = rev + 1
    /\ doubt' = (doubt \/ Of("rename") \cup Of("chpasswd") # {})
    /\ UNCHANGED <<server, cookie, user, stored, loading, form, out>>

\* only a confirmed logout clears what is shown
LogoutArrives(r) == IF r.live /\ r.ok THEN ClearAuth /\ out' = TRUE ELSE UNCHANGED <<shown, out>>

CallApi ==
    /\ Panel /\ Of("api") = {}
    /\ Post("api", rev)
    /\ UNCHANGED <<server, cookie, shown, form, out, doubt>>

\* handleChangeUsername, handleChangePassword: each its own saving flag
SaveAccount(kind) ==
    /\ Panel /\ Of(kind) = {}
    /\ Post(kind, rev)
    /\ doubt' = (doubt \/ Of("logout") # {})
    /\ UNCHANGED <<server, cookie, shown, form, out>>

\* useApiResponse: whatever request finds the session ended clears; updateUser takes the name
ApiArrives(r) ==
    IF ~r.live THEN UNCHANGED shown
    ELSE IF ~r.ok THEN ClearAuth
    ELSE IF r.kind = "rename" /\ user # None
    THEN user' = r.name /\ stored' = r.name /\ rev' = rev + 1 /\ loading' = loading
    ELSE UNCHANGED shown

(***************************************************************************)
(* An answer arrives: the browser takes its cookie, then the page acts.    *)
(***************************************************************************)
CookieOf(r) == IF r.kind = "logout" /\ r.ok THEN None ELSE IF r.set # None THEN r.set ELSE cookie

Arrives(r) ==
    /\ r.st = "answered"
    /\ reqs' = reqs \ {r}
    /\ cookie' = CookieOf(r)
    /\ CASE r.kind = "check"            -> CheckArrives(r) /\ UNCHANGED <<form, out>>
         [] r.kind \in {"login", "mfa"} -> LoginArrives(r) /\ out' = (out /\ r.set = None)
         [] r.kind = "logout"           -> LogoutArrives(r) /\ form' = form
         [] OTHER                       -> ApiArrives(r) /\ UNCHANGED <<form, out>>
    /\ UNCHANGED <<server, sent, doubt>>

\* the answer is lost: nothing is known of what was done, and no cookie is stored
Lost(r) ==
    /\ r.st = "answered"
    /\ reqs' = reqs \ {r}
    /\ CASE r.kind = "check" /\ r.live /\ r.rev = rev -> ClearAuth /\ form' = form
         [] r.kind \in {"login", "mfa"} /\ r.live -> UNCHANGED shown /\ form' = [form EXCEPT !.busy = FALSE]
         [] OTHER -> UNCHANGED <<shown, form>>
    /\ doubt' = (doubt \/ r.kind \in {"logout", "rename", "chpasswd"})
    /\ UNCHANGED <<server, cookie, sent, out>>

Init ==
    /\ ver = 1 /\ name = 1 /\ mfa \in BOOLEAN
    /\ cookie \in {None, 1}
    /\ user = cookie /\ stored = cookie
    /\ loading = TRUE /\ rev = 0
    /\ form = Form
    /\ reqs = {[id |-> 0, kind |-> "check", rev |-> 0, cookie |-> cookie, challenge |-> None,
                live |-> TRUE, st |-> "sent", ok |-> FALSE, set |-> None, name |-> None]}
    /\ sent = 0 /\ out = FALSE /\ doubt = FALSE

Next ==
    \/ \E r \in reqs : Served(r) \/ Arrives(r) \/ Lost(r)
    \/ Elsewhere \/ Reload
    \/ HandleSubmit \/ HandleMfaSubmit \/ DropChallenge \/ ToggleRecovery \/ HandleRecoverySubmit
    \/ Logout \/ CallApi \/ SaveAccount("rename") \/ SaveAccount("chpasswd")

Spec == Init /\ [][Next]_vars

\* Requests are served or fail, and their answers or their failures arrive.
FairSpec ==
    /\ Spec
    /\ \A i \in 0 .. MaxSent :
        /\ WF_vars(\E r \in reqs : r.id = i /\ Served(r))
        /\ WF_vars(\E r \in reqs : r.id = i /\ (Arrives(r) \/ Lost(r)))

(***************************************************************************)
(* Properties.                                                             *)
(***************************************************************************)
Quiet == reqs = {}

TypeOK ==
    /\ ver \in 1 .. MaxVersion /\ name \in 1 .. ver /\ mfa \in BOOLEAN
    /\ {cookie, user, stored} \subseteq 0 .. MaxVersion
    /\ loading \in BOOLEAN /\ out \in BOOLEAN /\ doubt \in BOOLEAN
    /\ form \in [mode : {"password", "recovery"}, challenge : 0 .. MaxVersion, busy : BOOLEAN]
    /\ Cardinality(Of("logout")) <= 1

\* A reload shows the user that was shown before it: what is stored for the tab
\* never outlives, nor misses, what AuthContext shows.
ReloadShowsSame == stored = user

\* When nothing is under way and the tab has had its answers, the user it shows has
\* a session: the cookie names the account's version and the name is the account's.
ShownHasSession == (Quiet /\ ~doubt /\ user # None) => (cookie = ver /\ user = name)

\* A confirmed logout leaves no session in the browser, whatever lookups, requests
\* or earlier answers were under way.
SignedOutIsOut == (Quiet /\ ~doubt /\ out) => cookie # ver

=============================================================================
