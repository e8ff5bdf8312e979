----------------------------- MODULE MfaFactors -----------------------------
(***************************************************************************)
(* The second factor of the administrator (worker/src/auth/mfa-factor.ts,  *)
(* mfa.ts, mfa-token.ts, totp.ts and the routes under /login/mfa and       *)
(* /account/mfa).  A one-time code or a recovery code is consumed by SQL   *)
(* and leaves a receipt, so that the same operation can be sent again      *)
(* after its answer was lost.  A step-up token, which protected operations *)
(* need, lives for Ttl from the moment the factor was consumed.            *)
(*                                                                         *)
(* A browser has several tabs; their requests interleave between reading   *)
(* the account and writing it, also after the browser got newer tokens, so *)
(* that other browsers add nothing but more of the same.  The unit of      *)
(* time is the period of the one-time codes.  Signed tokens are records    *)
(* that nobody can make up; codes of another secret never match.           *)
(***************************************************************************)
EXTENDS Integers, TLC

CONSTANTS
    Tabs,           \* of one browser
    Ttl,            \* MFA_TOKEN_TTL_SECONDS, and the life of a receipt
    MaxTime,        \* bound: the clock
    MaxVersion,     \* bound: session versions
    MaxSecret,      \* bound: secrets and lists of recovery codes made
    MaxKey,         \* bound: keys configured one after another
    MaxRequests     \* bound: requests

MfaAssumption ==
    Ttl \in Nat \ {0} /\ MaxTime \in Nat /\ MaxVersion \in Nat \ {0} /\ MaxSecret \in Nat \ {0} /\ MaxKey \in Nat \ {0} /\ MaxRequests \in Nat

VARIABLES
    now,
    key,        \* the configured key: MFA_SECRET; the one before it is kept
    account,    \* SQL: version, secret (which, and under which key), last step, recovery codes
    made,       \* secrets made so far
    browser,    \* its cookie, challenge, step-up and setup token
    request,    \* the request of each tab
    receipts,   \* SQL: mfa_factor_receipts, the expired ones too
    enrolled,   \* history: the secret written last
    sent        \* requests so far

vars == <<now, key, account, receipts, made, browser, request, enrolled, sent>>

NoSecret == [of |-> 0, key |-> 0]
Signed(v, at) == [v |-> v, at |-> at, secret |-> NoSecret]
None == Signed(0, 0)      \* no token
Idle == [kind |-> "none"]

Totp(secret, step) == [secret |-> secret, step |-> step]
\* A recovery code is a factor without a step.
Code(codes) == [secret |-> codes, step |-> -1]
Factors == [secret : 1..MaxSecret, step : -1..MaxTime + 1]

\* The token an operation is bound to: the challenge or the session cookie.
Token(purpose) == IF purpose = "login" THEN browser.challenge ELSE browser.cookie
\* operationId in confirmUserMfaFactor.
Operation(r) == [version |-> r.version, purpose |-> r.kind, token |-> r.token, factor |-> r.factor]

Enabled2fa == account.secret # NoSecret
\* verify: an expired token is none.
Alive(token) == token.v > 0 /\ now < token.at + Ttl

-----------------------------------------------------------------------------
(* Logging in and confirming *)

\* POST /login with the right password.
Password(t) ==
    /\ request[t] = Idle /\ sent < MaxRequests /\ sent' = sent + 1
    /\ browser' = IF Enabled2fa THEN [browser EXCEPT !.challenge = Signed(account.version, now)]
                  ELSE [browser EXCEPT !.cookie = Signed(account.version, now)]
    /\ browser' # browser
    /\ UNCHANGED <<now, key, account, receipts, made, request, enrolled>>

\* verifyTotpCode: the codes of the current step, the one before and the one after.
ValidStep(secret, f) == f.secret = secret /\ f.step \in now - 1..now + 1

\* POST /login/mfa and POST /account/mfa/step-up until SQL is asked.
Submit(t, purpose, f) ==
    LET token == Token(purpose) IN
    /\ request[t] = Idle /\ sent < MaxRequests /\ sent' = sent + 1 /\ Enabled2fa
    /\ token.v = account.version /\ (purpose = "login" => Alive(token))
    /\ f.secret <= made
    /\ request' = [request EXCEPT ![t] =
            [kind |-> purpose, token |-> token, version |-> account.version, factor |-> f,
             secret |-> account.secret, key |-> key, valid |-> ValidStep(account.secret.of, f),
             todo |-> IF ValidStep(account.secret.of, f) /\ account.secret.key # key THEN "encrypt" ELSE "consume",
             at |-> 0]]
    /\ UNCHANGED <<now, key, account, receipts, made, browser, enrolled>>

InRequest(t, todo) == request[t] # Idle /\ request[t].todo = todo

\* reencryptTotpSecret: a secret under an older key is written under the current one,
\* if the row still holds it.
Encrypt(t) ==
    /\ InRequest(t, "encrypt")
    /\ IF account.secret = request[t].secret
       THEN /\ account' = [account EXCEPT !.secret.key = request[t].key]
            /\ request' = [request EXCEPT ![t].todo = "consume"]
       ELSE /\ request' = [request EXCEPT ![t] = Idle]
            /\ UNCHANGED account
    /\ UNCHANGED <<now, key, receipts, made, browser, enrolled, sent>>

\* Mutant: a code is accepted when its step is not older than the last one.
AcceptsAgain(r) ==
    IF r.factor.step >= 0 THEN r.valid /\ r.factor.step >= account.lastStep
    ELSE r.factor.secret = account.codes

\* A one-time code must be newer than the last one used, a recovery code unused.
Accepts(r) ==
    IF r.factor.step >= 0 THEN r.valid /\ r.factor.step > account.lastStep
    ELSE r.factor.secret = account.codes

\* The receipts of the same operation that have not expired.
Recognised(r) == {c \in receipts : c.op = Operation(r) /\ now < c.at + Ttl}

\* consumeMfaFactor: one transaction of SQL.  A receipt of the same operation answers;
\* otherwise the factor is used up and leaves one.
Consume(t) ==
    LET r == request[t] IN
    /\ InRequest(t, "consume")
    /\ IF account.version # r.version \/ ~Enabled2fa \/ (Recognised(r) = {} /\ ~Accepts(r))
       THEN /\ request' = [request EXCEPT ![t] = Idle]
            /\ UNCHANGED <<account, receipts>>
       ELSE IF Recognised(r) # {}
       THEN /\ request' = [request EXCEPT ![t].todo = "answer", ![t].at = (CHOOSE c \in Recognised(r) : TRUE).at]
            /\ UNCHANGED <<account, receipts>>
       ELSE /\ account' = IF r.factor.step >= 0 THEN [account EXCEPT !.lastStep = r.factor.step]
                          ELSE [account EXCEPT !.codes = 0]
            /\ receipts' = receipts \cup {[op |-> Operation(r), at |-> now]}
            /\ request' = [request EXCEPT ![t].todo = "answer", ![t].at = now]
    /\ UNCHANGED <<now, key, made, browser, enrolled, sent>>

\* Mutant: the step-up token lives from the answer on.
AnswerFromNow(t) ==
    LET r == request[t] IN
    /\ InRequest(t, "answer")
    /\ browser' = 
            IF r.kind = "login" THEN [browser EXCEPT !.cookie = Signed(r.version, now)]
            ELSE [browser EXCEPT !.stepUp = Signed(r.version, now)]
    /\ request' = [request EXCEPT ![t] = Idle]
    /\ UNCHANGED <<now, key, account, receipts, made, enrolled, sent>>

\* completeAdminLogin, or the step-up token dated by the confirmation.
Answer(t) ==
    LET r == request[t] IN
    /\ InRequest(t, "answer")
    /\ browser' = 
            IF r.kind = "login" THEN [browser EXCEPT !.cookie = Signed(r.version, now)]
            ELSE [browser EXCEPT !.stepUp = Signed(r.version, r.at)]
    /\ request' = [request EXCEPT ![t] = Idle]
    /\ UNCHANGED <<now, key, account, receipts, made, enrolled, sent>>

\* An error on the way, or the answer does not arrive.
Lost(t) ==
    /\ request[t] # Idle
    /\ request' = [request EXCEPT ![t] = Idle]
    /\ UNCHANGED <<now, key, account, receipts, made, browser, enrolled, sent>>

-----------------------------------------------------------------------------
(* Protected operations *)

\* The middleware: the cookie is of the current version, and with a second factor so is a
\* step-up token that is alive (requireMfaStepUp).
MayAct ==
    /\ browser.cookie.v = account.version
    /\ Enabled2fa => browser.stepUp.v = account.version /\ Alive(browser.stepUp)

\* POST /account/mfa/setup: a secret in a signed token, not yet the account's.
Setup(t) ==
    /\ request[t] = Idle /\ sent < MaxRequests /\ sent' = sent + 1 /\ MayAct /\ made < MaxSecret
    /\ made' = made + 1
    /\ browser' = [browser EXCEPT !.setup = [v |-> account.version, at |-> now, secret |-> [of |-> made + 1, key |-> key]]]
    /\ UNCHANGED <<now, key, account, receipts, request, enrolled>>

\* A protected operation reads the account.  "password" stands for the others.
Start(t, kind) ==
    /\ request[t] = Idle /\ sent < MaxRequests /\ sent' = sent + 1 /\ MayAct
    /\ kind \in {"codes", "disable"} => Enabled2fa
    /\ kind = "codes" => made < MaxSecret
    /\ made' = IF kind = "codes" THEN made + 1 ELSE made
    /\ request' = [request EXCEPT ![t] =
            [kind |-> kind, version |-> account.version, factor |-> Code(made + 1), todo |-> "write"]]
    /\ UNCHANGED <<now, key, account, receipts, browser, enrolled>>

\* POST /account/mfa/enable with a code of the secret in the setup token.
StartEnable(t, step) ==
    LET setup == browser.setup IN
    /\ request[t] = Idle /\ sent < MaxRequests /\ sent' = sent + 1 /\ MayAct
    /\ Alive(setup) /\ setup.v = account.version /\ step \in now - 1..now + 1 /\ step >= 0
    /\ request' = [request EXCEPT ![t] =
            [kind |-> "enable", version |-> account.version, factor |-> Totp(setup.secret.of, step), secret |-> setup.secret, todo |-> "write"]]
    /\ UNCHANGED <<now, key, account, receipts, made, browser, enrolled>>

\* What the functions of SQL make of the account.
Changed(r) ==
    CASE r.kind = "enable" -> [version |-> account.version + 1, secret |-> r.secret,
                               lastStep |-> r.factor.step, codes |-> r.factor.secret]
      [] r.kind = "disable" -> [version |-> account.version + 1, secret |-> NoSecret, lastStep |-> -1, codes |-> 0]
      [] r.kind = "codes" -> [account EXCEPT !.version = @ + 1, !.codes = r.factor.secret]
      [] r.kind = "password" -> [account EXCEPT !.version = @ + 1]

\* The write, whatever became of the version in between, and replaceRotatedAdminSession.
Write(t) ==
    LET r == request[t] IN
    /\ InRequest(t, "write") /\ account.version < MaxVersion
    /\ account' = IF r.kind = "codes" /\ ~Enabled2fa THEN account ELSE Changed(r)
    /\ enrolled' = account'.secret.of
    /\ request' = [request EXCEPT ![t] = Idle]
    /\ browser' = IF account'.version = account.version THEN browser
            ELSE [browser EXCEPT !.cookie = Signed(account'.version, now), !.stepUp = None]
    /\ UNCHANGED <<now, key, receipts, made, sent>>

-----------------------------------------------------------------------------
\* A new key is configured, the old one is kept as the previous one.
Deploy ==
    /\ key < MaxKey /\ key' = key + 1
    /\ UNCHANGED <<now, account, receipts, made, browser, request, enrolled, sent>>

Tick ==
    /\ now < MaxTime /\ now' = now + 1
    /\ UNCHANGED <<key, account, receipts, made, browser, request, enrolled, sent>>

Init ==
    /\ now = 0 /\ key = 1 /\ made = 1 /\ enrolled = 1 /\ sent = 0
    /\ account = [version |-> 1, secret |-> [of |-> 1, key |-> 1], lastStep |-> -1, codes |-> 1]
    /\ receipts = {}
    /\ browser = [cookie |-> Signed(1, 0), challenge |-> None, stepUp |-> None, setup |-> None]
    /\ request = [t \in Tabs |-> Idle]

Next ==
    \/ \E t \in Tabs :
        \/ Password(t) \/ Encrypt(t) \/ Consume(t) \/ Answer(t) \/ Lost(t) \/ Setup(t) \/ Write(t)
        \/ \E purpose \in {"login", "step-up"}, f \in Factors : Submit(t, purpose, f)
        \/ \E kind \in {"codes", "disable", "password"} : Start(t, kind)
        \/ \E step \in 0..MaxTime + 1 : StartEnable(t, step)
    \/ Deploy \/ Tick

Spec == Init /\ [][Next]_vars

-----------------------------------------------------------------------------
TypeOK ==
    /\ now \in 0..MaxTime /\ key \in 1..MaxKey /\ made \in 1..MaxSecret /\ enrolled \in 0..MaxSecret
    /\ account.version \in 1..MaxVersion /\ account.secret.of \in 0..made /\ account.secret.key <= key
    /\ account.lastStep \in -1..now + 1 /\ account.codes \in 0..made
    /\ \A c \in receipts : c.at <= now /\ c.op.version <= account.version

\* While the account keeps its session version, a one-time code or a recovery code confirms
\* one operation, whoever sends it and however often (cfm_consume_mfa_factor).
FactorConfirmsOneOperation ==
    \A c, d \in receipts :
        c.op.factor = d.op.factor /\ c.op.version = d.op.version => c.op = d.op

\* An operation whose factor was consumed and whose answer was lost is recognised when it is
\* sent again, as long as the receipt lives and the account keeps its version.
RetriesAreRecognised ==
    [][\A t \in Tabs :
        /\ InRequest(t, "consume") /\ Consume(t) /\ account.version = request[t].version /\ Enabled2fa
        /\ \E c \in receipts : c.op = Operation(request[t]) /\ now < c.at + Ttl
        => request'[t] # Idle]_vars

\* A protected operation of an account with a second factor starts only within Ttl of a
\* consumption of a factor for a step-up, under the same session version.
ProtectedIsConfirmed ==
    [][\A t \in Tabs :
        request[t] = Idle /\ Enabled2fa /\ request'[t].kind \in {"codes", "disable", "password", "enable"}
        => \E c \in receipts :
            c.op.purpose = "step-up" /\ c.op.version = account.version /\ now < c.at + Ttl]_vars

\* Writing the secret under a new key never brings back a secret that was replaced or switched
\* off in the meantime.
SecretIsNewest == account.secret.of = enrolled
=============================================================================
