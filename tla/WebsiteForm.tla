---------------------------- MODULE WebsiteForm ----------------------------
(***************************************************************************)
(* The form of a website monitor: what the page lets through, what the     *)
(* server makes of it, and what the form shows when the monitor is opened  *)
(* again.  Numbers are themselves; a name is blank or not; an address is   *)
(* its scheme, its host and the parts that matter to the validators.       *)
(***************************************************************************)
EXTENDS Integers, Sequences, FiniteSets

CONSTANTS
    Statuses, Intervals, Timeouts, Graces, Limits, \* numbers typed into the form
    Octets,      \* bytes of an IPv4 address
    Ports        \* ports of a TCP address

NumbersAssumption ==
    Statuses \cup Intervals \cup Timeouts \cup Graces \cup Limits \cup Octets \cup Ports \subseteq Nat

VARIABLES
    form,   \* what the fields of the dialog hold
    row,    \* the monitor the server stored, or Missing
    phase   \* "typed", "sent", "stored", "shown", "resent", "kept", "refused" or "rejected"

vars == <<form, row, phase>>

Missing == [method |-> "none"]

(***************************************************************************)
(* Hosts.  Only dotted addresses are looked into.                          *)
(***************************************************************************)

IsBlockedIPv4(p) ==
    \/ p[1] \in {0, 10, 127}
    \/ p[1] = 100 /\ p[2] \in 64 .. 127
    \/ p[1] = 169 /\ p[2] = 254
    \/ p[1] = 172 /\ p[2] \in 16 .. 31
    \/ p[1] = 192 /\ p[2] = 168
    \/ p[1] = 192 /\ p[2] = 0 /\ p[3] \in {0, 2}
    \/ p[1] = 198 /\ p[2] \in {18, 19}
    \/ p[1] = 198 /\ p[2] = 51 /\ p[3] = 100
    \/ p[1] = 203 /\ p[2] = 0 /\ p[3] = 113
    \/ p[1] >= 224

\* names of the machine itself, addresses written in another base or with fewer
\* parts, and IPv6 networks that are not public
UnsafeKinds == {"empty", "localhost", "metadata", "ambiguous", "mapped6", "local6"}
SafeKinds == {"name", "public6"}

IsUnsafeHostname(h) == h.kind \in UnsafeKinds \/ (h.kind = "ipv4" /\ IsBlockedIPv4(h.parts))

Names == [kind : UnsafeKinds \cup SafeKinds]
Dotted == [kind : {"ipv4"}, parts : Octets \X Octets \X Octets]

\* an address: `extra` is a login, a fragment, or for TCP a path or a query
ValidateWebsiteUrl(u) ==
    /\ u.scheme \in {"http", "https"}
    /\ u.extra \notin {"login", "fragment"}
    /\ ~IsUnsafeHostname(u.host)

ValidateTcpUrl(u) ==
    /\ u.scheme = "tcp"
    /\ u.extra = "none"
    /\ ~IsUnsafeHostname(u.host)
    /\ u.port \in 1 .. 65535

PublicName == [kind |-> "name"]
Url(scheme, host, extra, port) == [scheme |-> scheme, host |-> host, extra |-> extra, port |-> port]

(***************************************************************************)
(* The server: validateWebsiteMonitorInput.                                *)
(***************************************************************************)
IntegerInRange(n, lo, hi) == n >= lo /\ n <= hi

\* mutant: an interval of half a minute is enough
IntervalFromHalf(f) == IntegerInRange(f.interval, 30, 86400)

IntervalOk(f) == IntegerInRange(f.interval, 60, 86400)

Validate(f) ==
    /\ f.name # ""
    /\ IF f.method = "TCP" THEN ValidateTcpUrl(f.url) ELSE ValidateWebsiteUrl(f.url)
    /\ IntegerInRange(f.min, 100, 599) /\ IntegerInRange(f.max, 100, 599) /\ f.min <= f.max
    /\ IntervalOk(f)
    /\ IntegerInRange(f.timeout, 1, 30) /\ f.timeout <= f.interval
    /\ IntegerInRange(f.grace, 30, 86400)
    /\ IntegerInRange(f.limit, 1, 10)

\* a mode that is not known becomes "off"; a missing switch becomes the default
Stored(f) == [f EXCEPT !.mode = IF @ \in {"selected", "country_auto"} THEN @ ELSE "off"]

(***************************************************************************)
(* The page.                                                               *)
(***************************************************************************)
EmptyForm ==
    [name |-> "", url |-> Url("https", [kind |-> "empty"], "none", 0), method |-> "GET",
     min |-> 200, max |-> 399, interval |-> 120, timeout |-> 10, grace |-> 180,
     mode |-> "country_auto", limit |-> 3]

\* updateMethod: an address that was not typed yet follows the method
UpdateMethod(f, method) ==
    [f EXCEPT !.method = method,
              !.url = IF f.url.host.kind = "empty" /\ (method = "TCP") # (f.url.scheme = "tcp")
                      THEN [f.url EXCEPT !.scheme = IF method = "TCP" THEN "tcp" ELSE "https"]
                      ELSE @]

\* the numbers that the chosen method uses must be positive
SaveChecks(f) ==
    /\ f.name # ""
    /\ \A n \in {f.interval, f.timeout, f.grace} : n > 0
    /\ f.method # "TCP" => f.min > 0 /\ f.max > 0 /\ f.min <= f.max

OpenEdit(r) == [r EXCEPT !.mode = IF @ = "" THEN "off" ELSE @, !.limit = IF @ = 0 THEN 3 ELSE @]

\* what may be typed: numbers with a good address, or any address with good numbers
Named == [EmptyForm EXCEPT !.name = "site", !.url.host = PublicName]

Numbers ==
    {[UpdateMethod(EmptyForm, m) EXCEPT !.name = n, !.url.host = PublicName, !.url.port = 443,
        !.min = lo, !.max = hi, !.interval = i, !.timeout = t, !.grace = g, !.limit = l, !.mode = mode] :
        m \in {"GET", "TCP"}, n \in {"", "site"}, lo \in Statuses, hi \in Statuses, i \in Intervals,
        t \in Timeouts, g \in Graces, l \in Limits, mode \in {"off", "selected", "gone"}}

Addresses ==
    {[Named EXCEPT !.method = m, !.url = Url(s, h, x, p)] :
        m \in {"GET", "HEAD", "TCP"}, s \in {"http", "https", "tcp", "ftp"}, h \in Names,
        x \in {"none", "login", "fragment", "path"}, p \in Ports}
    \cup {[Named EXCEPT !.url = Url("https", h, "none", 0)] : h \in Dotted}

Init == form \in Numbers \cup Addresses /\ row = Missing /\ phase = "typed"

Save ==
    /\ phase \in {"typed", "shown"}
    /\ phase' = IF ~SaveChecks(form) THEN "refused" ELSE IF phase = "typed" THEN "sent" ELSE "resent"
    /\ UNCHANGED <<form, row>>

Handle ==
    /\ phase \in {"sent", "resent"}
    /\ IF Validate(form)
       THEN row' = Stored(form) /\ phase' = IF phase = "sent" THEN "stored" ELSE "kept"
       ELSE phase' = "rejected" /\ UNCHANGED row
    /\ UNCHANGED form

Reopen == phase = "stored" /\ form' = OpenEdit(row) /\ phase' = "shown" /\ UNCHANGED row

Next == Save \/ Handle \/ Reopen

Spec == Init /\ [][Next]_vars

(***************************************************************************)
(* isWebsiteCheckDue: seconds after a check at which the next one is due.  *)
(***************************************************************************)
DueAfter(r) == IF r.interval - 30 > 1 THEN r.interval - 30 ELSE 1

(***************************************************************************)
(* Properties.                                                             *)
(***************************************************************************)
\* A probe of a stored monitor times out before the next check of that monitor
\* is due, tolerance included: checks of one monitor do not pile up.
ProbeEndsBeforeDue == row # Missing => row.timeout <= DueAfter(row)

\* A stored monitor opened and saved without a change is accepted by the page and
\* the server and stays what it was.
SavedAgainIsKept ==
    [][(phase \in {"shown", "resent"}) => (phase' \in {"resent", "kept"} /\ row' = row)]_vars

\* The page never keeps from the server what the server would store.
PageIsNotStricter == phase = "refused" => ~Validate(form)

\* The reserved IPv4 networks, as first address and prefix length.
Reserved ==
    {<<<<0, 0, 0>>, 8>>, <<<<10, 0, 0>>, 8>>, <<<<127, 0, 0>>, 8>>, <<<<100, 64, 0>>, 10>>,
     <<<<169, 254, 0>>, 16>>, <<<<172, 16, 0>>, 12>>, <<<<192, 168, 0>>, 16>>, <<<<192, 0, 0>>, 24>>,
     <<<<192, 0, 2>>, 24>>, <<<<198, 18, 0>>, 15>>, <<<<198, 51, 100>>, 24>>, <<<<203, 0, 113>>, 24>>,
     <<<<224, 0, 0>>, 3>>}

Number(p) == 65536 * p[1] + 256 * p[2] + p[3]
InNetwork(p, net) == Number(p) \div 2^(24 - net[2]) = Number(net[1]) \div 2^(24 - net[2])

\* No monitor is stored whose address lies in a reserved IPv4 network, and none
\* is turned away for an address outside them.
ReservedExactly ==
    (form.url.host.kind = "ipv4" /\ phase \in {"stored", "rejected"})
      => ((phase = "rejected") = \E net \in Reserved : InNetwork(form.url.host.parts, net))
=============================================================================
