------------------------------- MODULE Themes -------------------------------
(* The themes of the site: the rows of the table themes, the setting         *)
(* active_theme, the handlers of worker/src/routes/theme.ts, and the         *)
(* administrator's page that calls them (pages/admin/Themes.tsx).  Every     *)
(* database call of a handler is a step of its own, none is in a transaction *)
(* with another, and any of them may fail.  A package is a version of its    *)
(* manifest; a configuration is a function on the keys that a manifest knows.*)
EXTENDS Naturals, FiniteSets

CONSTANTS Tabs,       \* pages open in administrators' browsers
          Customs,    \* the shorts that uploaded packages may carry
          MaxRequests, \* changes the administrators ask for
          Faults      \* whether a database call may fail

ThemesAssumption == Faults \in BOOLEAN /\ MaxRequests \in Nat /\ Tabs # {} /\ IsFiniteSet(Tabs)

VARIABLES rows,       \* short -> the stored theme, or Absent
          active,     \* the setting active_theme
          job,        \* tab -> the request it waits for, at the step the server is at
          cards,      \* tab -> the cards it shows
          fresh,      \* tab -> its last load succeeded and nothing failed since
          editing,    \* tab -> the dialog: the card and what is typed
          asked,      \* changes asked for so far
          cut         \* a deletion failed between the row and the setting

vars == <<rows, active, job, cards, fresh, editing, asked, cut>>

Builtins == {"monitor", "aurora"}
Aliases == [s \in {"next"} |-> "aurora"]
Shorts == Builtins \cup DOMAIN Aliases \cup Customs
Versions == {0, 1, 2}                     \* 0: the manifest of a builtin theme
Knows(v) == IF v = 0 THEN {} ELSE IF v = 1 THEN {"a"} ELSE {"a", "b"}
Values == {0, 1}                          \* 0: the default of every key
Configs == UNION {[K -> Values] : K \in {{}, {"a"}, {"a", "b"}}}
Themes == [version : Versions, config : Configs, css : Values]
Absent == [version |-> 9, config |-> <<>>, css |-> 0]
Idle == [op |-> "idle", short |-> "monitor", step |-> "none",
         theme |-> Absent, active |-> "monitor", rows |-> {}]
Closed == [short |-> "none", config |-> <<>>, css |-> 0]

IsBuiltinTheme(s) == s \in Builtins

IsReservedThemeShort(s) == IsBuiltinTheme(s) \/ s \in DOMAIN Aliases

NormalizeActiveTheme(s) ==
  LET value == IF s = "default" THEN "monitor" ELSE s
  IN  IF value \in DOMAIN Aliases THEN Aliases[value] ELSE value

\* An unknown key is an error; a key without a value takes its default.
Accepts(v, c) == DOMAIN c \subseteq Knows(v)
ValidateThemeConfig(v, c) == [k \in Knows(v) |-> IF k \in DOMAIN c THEN c[k] ELSE 0]
DefaultConfig(v) == [k \in Knows(v) |-> 0]

BuiltinThemeRecord == [version |-> 0, config |-> DefaultConfig(0), css |-> 0]

UpgradedReset(v, existing) ==                                       \* mutant
  [version |-> v, config |-> DefaultConfig(v), css |-> existing.css]
\* What an upload stores over a row: its configuration when the new manifest
\* accepts it, else the defaults, and its custom CSS.
Upgraded(v, existing) ==
  IF existing = Absent
  THEN [version |-> v, config |-> DefaultConfig(v), css |-> 0]
  ELSE [version |-> v, css |-> existing.css,
        config |-> IF Accepts(v, existing.config)
                   THEN ValidateThemeConfig(v, existing.config) ELSE DefaultConfig(v)]

ThemeSummary(s, theme, current) ==
  [short |-> s, theme |-> theme, active |-> current = s, deletable |-> ~IsBuiltinTheme(s)]

\* Builtin themes are listed with or without a row, other rows unless their
\* short is reserved.
Listed(some, current) ==
  {ThemeSummary(s, IF some[s] = Absent THEN BuiltinThemeRecord ELSE some[s], current) : s \in Builtins}
  \cup {ThemeSummary(s, some[s], current) :
          s \in {x \in Shorts : some[x] # Absent /\ ~IsReservedThemeShort(x)}}

-----------------------------------------------------------------------------
Init ==
  /\ \E leftover \in BOOLEAN :
       rows = [s \in Shorts |-> IF s = "next" /\ leftover THEN BuiltinThemeRecord ELSE Absent]
  /\ active \in {"default", "monitor", "next"}
  /\ job = [t \in Tabs |-> [Idle EXCEPT !.op = "load", !.step = "read"]]
  /\ cards = [t \in Tabs |-> {}]
  /\ fresh = [t \in Tabs |-> FALSE]
  /\ editing = [t \in Tabs |-> Closed]
  /\ asked = 0
  /\ cut = FALSE

Loading(t) == job[t].op = "load"       \* the page shows nothing else
Free(t) == job[t].op = "idle"          \* neither loading nor saving: the buttons work

Ask(t, op, s, theme) ==
  /\ asked < MaxRequests
  /\ asked' = asked + 1
  /\ job' = [job EXCEPT ![t] = [Idle EXCEPT !.op = op, !.short = s, !.step = "read", !.theme = theme]]
  /\ UNCHANGED <<rows, active, cards, fresh, cut>>

LoadThemes(t) ==
  /\ Free(t)
  /\ job' = [job EXCEPT ![t] = [Idle EXCEPT !.op = "load", !.step = "read"]]
  /\ UNCHANGED <<rows, active, cards, fresh, editing, asked, cut>>

\* A package whose manifest passes; a reserved short is refused before the
\* database is read.
HandleUpload(t, s, v) ==
  /\ Free(t)
  /\ ~IsReservedThemeShort(s)
  /\ Ask(t, "upload", s, [version |-> v, config |-> DefaultConfig(v), css |-> 0])
  /\ UNCHANGED editing

HandleSetTheme(t, c) ==
  /\ Free(t) /\ c \in cards[t] /\ ~c.active
  /\ Ask(t, "set", NormalizeActiveTheme(c.short), Absent)
  /\ UNCHANGED editing

OpenConfig(t, c) ==
  /\ ~Loading(t) /\ c \in cards[t] /\ editing[t] = Closed
  /\ editing' = [editing EXCEPT ![t] = [short |-> c.short, config |-> c.theme.config, css |-> c.theme.css]]
  /\ UNCHANGED <<rows, active, job, cards, fresh, cut, asked>>

\* updateConfig and the text area: a value for a key of the card's manifest,
\* and a text of custom CSS.
UpdateConfig(t, k, value, css) ==
  /\ ~Loading(t) /\ editing[t] # Closed
  /\ \E c \in cards[t] : c.short = editing[t].short /\ (k \in Knows(c.theme.version) \/ k = "none")
  /\ editing' = [editing EXCEPT ![t].css = css, ![t].config =
       [x \in DOMAIN @ \cup ({k} \ {"none"}) |-> IF x = k THEN value ELSE @[x]]]
  /\ UNCHANGED <<rows, active, job, cards, fresh, asked, cut>>

CloseConfig(t) ==
  /\ ~Loading(t) /\ editing[t] # Closed
  /\ editing' = [editing EXCEPT ![t] = Closed]
  /\ UNCHANGED <<rows, active, job, cards, fresh, cut, asked>>

SaveConfig(t) ==
  /\ Free(t) /\ editing[t] # Closed
  /\ Ask(t, "settings", NormalizeActiveTheme(editing[t].short),
         [version |-> 9, config |-> editing[t].config, css |-> editing[t].css])
  /\ UNCHANGED editing

ConfirmDelete(t, c) ==
  /\ Free(t) /\ c \in cards[t] /\ c.deletable
  /\ Ask(t, "delete", NormalizeActiveTheme(c.short), Absent)
  /\ UNCHANGED editing

-----------------------------------------------------------------------------
At(t, op, step) == job[t].op = op /\ job[t].step = step

Goes(t, step) == job' = [job EXCEPT ![t].step = step]

\* The answer is a failure: a message is shown, nothing is loaded again.
Answer4xx(t) ==
  /\ job' = [job EXCEPT ![t] = Idle]
  /\ fresh' = [fresh EXCEPT ![t] = FALSE]
  /\ UNCHANGED <<rows, active, cards, editing, asked, cut>>

\* The answer is a success: the page loads the list again.
Reload(t) == job' = [job EXCEPT ![t] = [Idle EXCEPT !.op = "load", !.step = "read"]]

\* POST /upload: the row is read, then the package is stored over it.
UploadReads(t) ==
  /\ At(t, "upload", "read")
  /\ LET j == job[t] IN
     job' = [job EXCEPT ![t].theme = Upgraded(j.theme.version, rows[j.short]), ![t].step = "write"]
  /\ UNCHANGED <<rows, active, cards, fresh, editing, asked, cut>>

UploadStores(t) ==
  /\ At(t, "upload", "write")
  /\ rows' = [rows EXCEPT ![job[t].short] = job[t].theme]
  /\ Reload(t)
  /\ UNCHANGED <<active, cards, fresh, editing, asked, cut>>

\* POST /set: an uploaded theme must exist; then the setting is written, and
\* the page marks the card without loading the list.
SetChecks(t) ==
  /\ At(t, "set", "read")
  /\ IF IsBuiltinTheme(job[t].short) \/ rows[job[t].short] # Absent
     THEN Goes(t, "write") /\ UNCHANGED <<rows, active, cards, fresh, editing, asked, cut>>
     ELSE Answer4xx(t)

SetWrites(t) ==
  /\ At(t, "set", "write")
  /\ active' = job[t].short
  /\ cut' = FALSE
  /\ cards' = [cards EXCEPT ![t] = {[c EXCEPT !.active = c.short = job[t].short] : c \in @}]
  /\ job' = [job EXCEPT ![t] = Idle]
  /\ UNCHANGED <<rows, fresh, editing, asked>>

\* POST /settings: the row of a builtin theme is made when it is missing, the
\* configuration is validated against the manifest that was read, and the row,
\* if it is still there, is updated.
EnsureBuiltinTheme(t) ==
  /\ At(t, "settings", "read")
  /\ IsBuiltinTheme(job[t].short) /\ rows[job[t].short] = Absent
  /\ Goes(t, "ensure")
  /\ UNCHANGED <<rows, active, cards, fresh, editing, asked, cut>>

BuiltinStored(t) ==
  /\ At(t, "settings", "ensure")
  /\ rows' = [rows EXCEPT ![job[t].short] = BuiltinThemeRecord]
  /\ IF Accepts(0, job[t].theme.config)
     THEN Goes(t, "write") /\ UNCHANGED fresh
     ELSE job' = [job EXCEPT ![t] = Idle] /\ fresh' = [fresh EXCEPT ![t] = FALSE]
  /\ UNCHANGED <<active, cards, editing, asked, cut>>

SettingsCheck(t) ==
  /\ At(t, "settings", "read")
  /\ LET j == job[t]  row == rows[j.short] IN
     \/ /\ row # Absent /\ Accepts(row.version, j.theme.config)
        /\ job' = [job EXCEPT ![t].step = "write",
             ![t].theme.config = ValidateThemeConfig(row.version, j.theme.config)]
        /\ UNCHANGED <<rows, active, cards, fresh, editing, asked, cut>>
     \/ /\ (row = Absent /\ ~IsBuiltinTheme(j.short))
           \/ (row # Absent /\ ~Accepts(row.version, j.theme.config))
        /\ Answer4xx(t)

SettingsWrite(t) ==
  /\ At(t, "settings", "write")
  /\ LET j == job[t] IN
     rows' = [rows EXCEPT ![j.short] =
       IF @ = Absent THEN @ ELSE [@ EXCEPT !.config = j.theme.config, !.css = j.theme.css]]
  /\ editing' = [editing EXCEPT ![t] = Closed]
  /\ Reload(t)
  /\ UNCHANGED <<active, cards, fresh, cut, asked>>

\* POST /delete: the setting is read, the row and its assets go, and the
\* setting falls back when it named the row.
DeleteReads(t) ==
  /\ At(t, "delete", "read")
  /\ job' = [job EXCEPT ![t].active = NormalizeActiveTheme(active), ![t].step = "write"]
  /\ UNCHANGED <<rows, active, cards, fresh, editing, asked, cut>>

DeleteRow(t) ==
  /\ At(t, "delete", "write")
  /\ IF rows[job[t].short] = Absent THEN Answer4xx(t) ELSE
     /\ rows' = [rows EXCEPT ![job[t].short] = Absent]
     /\ IF job[t].active = job[t].short THEN Goes(t, "reset") ELSE Reload(t)
     /\ UNCHANGED <<active, cards, fresh, editing, asked, cut>>

DeleteResets(t) ==
  /\ At(t, "delete", "reset")
  /\ active' = "monitor"
  /\ Reload(t)
  /\ UNCHANGED <<rows, cards, fresh, editing, asked, cut>>

\* GET /: the setting and the rows are read side by side.
ListReadsActive(t) ==
  /\ At(t, "load", "read") \/ At(t, "load", "rows")
  /\ job' = [job EXCEPT ![t].active = NormalizeActiveTheme(active),
                        ![t].step = IF @ = "read" THEN "active" ELSE "both"]
  /\ UNCHANGED <<rows, active, cards, fresh, editing, asked, cut>>

ListReadsRows(t) ==
  /\ At(t, "load", "read") \/ At(t, "load", "active")
  /\ job' = [job EXCEPT ![t].rows = {<<s, rows[s]>> : s \in Shorts},
                        ![t].step = IF @ = "read" THEN "rows" ELSE "both"]
  /\ UNCHANGED <<rows, active, cards, fresh, editing, asked, cut>>

ListAnswers(t) ==
  /\ At(t, "load", "both")
  /\ LET read == [s \in Shorts |-> (CHOOSE p \in job[t].rows : p[1] = s)[2]] IN
     cards' = [cards EXCEPT ![t] = Listed(read, job[t].active)]
  /\ fresh' = [fresh EXCEPT ![t] = TRUE]
  /\ job' = [job EXCEPT ![t] = Idle]
  /\ UNCHANGED <<rows, active, editing, asked, cut>>

\* A database call fails (the quota included): what was written stays.
Fails(t) ==
  /\ Faults /\ ~Free(t)
  /\ cut' = (cut \/ At(t, "delete", "reset"))
  /\ job' = [job EXCEPT ![t] = Idle]
  /\ fresh' = [fresh EXCEPT ![t] = FALSE]
  /\ UNCHANGED <<rows, active, cards, editing, asked>>

Next ==
  \E t \in Tabs :
    \/ LoadThemes(t) \/ CloseConfig(t) \/ SaveConfig(t)
    \/ \E s \in Customs \cup {"next"}, v \in {1, 2} : HandleUpload(t, s, v)
    \/ \E c \in cards[t] : HandleSetTheme(t, c) \/ OpenConfig(t, c) \/ ConfirmDelete(t, c)
    \/ \E k \in {"a", "b", "none"}, x, css \in Values : UpdateConfig(t, k, x, css)
    \/ UploadReads(t) \/ UploadStores(t) \/ SetChecks(t) \/ SetWrites(t)
    \/ EnsureBuiltinTheme(t) \/ BuiltinStored(t) \/ SettingsCheck(t) \/ SettingsWrite(t)
    \/ DeleteReads(t) \/ DeleteRow(t) \/ DeleteResets(t)
    \/ ListReadsActive(t) \/ ListReadsRows(t) \/ ListAnswers(t) \/ Fails(t)

Spec == Init /\ [][Next]_vars

-----------------------------------------------------------------------------
\* Types, and an uploaded theme's stored configuration is one its stored
\* manifest accepts: the dialog can always be saved again (POST /upload keeps
\* the old configuration only when the new manifest accepts it).
ConfigFits ==
  /\ rows \in [Shorts -> Themes \cup {Absent}]
  /\ \A s \in Shorts : rows[s] # Absent => Accepts(rows[s].version, rows[s].config)

\* A new version of a package keeps the administrator's CSS and, when it knows
\* the old keys, every value (POST /upload).
UpgradeKeepsSettings ==
  [][\A s \in Shorts : rows[s] # Absent /\ rows'[s] # Absent /\ rows'[s].version # rows[s].version
       => /\ rows'[s].css = rows[s].css
          /\ DOMAIN rows[s].config \subseteq Knows(rows'[s].version)
               => \A k \in DOMAIN rows[s].config : rows'[s].config[k] = rows[s].config[k]]_vars

Quiet == \A t \in Tabs : Free(t)
ActiveIsThere == LET s == NormalizeActiveTheme(active) IN IsBuiltinTheme(s) \/ rows[s] # Absent

\* With no request under way the active theme exists, unless a deletion failed
\* half way (POST /delete, POST /set).
ActiveExists == Quiet => cut \/ ActiveIsThere

\* A page at rest whose last load succeeded shows what is stored: every theme
\* that can be enabled, and exactly one marked as the current one (GET /, and
\* the marks that handleSetTheme makes without loading).
PageIsTrue ==
  \A t \in Tabs : Free(t) /\ fresh[t] =>
    /\ \A s \in Customs \cup Builtins : rows[s] # Absent =>
         \E c \in cards[t] : c.short = s /\ c.theme = rows[s]
    /\ \A c \in cards[t] : c.short \in Builtins \/ rows[c.short] # Absent
    /\ ActiveIsThere => Cardinality({c \in cards[t] : c.active}) = 1
    /\ \A c \in cards[t] : c.active => c.short = NormalizeActiveTheme(active)
    /\ \A c \in cards[t] : c.short \notin DOMAIN Aliases
=============================================================================
