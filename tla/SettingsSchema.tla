--------------------------- MODULE SettingsSchema ---------------------------
(***************************************************************************)
(* settings/schema.ts: which values of a setting are stored, what is shown *)
(* of a stored value, and what the general page makes of what was typed.   *)
(*                                                                         *)
(* Numbers of bytes are in MiB.  A text is told apart by what its          *)
(* normalizer makes of it: "bare" lacks the scheme its normal form         *)
(* ("whole") has, "spaced" is the normal form between blanks, "blank" is   *)
(* nothing but blanks, "self" is an address of this site, "long" is over   *)
(* the maximum length and "bad" is anything else.                          *)
(***************************************************************************)
EXTENDS Integers, TLC

VARIABLES
    key,    \* the setting
    raw,    \* what was typed, or what an older version stored
    stored, \* the row of the settings table; Nothing: no row
    shown,  \* what buildAdminSettings makes of the row
    phase   \* typed, sent, stored, refused, shown, resent, kept, lost

vars == <<key, raw, stored, shown, phase>>

\* a value is a text or a number
Txt(s) == [s |-> s, n |-> 0]
Number(n) == [s |-> "number", n |-> n]
Nothing == Txt("no row")
Null == "null"
Refused == Txt(Null)

(***************************************************************************)
(* SETTING_SCHEMA.                                                         *)
(***************************************************************************)
Whole(def, lo, hi) == [type |-> "integer", default |-> Number(def), min |-> lo, max |-> hi]
Bool(def) == [type |-> "boolean", default |-> Txt(def)]
Enum(def, vals) == [type |-> "enum", default |-> Txt(def), values |-> vals]
\* a text with its normalizer; a default that is no special case is "whole"
Text(def, norm) == [type |-> "string", default |-> Txt(def), norm |-> norm]

SiteSchema ==
    [site_title |-> Text("whole", "plain"), site_subtitle |-> Text("empty", "plain"),
     site_description |-> Text("whole", "plain"), language |-> Text("whole", "plain"),
     script_domain |-> Text("empty", "domain"), site_logo_url |-> Text("empty", "logo"),
     site_logo_data |-> Text("empty", "plain"), site_logo_type |-> Text("empty", "plain"),
     update_repository_url |-> Text("empty", "repository")]

RecordSchema ==
    [record_enabled |-> Bool("true"),
     record_preserve_time |-> Whole(72, 1, 72), ping_record_preserve_time |-> Whole(72, 1, 72),
     record_persist_interval_sec |-> Whole(120, 3, 3600),
     ping_record_persist_interval_sec |-> Whole(120, 60, 3600),
     record_high_watermark_rows |-> Whole(700000, 1000, 10000000),
     record_high_watermark_bytes |-> Whole(400, 16, 524288),
     database_storage_budget_bytes |-> Whole(500, 64, 524288),
     theme_storage_quota_bytes |-> Whole(32, 1, 1024),
     capacity_daily_view_minutes |-> Whole(60, 0, 1440), audit_log_preserve_time |-> Whole(2160, 24, 87600),
     live_poll_active_interval_sec |-> Whole(3, 3, 300), live_poll_idle_interval_sec |-> Whole(120, 60, 3600),
     live_poll_active_max_duration_sec |-> Whole(120, 60, 3600)]

MailSchema ==
    [notification_method |-> Enum("telegram", {"telegram", "email", "webhook", "none"}),
     telegram_bot_token |-> Text("empty", "plain"), telegram_chat_id |-> Text("empty", "plain"),
     email_smtp_host |-> Text("empty", "host"), email_smtp_port |-> Whole(587, 1, 65535),
     email_smtp_security |-> Enum("starttls", {"starttls", "tls"}),
     email_smtp_username |-> Text("empty", "plain"), email_smtp_password |-> Text("empty", "plain"),
     email_smtp_from_address |-> Text("empty", "address"), email_smtp_from_name |-> Text("whole", "plain"),
     email_smtp_recipients |-> Text("empty", "recipients"),
     email_smtp_auth_method |-> Enum("plain", {"plain", "login"})]

WebhookSchema ==
    [webhook_url |-> Text("empty", "webhook"),
     webhook_format |->
        Enum("generic", {"generic", "slack", "discord", "feishu", "dingtalk", "wecom", "custom"}),
     webhook_secret |-> Text("empty", "plain"), webhook_method |-> Enum("POST", {"GET", "POST"}),
     webhook_content_type |-> Text("whole", "contentType"), webhook_headers_json |-> Text("empty", "headers"),
     webhook_body_template |-> Text("whole", "plain"), webhook_username |-> Text("empty", "plain"),
     webhook_password |-> Text("empty", "plain"), webhook_retry_count |-> Whole(1, 1, 3)]

OtherSchema ==
    [enable_ip_change_notification |-> Bool("false"), offline_notify_never_reported |-> Bool("true"),
     offline_confirm_rounds |-> Whole(3, 1, 10), theme_bg_desktop |-> Text("empty", "plain"),
     theme_bg_mobile |-> Text("empty", "plain"), theme_content_width |-> Whole(100, 60, 100),
     active_theme |-> Text("monitor", "theme")]

Schema == SiteSchema @@ RecordSchema @@ MailSchema @@ WebhookSchema @@ OtherSchema

Keys == DOMAIN Schema

(***************************************************************************)
(* The normalizers; Null refuses.                                          *)
(***************************************************************************)
NormalizeBoolean(v) ==
    IF v \in {"true", "1", "TRUE"} THEN "true" ELSE IF v \in {"false", "0"} THEN "false" ELSE Null

\* nothing is the default, not the least value
NormalizeInteger(v, d) ==
    IF v.s = "empty" THEN d.default
    ELSE IF v.s = "number" /\ v.n >= d.min /\ v.n <= d.max THEN v ELSE Refused

NormalizeEnum(v, d) == IF v \in d.values THEN v ELSE Null

NormalizeScriptDomain(v) ==
    CASE v \in {"empty", "blank"} -> "empty" [] v \in {"bare", "whole", "spaced"} -> "whole" [] OTHER -> Null

NormalizeSiteLogoUrl(v) ==
    CASE v = "empty" -> "empty" [] v \in {"whole", "spaced"} -> "whole" [] OTHER -> Null

NormalizeUpdateRepositoryUrl(v) ==
    CASE v = "empty" -> "empty" [] v \in {"bare", "whole", "spaced"} -> "whole" [] OTHER -> Null

NormalizeSmtpHost(v) ==
    CASE v = "empty" -> "empty" [] v \in {"whole", "spaced"} -> "whole" [] OTHER -> Null

NormalizeEmailAddress(v) ==
    CASE v = "empty" -> "empty" [] v \in {"whole", "spaced"} -> "whole" [] OTHER -> Null

NormalizeEmailRecipients(v) ==
    CASE v = "empty" -> "empty" [] v \in {"whole", "spaced"} -> "whole" [] OTHER -> Null

\* only a write refuses an address of this site
NormalizeWebhookUrl(v, write) ==
    CASE v = "empty" -> "empty"
      [] v \in {"whole", "spaced"} -> "whole"
      [] v = "self" -> IF write THEN Null ELSE "self"
      [] OTHER -> Null

NormalizeWebhookContentType(v) ==
    CASE v = "empty" -> "whole" [] v \in {"whole", "spaced"} -> "whole" [] OTHER -> Null

NormalizeWebhookHeadersJson(v) ==
    CASE v \in {"empty", "blank"} -> "empty" [] v \in {"whole", "spaced"} -> "whole" [] OTHER -> Null

NormalizeActiveTheme(v) ==
    CASE v \in {"empty", "blank", "default"} -> "monitor"
      [] v \in {"whole", "spaced"} -> "whole"
      [] v = "monitor" -> "monitor"
      [] OTHER -> Null

NormalizeText(v, norm, write) ==
    CASE norm = "domain" -> NormalizeScriptDomain(v)
      [] norm = "logo" -> NormalizeSiteLogoUrl(v)
      [] norm = "repository" -> NormalizeUpdateRepositoryUrl(v)
      [] norm = "host" -> NormalizeSmtpHost(v)
      [] norm = "address" -> NormalizeEmailAddress(v)
      [] norm = "recipients" -> NormalizeEmailRecipients(v)
      [] norm = "webhook" -> NormalizeWebhookUrl(v, write)
      [] norm = "contentType" -> NormalizeWebhookContentType(v)
      [] norm = "headers" -> NormalizeWebhookHeadersJson(v)
      [] norm = "theme" -> NormalizeActiveTheme(v)
      [] OTHER -> v

\* `write`: selfHost is known
NormalizeSettingValue(k, v, write) ==
    LET d == Schema[k]
        n == CASE d.type = "boolean" -> Txt(NormalizeBoolean(v.s))
               [] d.type = "integer" -> NormalizeInteger(v, d)
               [] d.type = "enum" -> Txt(NormalizeEnum(v.s, d))
               [] OTHER -> Txt(NormalizeText(v.s, d.norm, write))
    IN  IF n.s = "long" \/ (k = "email_smtp_port" /\ n = Number(25)) THEN Refused ELSE n

\* what is shown of a row, or of no row: the default when it is not valid
BuildAdminSetting(k, row) ==
    LET n == NormalizeSettingValue(k, IF row = Nothing THEN Schema[k].default ELSE row, FALSE)
    IN  IF n = Refused THEN Schema[k].default ELSE n

(***************************************************************************)
(* The general page: the values it keeps within a range of its own before  *)
(* it sends them.  A field that was emptied counts as zero.                *)
(***************************************************************************)
PageRange ==
    [record_preserve_time |-> <<1, 72, 72>>, ping_record_preserve_time |-> <<1, 72, 72>>,
     live_poll_active_interval_sec |-> <<3, 300, 3>>, live_poll_idle_interval_sec |-> <<60, 3600, 120>>,
     live_poll_active_max_duration_sec |-> <<60, 3600, 120>>,
     record_persist_interval_sec |-> <<3, 3600, 120>>, ping_record_persist_interval_sec |-> <<60, 3600, 120>>,
     record_high_watermark_rows |-> <<1000, 10000000, 700000>>,
     capacity_daily_view_minutes |-> <<0, 1440, 60>>]

ClampInteger(v, range) ==
    IF v.s = "text" THEN Number(range[3])
    ELSE LET n == IF v.s = "empty" THEN 0 ELSE v.n
         IN  Number(IF n < range[1] THEN range[1] ELSE IF n > range[2] THEN range[2] ELSE n)

\* the budgets are checked on the page and not sent when out of range
StorageBudget == [database_storage_budget_bytes |-> <<64, 524288>>, theme_storage_quota_bytes |-> <<1, 1024>>]

BudgetError(k, v) ==
    k \in DOMAIN StorageBudget
      /\ (v.s # "number" \/ v.n < StorageBudget[k][1] \/ v.n > StorageBudget[k][2])

(***************************************************************************)
(* One setting, typed and saved, or found in the table.                    *)
(***************************************************************************)
Texts == {"empty", "blank", "bare", "whole", "spaced", "self", "long", "bad", "default"}

Near(d) == {Number(n) : n \in {0, 1, 25, d.min - 1, d.min, d.min + 1, d.max - 1, d.max, d.max + 1}}

Inputs(k) ==
    LET d == Schema[k]
    IN  CASE d.type = "integer" -> Near(d) \cup {Txt("empty"), Txt("text")}
          [] d.type = "boolean" -> {Txt(s) : s \in {"true", "TRUE", "1", "false", "0", "empty", "bad"}}
          [] d.type = "enum" -> {Txt(s) : s \in d.values \cup {"empty", "bad"}}
          [] OTHER -> {Txt(s) : s \in Texts}

\* the row may be missing, or hold what an older version took
Init ==
    /\ key \in Keys
    /\ raw \in Inputs(key)
    /\ stored \in {Nothing} \cup Inputs(key)
    /\ shown = BuildAdminSetting(key, stored)
    /\ phase = IF stored = Nothing THEN "typed" ELSE "found"

\* handleSave of the general page, or of a page that sends what was typed
Save ==
    /\ phase = "typed"
    /\ raw' = IF key \in DOMAIN PageRange THEN ClampInteger(raw, PageRange[key]) ELSE raw
    /\ phase' = IF BudgetError(key, raw) THEN "refused on the page" ELSE "sent"
    /\ UNCHANGED <<key, stored, shown>>

SanitizeForStorage ==
    /\ phase = "sent"
    /\ LET n == NormalizeSettingValue(key, raw, TRUE)
       IN  IF n = Refused THEN phase' = "refused" /\ UNCHANGED stored
           ELSE phase' = "stored" /\ stored' = n
    /\ UNCHANGED <<key, raw, shown>>

Show ==
    /\ phase \in {"stored", "found"}
    /\ shown' = BuildAdminSetting(key, stored)
    /\ phase' = "shown"
    /\ UNCHANGED <<key, raw, stored>>

\* what is shown is sent as it is
SendAgain ==
    /\ phase = "shown"
    /\ phase' = "sent again"
    /\ raw' = shown
    /\ UNCHANGED <<key, stored, shown>>

Next == Save \/ SanitizeForStorage \/ Show \/ SendAgain

Spec == Init /\ [][Next]_vars

(***************************************************************************)
(* Properties.                                                             *)
(***************************************************************************)
\* What the server stored is what it shows: no stored value turns into the
\* default when it is read.
StoredIsShown == [][(phase = "stored") => shown' = stored]_vars

\* What is shown of any row is within the schema and stays itself: saved again
\* unchanged it is stored as it is.  Only an address of this site, which older
\* versions took, is shown and not taken again.
ShownIsFixed ==
    phase = "sent again" =>
        \/ NormalizeSettingValue(key, raw, TRUE) = shown
        \/ shown = Txt("self") /\ NormalizeSettingValue(key, raw, TRUE) = Refused

\* The server never refuses what the general page has kept within its range, nor
\* a budget the page let pass.
PageIsWithin ==
    (phase = "refused" /\ key \in DOMAIN PageRange \cup DOMAIN StorageBudget) => FALSE

=============================================================================
