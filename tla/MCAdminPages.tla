---------------------------- MODULE MCAdminPages ----------------------------
(*****************************************************************************)
(* The pages of the administrator, each on a small instance.  A behaviour of *)
(* this module is a behaviour of one of them: the others stay in their       *)
(* initial states, so that their state spaces add up and TLC checks them in  *)
(* one run.                                                                  *)
(*****************************************************************************)
EXTENDS Integers

VARIABLES
    part,       \* the component that moves in this behaviour
    websitesDb, websitesNextId, websitesList, websitesSelected, websitesReads, websitesLog,
    websitesWrites, websitesMade, websitesElsewhere, websitesDoubt,   \* WebsitesPage
    nodesDb, kept, nodesNextId, nodesList, nodesSelected, nodesReads, nodesLog, nodesWrites,
    nodesMade, nodesDoubt,   \* NodesPage
    rulesNodes, rulesStored, rulesShown, flags, tab, clients, rulesListed, rulesSelected,
    rulesDialog, rulesLoads, rulesWrites, ended, rulesDoubt, rulesCount,   \* NodeRules
    loadNodes, rules, setting, allowed, loadShown, policy, loadListed, editable, loadDialog,
    loadWrites, unpruned, loadCount, directed,   \* LoadRules
    settingsDb, copy, gets, cache, registered, page, settingsWrites, settingsNextId,
    settingsTyped, moves, settingsElsewhere, saves, faults, restored, settingsDoubt,   \* SettingsPages
    secretDb, draft, original, busy, loaded, secretLoads, write, tested, secretTyped,
    secretCount,   \* SecretSettings
    token, issued, commandDialog, fetches, change, opens, rotations, commandDoubt,   \* InstallCommand
    ver, name, mfa, cookie, user, accountStored, loading, rev, accountForm, reqs, sent, out,
    accountDoubt,   \* SignIn
    key, raw, schemaStored, schemaShown, schemaPhase,   \* SettingsSchema
    formForm, row, formPhase,   \* WebsiteForm
    tasksDb, tasksNextId, memory, edge, tasksList, tasksLoading, failed, tasksDialog, asked, tasksReqs,
    tasksSent, tasksFaults, tasksDoubt, moved   \* PingTasksPage

Websites == INSTANCE WebsitesPage WITH
    Contents <- {"a"}, Kinds <- {"append", "put", "remove", "order"}, MaxChanges <- 2,
    MaxElsewhere <- 1, MaxReads <- 1, db <- websitesDb, nextId <- websitesNextId,
    list <- websitesList, selected <- websitesSelected, reads <- websitesReads,
    log <- websitesLog, writes <- websitesWrites, made <- websitesMade,
    elsewhere <- websitesElsewhere, doubt <- websitesDoubt

Switches == INSTANCE WebsitesPage WITH
    Contents <- {"a", "b"}, Kinds <- {"hide", "enable", "check"}, MaxChanges <- 2,
    MaxElsewhere <- 0, MaxReads <- 0, db <- websitesDb, nextId <- websitesNextId,
    list <- websitesList, selected <- websitesSelected, reads <- websitesReads,
    log <- websitesLog, writes <- websitesWrites, made <- websitesMade,
    elsewhere <- websitesElsewhere, doubt <- websitesDoubt

NodeList == INSTANCE NodesPage WITH
    Contents <- {"a", "b"}, Kinds <- {"add", "edit", "remove"}, Nodes <- 1, MaxChanges <- 2,
    MaxReads <- 1, db <- nodesDb, nextId <- nodesNextId, list <- nodesList,
    selected <- nodesSelected, reads <- nodesReads, log <- nodesLog, writes <- nodesWrites,
    made <- nodesMade, doubt <- nodesDoubt

Drags == INSTANCE NodesPage WITH
    Contents <- {"a"}, Kinds <- {"order", "hide", "batch", "rotate"}, Nodes <- 2,
    MaxChanges <- 2, MaxReads <- 0, db <- nodesDb, nextId <- nodesNextId, list <- nodesList,
    selected <- nodesSelected, reads <- nodesReads, log <- nodesLog, writes <- nodesWrites,
    made <- nodesMade, doubt <- nodesDoubt

Rules == INSTANCE NodeRules WITH
    Tabs <- {"offline"}, Nodes <- {"n1", "n2"}, Values <- {0, 1}, Valid <- {1}, Default <- 1,
    MaxEdits <- 1, MaxOpens <- 1, MaxLoads <- 2, MaxLost <- 1, MaxDeletes <- 1,
    nodes <- rulesNodes, stored <- rulesStored, shown <- rulesShown, listed <- rulesListed,
    selected <- rulesSelected, dialog <- rulesDialog, loads <- rulesLoads,
    writes <- rulesWrites, doubt <- rulesDoubt, count <- rulesCount

TwoTabs == INSTANCE NodeRules WITH
    Tabs <- {"offline", "expiry"}, Nodes <- {"n1"}, Values <- {1}, Valid <- {1}, Default <- 1,
    MaxEdits <- 1, MaxOpens <- 0, MaxLoads <- 2, MaxLost <- 1, MaxDeletes <- 0,
    nodes <- rulesNodes, stored <- rulesStored, shown <- rulesShown, listed <- rulesListed,
    selected <- rulesSelected, dialog <- rulesDialog, loads <- rulesLoads,
    writes <- rulesWrites, doubt <- rulesDoubt, count <- rulesCount

Load == INSTANCE LoadRules WITH
    Nodes <- {"n1", "n2"}, Ids <- {1}, Intervals <- {2, 3}, MaxInterval <- 20,
    DefaultInterval <- 3, Minute <- 20, MaxTolerance <- 5, Persist <- {20}, Active <- {1, 3},
    Idle <- {5}, MaxSaves <- 2, MaxOpens <- 1, MaxElsewhere <- 1, nodes <- loadNodes,
    shown <- loadShown, listed <- loadListed, dialog <- loadDialog, writes <- loadWrites,
    count <- loadCount

Settings == INSTANCE SettingsPages WITH
    Acts <- {"enter", "logo", "restore"}, MaxTyped <- 2, MaxMoves <- 1, MaxSaves <- 1,
    MaxFaults <- 1, MaxElsewhere <- 0, db <- settingsDb, writes <- settingsWrites,
    nextId <- settingsNextId, typed <- settingsTyped, elsewhere <- settingsElsewhere,
    doubt <- settingsDoubt

Others == INSTANCE SettingsPages WITH
    Acts <- {"enter", "logo", "restore"}, MaxTyped <- 1, MaxMoves <- 1, MaxSaves <- 1,
    MaxFaults <- 0, MaxElsewhere <- 1, db <- settingsDb, writes <- settingsWrites,
    nextId <- settingsNextId, typed <- settingsTyped, elsewhere <- settingsElsewhere,
    doubt <- settingsDoubt

Secret == INSTANCE SecretSettings WITH
    Words <- {"a"}, MaxTyped <- 1, MaxSaves <- 1, MaxVisits <- 1, MaxElsewhere <- 1,
    db <- secretDb, loads <- secretLoads, typed <- secretTyped, count <- secretCount

Typing == INSTANCE SecretSettings WITH
    Words <- {"a"}, MaxTyped <- 2, MaxSaves <- 1, MaxVisits <- 0, MaxElsewhere <- 1,
    db <- secretDb, loads <- secretLoads, typed <- secretTyped, count <- secretCount

Command == INSTANCE InstallCommand WITH
    Nodes <- {"a", "b"}, NewNode <- "c", MaxRotations <- 1, MaxOpens <- 2,
    dialog <- commandDialog, doubt <- commandDoubt

Account == INSTANCE SignIn WITH
    MaxVersion <- 3, MaxSent <- 3, stored <- accountStored, form <- accountForm,
    doubt <- accountDoubt

Schema == INSTANCE SettingsSchema WITH
    stored <- schemaStored, shown <- schemaShown, phase <- schemaPhase

Form == INSTANCE WebsiteForm WITH
    Statuses <- {0, 100, 399, 600}, Intervals <- {0, 45, 60, 86400}, Timeouts <- {0, 30, 31},
    Graces <- {0, 30}, Limits <- {10, 11},
    Octets <- {0, 2, 10, 16, 18, 20, 31, 32, 51, 63, 64, 100, 113, 127, 128, 168, 169, 172, 192, 198, 203, 223, 224, 254},
    Ports <- {0, 443, 65536}, form <- formForm, phase <- formPhase

Tasks == INSTANCE PingTasksPage WITH
    Contents <- {"a", "b"}, Stored <- 2, MaxChanges <- 2, MaxFaults <- 1, db <- tasksDb,
    nextId <- tasksNextId, list <- tasksList, loading <- tasksLoading, dialog <- tasksDialog,
    reqs <- tasksReqs, sent <- tasksSent, faults <- tasksFaults, doubt <- tasksDoubt

\* The values above are values that the components are made for.
ASSUME InstanceAssumption ==
    /\ Websites!BoundsAssumption /\ Switches!BoundsAssumption /\ NodeList!BoundsAssumption
    /\ Drags!BoundsAssumption /\ Rules!ValuesAssumption /\ TwoTabs!ValuesAssumption
    /\ Load!NumbersAssumption /\ Settings!ActsAssumption /\ Others!ActsAssumption
    /\ Secret!WordsAssumption /\ Typing!WordsAssumption /\ Command!InstallAssumption
    /\ Account!BoundsAssumption /\ Form!NumbersAssumption /\ Tasks!TasksAssumption

-----------------------------------------------------------------------------
websitesVars == <<websitesDb, websitesNextId, websitesList, websitesSelected, websitesReads,
                  websitesLog, websitesWrites, websitesMade, websitesElsewhere, websitesDoubt>>
nodesVars == <<nodesDb, kept, nodesNextId, nodesList, nodesSelected, nodesReads, nodesLog,
               nodesWrites, nodesMade, nodesDoubt>>
rulesVars == <<rulesNodes, rulesStored, rulesShown, flags, tab, clients, rulesListed,
               rulesSelected, rulesDialog, rulesLoads, rulesWrites, ended, rulesDoubt,
               rulesCount>>
loadVars == <<loadNodes, rules, setting, allowed, loadShown, policy, loadListed, editable,
              loadDialog, loadWrites, unpruned, loadCount, directed>>
settingsVars == <<settingsDb, copy, gets, cache, registered, page, settingsWrites,
                  settingsNextId, settingsTyped, moves, settingsElsewhere, saves, faults,
                  restored, settingsDoubt>>
secretsVars == <<secretDb, draft, original, busy, loaded, secretLoads, write, tested,
                 secretTyped, secretCount>>
commandVars == <<token, issued, commandDialog, fetches, change, opens, rotations, commandDoubt>>
accountVars == <<ver, name, mfa, cookie, user, accountStored, loading, rev, accountForm, reqs,
                 sent, out, accountDoubt>>
schemaVars == <<key, raw, schemaStored, schemaShown, schemaPhase>>
formVars == <<formForm, row, formPhase>>
tasksVars == <<tasksDb, tasksNextId, memory, edge, tasksList, tasksLoading, failed, tasksDialog, asked,
               tasksReqs, tasksSent, tasksFaults, tasksDoubt, moved>>

Parts == {"websites", "switches", "nodes", "drags", "rules", "tabs", "load", "settings", "others", "secrets", "typing", "command", "account", "schema", "form", "tasks"}

\* Every component is in an initial state, all but one for good.
Init ==
    /\ part \in Parts
    /\ IF part = "switches" THEN Switches!Init ELSE Websites!Init
    /\ IF part = "drags" THEN Drags!Init ELSE NodeList!Init
    /\ IF part = "tabs" THEN TwoTabs!Init ELSE Rules!Init
    /\ Load!Init
    /\ part # "load" => setting.active = 1
    /\ IF part = "others" THEN Others!Init ELSE Settings!Init
    /\ part # "settings" => (part # "others" => page.scope = "site")
    /\ IF part = "typing" THEN Typing!Init ELSE Secret!Init
    /\ part # "secrets" => (part # "typing" => \A k \in DOMAIN secretDb : secretDb[k] = "")
    /\ Command!Init
    /\ Account!Init
    /\ part # "account" => ~mfa /\ cookie = 0
    /\ IF part = "schema" THEN Schema!Init ELSE key = "theme_bg_desktop" /\ raw = Schema!Txt("empty") /\ schemaStored = Schema!Nothing
        /\ schemaShown = Schema!BuildAdminSetting(key, schemaStored) /\ schemaPhase = "typed"
    /\ IF part = "form" THEN Form!Init ELSE formForm = Form!Named /\ row = Form!Missing /\ formPhase = "typed"
    /\ Tasks!Init

\* In a behaviour only one component moves.
InWebsites == part = "websites" /\ UNCHANGED <<part, nodesVars, rulesVars, loadVars,
                                               settingsVars, secretsVars, commandVars,
                                               accountVars, schemaVars, formVars, tasksVars>>
InSwitches == part = "switches" /\ UNCHANGED <<part, nodesVars, rulesVars, loadVars,
                                               settingsVars, secretsVars, commandVars,
                                               accountVars, schemaVars, formVars, tasksVars>>
InNodeList == part = "nodes" /\ UNCHANGED <<part, websitesVars, rulesVars, loadVars,
                                            settingsVars, secretsVars, commandVars, accountVars,
                                            schemaVars, formVars, tasksVars>>
InDrags == part = "drags" /\ UNCHANGED <<part, websitesVars, rulesVars, loadVars, settingsVars,
                                         secretsVars, commandVars, accountVars, schemaVars,
                                         formVars, tasksVars>>
InRules == part = "rules" /\ UNCHANGED <<part, websitesVars, nodesVars, loadVars, settingsVars,
                                         secretsVars, commandVars, accountVars, schemaVars,
                                         formVars, tasksVars>>
InTwoTabs == part = "tabs" /\ UNCHANGED <<part, websitesVars, nodesVars, loadVars, settingsVars,
                                          secretsVars, commandVars, accountVars, schemaVars,
                                          formVars, tasksVars>>
InLoad == part = "load" /\ UNCHANGED <<part, websitesVars, nodesVars, rulesVars, settingsVars,
                                       secretsVars, commandVars, accountVars, schemaVars,
                                       formVars, tasksVars>>
InSettings == part = "settings" /\ UNCHANGED <<part, websitesVars, nodesVars, rulesVars,
                                               loadVars, secretsVars, commandVars, accountVars,
                                               schemaVars, formVars, tasksVars>>
InOthers == part = "others" /\ UNCHANGED <<part, websitesVars, nodesVars, rulesVars, loadVars,
                                           secretsVars, commandVars, accountVars, schemaVars,
                                           formVars, tasksVars>>
InSecret == part = "secrets" /\ UNCHANGED <<part, websitesVars, nodesVars, rulesVars, loadVars,
                                            settingsVars, commandVars, accountVars, schemaVars,
                                            formVars, tasksVars>>
InTyping == part = "typing" /\ UNCHANGED <<part, websitesVars, nodesVars, rulesVars, loadVars,
                                           settingsVars, commandVars, accountVars, schemaVars,
                                           formVars, tasksVars>>
InCommand == part = "command" /\ UNCHANGED <<part, websitesVars, nodesVars, rulesVars, loadVars,
                                             settingsVars, secretsVars, accountVars, schemaVars,
                                             formVars, tasksVars>>
InAccount == part = "account" /\ UNCHANGED <<part, websitesVars, nodesVars, rulesVars, loadVars,
                                             settingsVars, secretsVars, commandVars, schemaVars,
                                             formVars, tasksVars>>
InSchema == part = "schema" /\ UNCHANGED <<part, websitesVars, nodesVars, rulesVars, loadVars,
                                           settingsVars, secretsVars, commandVars, accountVars,
                                           formVars, tasksVars>>
InForm == part = "form" /\ UNCHANGED <<part, websitesVars, nodesVars, rulesVars, loadVars,
                                       settingsVars, secretsVars, commandVars, accountVars,
                                       schemaVars, tasksVars>>
InTasks == part = "tasks" /\ UNCHANGED <<part, websitesVars, nodesVars, rulesVars, loadVars,
                                         settingsVars, secretsVars, commandVars, accountVars,
                                         schemaVars, formVars>>

Next ==
    \/ InWebsites /\ Websites!Next
    \/ InSwitches /\ Switches!Next
    \/ InNodeList /\ NodeList!Next
    \/ InDrags /\ Drags!Next
    \/ InRules /\ Rules!Next
    \/ InTwoTabs /\ TwoTabs!Next
    \/ InLoad /\ Load!Next
    \/ InSettings /\ Settings!Next
    \/ InOthers /\ Others!Next
    \/ InSecret /\ Secret!Next
    \/ InTyping /\ Typing!Next
    \/ InCommand /\ Command!Next
    \/ InAccount /\ Account!Next
    \/ InSchema /\ Schema!Next
    \/ InForm /\ Form!Next
    \/ InTasks /\ Tasks!Next

vars == <<part, websitesVars, nodesVars, rulesVars, loadVars, settingsVars, secretsVars, commandVars,
          accountVars, schemaVars, formVars, tasksVars>>

Spec == Init /\ [][Next]_vars

-----------------------------------------------------------------------------
\* The component that moves keeps the types of its module.
TypesAreKept ==
    /\ part = "websites" => Websites!TypeOK
    /\ part = "switches" => Switches!TypeOK
    /\ part = "nodes" => NodeList!TypeOK
    /\ part = "drags" => Drags!TypeOK
    /\ part = "rules" => Rules!TypeOK
    /\ part = "tabs" => TwoTabs!TypeOK
    /\ part = "load" => Load!TypeOK
    /\ part = "settings" => Settings!TypeOK
    /\ part = "others" => Others!TypeOK
    /\ part = "secrets" => Secret!TypeOK
    /\ part = "typing" => Typing!TypeOK
    /\ part = "command" => Command!TypeOK
    /\ part = "account" => Account!TypeOK
    /\ part = "tasks" => Tasks!TypeOK

\* A page at rest shows what is stored, whatever changes, reads, lost answers and changes
\* made elsewhere overlapped: the lists of websites, of nodes and of ping
\* tasks, the rules of the nodes, the settings, the install command, and the user who is signed in (the exceptions are the
\* doubt of each page).  What is typed while a save and the reads behind it are under way
\* stays in the form (mergeConfirmedSettingsDraft).
QuietPagesAreTrue ==
    /\ TypesAreKept
    /\ part \in {"websites", "switches"} => Websites!QuietIsTrue
    /\ part \in {"nodes", "drags"} => NodeList!QuietIsTrue
    /\ part = "rules" => Rules!QuietIsTrue
    /\ part = "tabs" => TwoTabs!QuietIsTrue
    /\ part \in {"settings", "others"} => Settings!ConfirmedIsStored /\ Settings!TypedStays
    /\ part \in {"secrets", "typing"} => Secret!TypedStays
    /\ part = "command" => Command!CommandIsCurrent
    /\ part = "tasks" => Tasks!PageIsTrue
    /\ part = "account" => /\ Account!ReloadShowsSame
                          /\ Account!ShownHasSession /\ Account!SignedOutIsOut

\* The answer to an older request takes nothing back: the newest drag stays on the screen, a
\* removed node stays away, and an error closes only the install dialog it belongs to.
NewestStays ==
    /\ Websites!DragStays /\ NodeList!NewestDragStays /\ NodeList!RemovedStaysAway
    /\ Command!OpenStays

\* A save changes what it was asked to change and nothing else: a batch changes all of its
\* nodes or none, a rule opened and saved as it is stays, a key that another administrator
\* set stays, a secret is only replaced by what was typed, a stored value is shown as it is.
SavesKeepTheRest ==
    /\ Rules!BatchIsWhole /\ Load!UnrelatedSaveKeeps
    /\ Settings!OnlyWhatWasTyped /\ Secret!SecretsStay /\ Secret!TestedIsStored
    /\ Schema!StoredIsShown /\ Form!SavedAgainIsKept

\* What is accepted works: a rule for some nodes never becomes one for all, the window of a
\* load rule holds two samples, a probe ends before the next one is due, the page refuses
\* nothing the server accepts and the other way round, no address in a reserved network is
\* stored, and a setting shown and sent again is the same.
AcceptedWorks ==
    /\ part = "load" => Load!DirectedStaysDirected /\ Load!WindowsHoldTwo
    /\ part = "form" => /\ Form!ProbeEndsBeforeDue
                       /\ Form!PageIsNotStricter /\ Form!ReservedExactly
    /\ part = "schema" => Schema!ShownIsFixed /\ Schema!PageIsWithin
=============================================================================
