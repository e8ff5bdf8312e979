---------------------------- MODULE InstallCommand ----------------------------
(***************************************************************************)
(* The dialog that shows the install command of a node, with the token the *)
(* agent reports with.  A row of the list has no token: the dialog asks    *)
(* for it when it opens.  An answered addition or rotation opens the       *)
(* dialog with the token it was answered with, also when the dialog is     *)
(* open for another node by then.  The command itself is not told apart    *)
(* from the token and the node it is built from.                           *)
(***************************************************************************)
EXTENDS Integers, FiniteSets

CONSTANTS
    Nodes,        \* the nodes that exist at the start
    NewNode,      \* a node added on the page
    MaxRotations, \* bound: rotations and removals
    MaxOpens      \* bound: times the dialog is opened by its button

InstallAssumption == {MaxRotations, MaxOpens} \subseteq Nat /\ NewNode \notin Nodes

VARIABLES
    token,   \* token[n]: the token of node n, 0 for a node that does not exist
    issued,  \* the last token that was generated
    dialog,  \* the command dialog: cmdOpen, cmdClient and agentToken
    fetches, \* requests for a token whose answer has not been handled
    change,  \* the addition or rotation under way, or Idle
    opens,
    rotations,
    doubt    \* nodes whose token changed without an answer to this page

vars == <<token, issued, dialog, fetches, change, opens, rotations, doubt>>

All == Nodes \cup {NewNode}
Idle == [k |-> "idle"]
Closed == [open |-> FALSE, node |-> NewNode, shown |-> 0, loading |-> FALSE]

(***************************************************************************)
(* The dialog.  Opening, closing and another client make the requests sent *)
(* before void.                                                            *)
(***************************************************************************)

Cancelled == {[f EXCEPT !.live = FALSE] : f \in fetches}

\* the effects of GenerateCommandDialog: a token that is given is not asked for
Show(n, given) ==
    /\ dialog' = [open |-> TRUE, node |-> n, shown |-> given, loading |-> given = 0]
    /\ fetches' = IF given # 0 THEN Cancelled
                  ELSE Cancelled \cup {[node |-> n, st |-> "sent", tok |-> 0, live |-> TRUE]}

\* the cards of the list, nodes removed elsewhere included
Listed == {n \in All : n \in Nodes \/ token[n] # 0}

\* the button of a card
OnCmd(n) ==
    /\ n \in Listed /\ ~dialog.open /\ opens < MaxOpens
    /\ opens' = opens + 1
    /\ Show(n, 0)
    /\ UNCHANGED <<token, issued, change, rotations, doubt>>

Close ==
    /\ dialog.open
    /\ dialog' = [dialog EXCEPT !.open = FALSE]
    /\ fetches' = Cancelled
    /\ UNCHANGED <<token, issued, change, opens, rotations, doubt>>

\* POST /clients/:uuid/token/install; a node that does not exist has no token
ServeInstall(f) ==
    /\ f.st = "sent"
    /\ fetches' = (fetches \ {f}) \cup
         {[f EXCEPT !.st = IF token[f.node] = 0 THEN "failed" ELSE "served", !.tok = token[f.node]]}
    /\ UNCHANGED <<token, issued, dialog, change, opens, rotations, doubt>>

InstallFails(f) ==
    /\ f.st = "sent"
    /\ fetches' = (fetches \ {f}) \cup {[f EXCEPT !.st = "failed"]}
    /\ UNCHANGED <<token, issued, dialog, change, opens, rotations, doubt>>

InstallArrives(f) ==
    /\ f.st = "served"
    /\ fetches' = fetches \ {f}
    /\ dialog' = IF f.live THEN [dialog EXCEPT !.shown = f.tok, !.loading = FALSE] ELSE dialog
    /\ UNCHANGED <<token, issued, change, opens, rotations, doubt>>

\* an error closes the dialog it belongs to
InstallError(f) ==
    /\ f.st = "failed"
    /\ fetches' = IF f.live THEN {[g EXCEPT !.live = FALSE] : g \in fetches \ {f}} ELSE fetches \ {f}
    /\ dialog' = IF f.live THEN [dialog EXCEPT !.open = FALSE, !.loading = FALSE] ELSE dialog
    /\ UNCHANGED <<token, issued, change, opens, rotations, doubt>>

(***************************************************************************)
(* Adding a node and rotating a token: the button of each dialog is        *)
(* disabled while its request is under way, the dialog may be left.        *)
(***************************************************************************)
HandleAdd ==
    /\ change = Idle /\ ~dialog.open /\ token[NewNode] = 0 /\ NewNode \notin doubt
    /\ change' = [k |-> "add", node |-> NewNode, st |-> "sent", tok |-> 0]
    /\ UNCHANGED <<token, issued, dialog, fetches, opens, rotations, doubt>>

HandleRotate(n) ==
    /\ n \in Listed /\ change = Idle /\ ~dialog.open /\ rotations < MaxRotations
    /\ rotations' = rotations + 1
    /\ change' = [k |-> "rotate", node |-> n, st |-> "sent", tok |-> 0]
    /\ UNCHANGED <<token, issued, dialog, fetches, opens, doubt>>

\* the handler stores a new token and answers with it
ChangeServed ==
    /\ change.k # "idle" /\ change.st = "sent"
    /\ change.k = "rotate" => token[change.node] # 0
    /\ issued' = issued + 1
    /\ token' = [token EXCEPT ![change.node] = issued + 1]
    /\ change' = [change EXCEPT !.st = "done", !.tok = issued + 1]
    /\ UNCHANGED <<dialog, fetches, opens, rotations, doubt>>

\* stored, but the synchronization fails or the answer is lost
ChangeUnheard ==
    /\ change.k # "idle" /\ change.st = "sent"
    /\ change.k = "rotate" => token[change.node] # 0
    /\ issued' = issued + 1
    /\ token' = [token EXCEPT ![change.node] = issued + 1]
    /\ change' = Idle
    /\ doubt' = doubt \cup {change.node}
    /\ UNCHANGED <<dialog, fetches, opens, rotations>>

ChangeRefused ==
    /\ change.k # "idle" /\ change.st = "sent"
    /\ change' = Idle
    /\ UNCHANGED <<token, issued, dialog, fetches, opens, rotations, doubt>>

\* onSaved, onRotated: the dialog is opened with the token of the answer
ChangeAnswered ==
    /\ change.k # "idle" /\ change.st = "done"
    /\ change' = Idle
    /\ Show(change.node, change.tok)
    /\ UNCHANGED <<token, issued, opens, rotations, doubt>>

\* a token is rotated, or its node removed, in another browser
Elsewhere(n) ==
    /\ rotations < MaxRotations
    /\ rotations' = rotations + 1
    /\ issued' = issued + 1
    /\ token' \in {[token EXCEPT ![n] = issued + 1], [token EXCEPT ![n] = 0]}
    /\ token[n] # 0
    /\ doubt' = doubt \cup {n}
    /\ UNCHANGED <<dialog, fetches, change, opens>>

Init ==
    /\ token = [n \in All |-> IF n = NewNode THEN 0 ELSE 1]
    /\ issued = 1
    /\ dialog = Closed
    /\ fetches = {}
    /\ change = Idle
    /\ opens = 0
    /\ rotations = 0
    /\ doubt = {}

Next ==
    \/ \E n \in All : OnCmd(n) \/ HandleRotate(n) \/ Elsewhere(n)
    \/ Close \/ HandleAdd \/ ChangeServed \/ ChangeUnheard \/ ChangeRefused \/ ChangeAnswered
    \/ \E f \in fetches : ServeInstall(f) \/ InstallFails(f) \/ InstallArrives(f) \/ InstallError(f)

Spec == Init /\ [][Next]_vars

(***************************************************************************)
(* Properties.                                                             *)
(***************************************************************************)
TypeOK ==
    /\ token \in [All -> 0 .. issued]
    /\ dialog \in [open : BOOLEAN, node : All, shown : 0 .. issued, loading : BOOLEAN]
    /\ \A f \in fetches : f.node \in All /\ f.tok \in 0 .. issued
    /\ Cardinality({f \in fetches : f.live}) <= 1

\* The dialog never shows a token that is not, or no longer, the one of the node
\* it names, once every rotation made on this page has been answered: an answer
\* that was asked for before a rotation, or for another node, is not shown.
CommandIsCurrent ==
    (dialog.open /\ dialog.shown # 0 /\ dialog.node \notin doubt
        /\ ~(change.k # "idle" /\ change.node = dialog.node))
      => dialog.shown = token[dialog.node]

\* An error closes only the dialog whose token was asked for: one that was
\* opened since, with a token of its own, stays open.
OpenStays ==
    [][(dialog.open /\ dialog.shown # 0 /\ opens' = opens /\ fetches' # fetches
          /\ \E f \in fetches : f.st = "failed" /\ f \notin fetches')
         => dialog'.open]_vars

=============================================================================
