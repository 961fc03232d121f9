------------------------------- MODULE Screens -------------------------------
(***************************************************************************)
(* One screen of a dashboard in its operator's browser: the list it loaded *)
(* from the API, the row buttons, the creation form and the edit modal     *)
(* that change a row on the server and then patch the list with the        *)
(* answer, and the "Actualiser" button that loads it again; other people   *)
(* change the same rows meanwhile.                                         *)
(*                                                                         *)
(* The pages share a few patterns.  A Screen records which one each part   *)
(* of a page follows: TenantDashboard and AdminDashboards give             *)
(* the record of every page.  A row is what one call changes: a record, or *)
(* one field of it where each field has a control of its own.  A row of    *)
(* the server is its version: 0 before it exists, Gone once deleted.       *)
(***************************************************************************)
EXTENDS Naturals

CONSTANTS
  Rows,
  Loads, Calls,   \* requests in flight (bound a run)
  MaxVer,         \* last version of a row (bounds a run)
  Kinds           \* the screens

Gone == MaxVer + 1
Versions == 0..Gone
None == "none"

(***************************************************************************)
(* load: what a page does with the answers of its loads.                   *)
(*   guarded      a new load cancels the one before it                     *)
(*   latest       every answer is shown; the button waits for it           *)
(*   overlapping  every answer is shown; saving a row also starts a load   *)
(*   once         loaded when the page is mounted, never again             *)
(* busy: which row buttons a call disables: itself, those of its row, all  *)
(* of the table, or those of the row pressed last, kept in one variable.   *)
(* filters: a choice of the page loads the list again.  fails: what a load *)
(* that fails leaves on the screen.                                        *)
(* does: what the buttons ask for.  then: what the answer of a patch does; *)
(* answer: what is listed: the row answered; the row of the list, changed, *)
(* for the answer carries nothing; or the row as it was when the button    *)
(* was pressed, changed ("copy").                                          *)
(* create: the page has a form whose row is put in the list; photo: a      *)
(* second call follows.  editor: a form in a modal, or part of the page;   *)
(* saves: what its save lists, as for answer, "copy" if part of it is the  *)
(* modal's own; closes: the answer of a save closes the modal; follows: it *)
(* makes the modal the one of the row listed.  second: what else the modal *)
(* sends: a photo, which the list is not told of, or a password, which     *)
(* lists the modal's own copy of the row.                                  *)
(***************************************************************************)
Screen == [load: {"guarded", "latest", "overlapping", "once"},
           busy: {"each", "own", "last", "all"},
           does: SUBSET {"patch", "remove"},
           filters: BOOLEAN, fails: {"keep", "empty"},
           then: {"patch", "override", "reload", "both"},
           answer: {"row", "nothing", "copy"},
           create: BOOLEAN, photo: BOOLEAN,
           editor: {None, "modal", "page"}, saves: {"row", "copy"},
           second: {None, "upload", "password"}, closes: BOOLEAN, follows: BOOLEAN]

ASSUME ScreensAssumption ==
  /\ MaxVer \in Nat \ {0} /\ None \notin Rows
  /\ Kinds \subseteq Screen
  /\ \A s \in Kinds : s.second = "upload" => ~s.follows   \* such a modal keeps its row

VARIABLES
  screen,   \* the page
  server,   \* the rows in the database
  list,     \* the page's list: times a row is in it, version last received
  over,     \* the table's own copy of a row it updated, 0 without one
  load,     \* the loads in flight
  loading,  \* "Actualiser" is disabled
  call,     \* the calls in flight that change a row
  pending,  \* the row whose button the table disables
  editor,   \* the modal: the row it saves, the row its fields came from, the version
            \* of its copy, and which of its calls are in flight
  missed,   \* history: rows changed since the list's load, by others or by a
            \* call whose answer did not reach the list
  crossed   \* history: rows that had a call in flight together with a load or
            \* with another call, or whose copy in a modal was older than the list
            \* when it was saved, and the rows of loads that overlapped

vars == <<screen, server, list, over, load, loading, call, pending, editor, missed, crossed>>

Idle == [stage |-> "idle", snap |-> [r \in Rows |-> 0], missed |-> {}, crossed |-> {}]
Load == [stage: {"idle", "sent", "served"}, snap: [Rows -> Versions],
         missed: SUBSET Rows, crossed: SUBSET Rows]

\* base: the version of the copy that the answer lists, when the call left.
FormKinds == {"edit", "upload", "password"}
NoCall == [kind |-> None, row |-> None, of |-> None, stage |-> "idle", base |-> 0, ver |-> 0,
           form |-> FALSE]
Call == [kind: {None, "patch", "remove", "create", "photo"} \cup FormKinds, row: Rows \cup {None},
         of: Rows \cup {None}, stage: {"idle", "sent", "served"}, base: Versions, ver: Versions,
         form: BOOLEAN]

Closed == [row |-> None, seed |-> None, ver |-> 0, saving |-> {}]
Editor == [row: Rows \cup {None}, seed: Rows \cup {None}, ver: Versions, saving: SUBSET FormKinds]

TypeOK ==
  /\ screen \in Kinds
  /\ server \in [Rows -> Versions]
  /\ list \in [Rows -> [n: 0..2, ver: Versions]]
  /\ over \in [Rows -> Versions]
  /\ load \in [Loads -> Load]
  /\ loading \in BOOLEAN
  /\ call \in [Calls -> Call]
  /\ pending \in Rows \cup {None}
  /\ editor \in Editor
  /\ missed \subseteq Rows
  /\ crossed \subseteq Rows

LiveLoads == {l \in Loads : load[l].stage # "idle"}
LiveCalls == {c \in Calls : call[c].stage # "idle"}
CallsOn(r) == {c \in LiveCalls : call[c].row = r}
Exists(r) == server[r] \in 1..MaxVer

Init ==
  /\ screen \in Kinds
  /\ server = [r \in Rows |-> 0]
  /\ list = [r \in Rows |-> [n |-> 0, ver |-> 0]]
  /\ over = [r \in Rows |-> 0]
  /\ \E l \in Loads : load = [k \in Loads |-> IF k = l THEN [Idle EXCEPT !.stage = "sent"] ELSE Idle]
  /\ loading = TRUE
  /\ call = [c \in Calls |-> NoCall]
  /\ pending = None
  /\ editor = Closed
  /\ missed = {} /\ crossed = {}

-----------------------------------------------------------------------------
(* Loads *)

\* Wrong form of Superseded: the effect has no cleanup.
WrongSuperseded == {}

\* The loads that a new one cancels: the cleanup of the effect.
Superseded == IF screen.load = "guarded" THEN LiveLoads ELSE {}

\* The rows of the loads in flight when another begins: all, unless it cancels them.
Overlap == IF screen.load = "guarded" \/ LiveLoads = {} THEN {} ELSE Rows

\* A load begins, while the calls cs are in flight.
Begin(l, cs) ==
  /\ load[l] = Idle
  /\ load' = [k \in Loads |->
       CASE k = l -> [Idle EXCEPT !.stage = "sent", !.crossed = {call[c].row : c \in cs} \cup Overlap]
         [] k \in Superseded -> Idle
         [] k \in LiveLoads \ Superseded -> [load[k] EXCEPT !.crossed = @ \cup Overlap]
         [] OTHER -> load[k]]

\* The button "Actualiser".
Refresh(l) ==
  /\ screen.load # "once"
  /\ ~loading
  /\ Begin(l, LiveCalls)
  /\ loading' = TRUE
  /\ UNCHANGED <<screen, server, list, over, call, pending, editor, missed, crossed>>

\* A category is chosen: the effect runs again, but the button is not disabled.
Choose(l) ==
  /\ screen.filters
  /\ Begin(l, LiveCalls)
  /\ UNCHANGED <<screen, server, list, over, loading, call, pending, editor, missed, crossed>>

ServeLoad(l) ==
  /\ load[l].stage = "sent"
  /\ load' = [load EXCEPT ![l] = [load[l] EXCEPT !.stage = "served", !.snap = server]]
  /\ UNCHANGED <<screen, server, list, over, loading, call, pending, editor, missed, crossed>>

\* The list is replaced by what was read.
AnswerLoad(l) ==
  /\ load[l].stage = "served"
  /\ list' = [r \in Rows |-> [n |-> IF load[l].snap[r] \in 1..MaxVer THEN 1 ELSE 0,
                              ver |-> load[l].snap[r]]]
  /\ missed' = load[l].missed
  /\ crossed' = load[l].crossed
  /\ load' = [load EXCEPT ![l] = Idle]
  /\ loading' = FALSE
  /\ UNCHANGED <<screen, server, over, call, pending, editor>>

\* Refused, or lost: a message is shown over the list as it was, or what could
\* not be read is taken for absent.
FailLoad(l) ==
  /\ load[l].stage # "idle"
  /\ load' = [load EXCEPT ![l] = Idle]
  /\ loading' = FALSE
  /\ IF screen.fails = "keep" THEN UNCHANGED <<list, missed>>
     ELSE list' = [r \in Rows |-> [list[r] EXCEPT !.n = 0]] /\ missed' = Rows
  /\ UNCHANGED <<screen, server, over, call, pending, editor, crossed>>

\* Somebody else creates a row, changes it, or at its last version deletes it.
Others(r) ==
  /\ server[r] < Gone
  /\ \A c \in CallsOn(r) : call[c].kind # "create"
  /\ server' = [server EXCEPT ![r] = @ + 1]
  /\ missed' = missed \cup {r}
  /\ load' = [l \in Loads |->
       IF load[l].stage = "served" THEN [load[l] EXCEPT !.missed = @ \cup {r}] ELSE load[l]]
  /\ UNCHANGED <<screen, list, over, loading, call, pending, editor, crossed>>

-----------------------------------------------------------------------------
(* Calls *)

\* What the answer of a patch or of a save lists.
Lists(kind) == CASE kind = "edit" -> screen.saves
                 [] kind = "password" -> "copy"
                 [] OTHER -> screen.answer

\* A call on row r leaves, with the fields of row s and a copy of r at version base.
Send(c, kind, r, s, base) ==
  /\ call[c] = NoCall
  /\ call' = [call EXCEPT ![c] = [kind |-> kind, row |-> r, of |-> s, stage |-> "sent",
                                  base |-> IF Lists(kind) = "copy" THEN base ELSE 0,
                                  ver |-> 0, form |-> TRUE]]
  /\ crossed' = IF LiveLoads = {} /\ CallsOn(r) = {} /\ (Lists(kind) = "copy" => base >= list[r].ver)
                THEN crossed ELSE crossed \cup {r}
  /\ load' = [l \in Loads |->
       IF l \in LiveLoads THEN [load[l] EXCEPT !.crossed = @ \cup {r}] ELSE load[l]]

\* Is the button of row r that asks for this enabled?
Enabled(r, kind) ==
  CASE screen.busy = "each" -> \A c \in CallsOn(r) : call[c].kind # kind
    [] screen.busy = "own" -> \A c \in CallsOn(r) : call[c].kind \notin {"patch", "remove"}
    [] screen.busy = "last" -> pending # r
    [] screen.busy = "all" -> pending = None

\* A button of a row: a toggle, a status, a deletion.
Press(c, r, kind) ==
  /\ kind \in screen.does
  /\ list[r].n > 0
  /\ Enabled(r, kind)
  /\ Send(c, kind, r, r, list[r].ver)
  /\ pending' = IF screen.busy \in {"last", "all"} THEN r ELSE None
  /\ UNCHANGED <<screen, server, list, over, loading, editor, missed>>

\* The creation form is one component, open or not: it sends one call at a time.
Create(c, r) ==
  /\ screen.create
  /\ server[r] = 0
  /\ \A d \in LiveCalls : call[d].kind \notin {"create", "photo"}
  /\ Send(c, "create", r, r, list[r].ver)
  /\ UNCHANGED <<screen, server, list, over, loading, pending, editor, missed>>

\* "Modifier" mounts the form with the fields of the row, "Fermer" unmounts it,
\* whether it is saving or not.
Open(r) ==
  /\ screen.editor = "modal"
  /\ editor = Closed
  /\ list[r].n > 0
  /\ editor' = [row |-> r, seed |-> r, ver |-> list[r].ver, saving |-> {}]
  /\ UNCHANGED <<screen, server, list, over, load, loading, call, pending, missed, crossed>>

Unmounted(cs) ==
  [c \in Calls |-> IF cs[c].kind \in FormKinds THEN [cs[c] EXCEPT !.form = FALSE] ELSE cs[c]]

Close ==
  /\ editor # Closed
  /\ editor' = Closed
  /\ call' = Unmounted(call)
  /\ UNCHANGED <<screen, server, list, over, load, loading, pending, missed, crossed>>

\* The submit button of the modal, its field for a photo, which a save in flight
\* disables too, or its form for a password; each waits for its own call.
Submit(c, r, kind) ==
  /\ kind \in {"edit", screen.second} \ editor.saving
  /\ kind = "upload" => editor.saving = {}
  /\ editor.row = r
  /\ Send(c, kind, r, editor.seed, editor.ver)
  /\ editor' = [editor EXCEPT !.saving = @ \cup {kind}]
  /\ UNCHANGED <<screen, server, list, over, loading, pending, missed>>

\* The submit button of the form that is part of the page.
Save(c, r) ==
  /\ screen.editor = "page" /\ list[r].n > 0
  /\ \A d \in CallsOn(r) : call[d].kind # "edit"
  /\ Send(c, "edit", r, r, list[r].ver)
  /\ UNCHANGED <<screen, server, list, over, loading, editor, pending, missed>>

\* The API carries the call out.
Serve(c) ==
  LET r == call[c].row
      creates == call[c].kind = "create"
      next == IF call[c].kind = "remove" THEN Gone ELSE server[r] + 1
  IN /\ call[c].stage = "sent"
     /\ IF creates THEN server[r] = 0 ELSE Exists(r)
     /\ call[c].kind = "remove" \/ next <= MaxVer
     /\ server' = [server EXCEPT ![r] = next]
     /\ call' = [call EXCEPT ![c] = [call[c] EXCEPT !.stage = "served", !.ver = next]]
     /\ UNCHANGED <<screen, list, over, load, loading, pending, editor, missed, crossed>>

-----------------------------------------------------------------------------
(* Answers *)

\* What the answer of call c lists: the row answered, or a copy of it with this one
\* change.  The copy is the row if nobody else changed it; otherwise parts of it are
\* as old as they were, and it counts as the older version.
Answered(c) ==
  LET k == call[c]
      copy == IF Lists(k.kind) = "copy" THEN k.base ELSE list[k.row].ver
  IN IF Lists(k.kind) = "row" \/ copy + 1 = k.ver THEN k.ver ELSE copy

\* Wrong form of Patched: the answer is compared with another row.
WrongPatched(r, v) == list

\* list.map: the row is replaced where it is listed.
Patched(r, v) == IF list[r].n > 0 THEN [list EXCEPT ![r].ver = v] ELSE list

\* list.filter, and the row put before or after the others.
Removed(r) == [list EXCEPT ![r] = [n |-> 0, ver |-> Gone]]
Listed(r, v) == [list EXCEPT ![r] = [n |-> IF @.n = 0 THEN 1 ELSE 2, ver |-> v]]

\* The answer of a row's button; finally, the button is enabled again.
AnswerPress(c, l) ==
  LET r == call[c].row IN
  /\ call[c].stage = "served"
  /\ call[c].kind \in {"patch", "remove"}
  /\ call' = [call EXCEPT ![c] = NoCall]
  /\ pending' = None
  /\ IF screen.then \in {"reload", "both"} /\ screen.load # "once"
     THEN Begin(l, LiveCalls \ {c}) /\ loading' = TRUE
     ELSE UNCHANGED <<load, loading>>
  /\ CASE call[c].kind = "remove" /\ screen.then # "reload" ->
            list' = Removed(r) /\ UNCHANGED <<over, missed>>
       [] call[c].kind = "patch" /\ screen.then \in {"patch", "both"} ->
            list' = Patched(r, Answered(c)) /\ UNCHANGED <<over, missed>>
       [] call[c].kind = "patch" /\ screen.then = "override" ->
            over' = [over EXCEPT ![r] = call[c].ver] /\ UNCHANGED <<list, missed>>
       [] OTHER -> missed' = missed \cup {r} /\ UNCHANGED <<list, over>>
  /\ UNCHANGED <<screen, server, editor, crossed>>

\* The row is created: its photo is sent, or it is listed.
AnswerCreate(c) ==
  /\ call[c].stage = "served"
  /\ \/ /\ call[c].kind = "create" /\ screen.photo
        /\ call' = [call EXCEPT ![c] = [call[c] EXCEPT !.kind = "photo", !.stage = "sent"]]
        /\ UNCHANGED list
     \/ /\ call[c].kind \in {"create", "photo"}
        /\ call' = [call EXCEPT ![c] = NoCall]
        /\ list' = Listed(call[c].row, call[c].ver)
  /\ UNCHANGED <<screen, server, over, load, loading, pending, editor, missed, crossed>>

\* Wrong form of Followed: the answer carries nothing.
WrongFollowed(r, v) == [editor EXCEPT !.row = "undefined"]

\* setEditing(updated): a modal that is open keeps its fields, one that was
\* closed is mounted again.
Followed(r, v) == IF editor = Closed THEN [row |-> r, seed |-> r, ver |-> v, saving |-> {}]
                  ELSE [editor EXCEPT !.row = r, !.ver = v]

\* The modal e once the call c is answered, its buttons aside.
Shown(c) == IF screen.follows THEN Followed(call[c].row, Answered(c)) ELSE editor

\* Wrong form of After: every list edits the row answered, as the customers' does.
WrongAfter(c) ==
  [Followed(call[c].row, Answered(c)) EXCEPT !.saving = IF call[c].form THEN @ \ {call[c].kind} ELSE @]

\* setLoading(false) reaches the form that sent the call, if it is still there.
After(c) ==
  IF screen.closes THEN Closed
  ELSE [Shown(c) EXCEPT !.saving = IF call[c].form THEN @ \ {call[c].kind} ELSE @]

\* The answer of a save, or of a password, is listed.
AnswerSave(c) ==
  /\ call[c].stage = "served"
  /\ call[c].kind \in {"edit", "password"}
  /\ list' = Patched(call[c].row, Answered(c))
  /\ editor' = After(c)
  /\ LET rest == [call EXCEPT ![c] = NoCall]
     IN call' = IF screen.closes THEN Unmounted(rest) ELSE rest
  /\ UNCHANGED <<screen, server, over, load, loading, pending, missed, crossed>>

\* The answer of a photo is added to the modal's copy, and not to the list's.
AnswerUpload(c) ==
  LET k == call[c] IN
  /\ k.stage = "served"
  /\ k.kind = "upload"
  /\ call' = [call EXCEPT ![c] = NoCall]
  /\ missed' = missed \cup {k.row}
  /\ editor' = IF k.form THEN [editor EXCEPT !.saving = @ \ {"upload"},
                                             !.ver = IF @ + 1 = k.ver THEN k.ver ELSE @]
               ELSE editor
  /\ UNCHANGED <<screen, server, list, over, load, loading, pending, crossed>>

\* The call is refused, or it or its answer is lost; a product whose photo was
\* refused is listed as it was created.
FailCall(c) ==
  LET k == call[c] IN
  /\ k.stage # "idle"
  /\ call' = [call EXCEPT ![c] = NoCall]
  /\ list' = IF k.kind = "photo" THEN Listed(k.row, 1) ELSE list
  /\ pending' = IF k.kind \in {"patch", "remove"} THEN None ELSE pending
  /\ editor' = IF k.kind \in FormKinds /\ k.form THEN [editor EXCEPT !.saving = @ \ {k.kind}] ELSE editor
  /\ missed' = IF k.stage = "served" THEN missed \cup {k.row} ELSE missed
  /\ UNCHANGED <<screen, server, over, load, loading, crossed>>

-----------------------------------------------------------------------------
Next ==
  \/ \E l \in Loads : Refresh(l) \/ Choose(l) \/ ServeLoad(l) \/ AnswerLoad(l) \/ FailLoad(l)
  \/ \E r \in Rows : Others(r) \/ Open(r)
  \/ Close
  \/ \E c \in Calls, r \in Rows : Create(c, r) \/ Save(c, r)
  \/ \E c \in Calls, r \in Rows, kind \in {"patch", "remove"} : Press(c, r, kind)
  \/ \E c \in Calls, r \in Rows, kind \in FormKinds : Submit(c, r, kind)
  \/ \E c \in Calls : Serve(c) \/ AnswerCreate(c) \/ AnswerSave(c) \/ AnswerUpload(c) \/ FailCall(c)
  \/ \E c \in Calls, l \in Loads : AnswerPress(c, l)

Spec == Init /\ [][Next]_vars

-----------------------------------------------------------------------------
(* Properties *)

\* The version of a row that the operator sees.
Seen(r) == IF over[r] > 0 THEN over[r] ELSE list[r].ver

\* A row is listed as it is in the database: once, at its version, or not at all.
Current(r) == IF Exists(r) THEN list[r].n = 1 /\ Seen(r) = server[r] ELSE list[r].n = 0

\* Nothing explains a row that is not current: no call on it is in flight; since the
\* load on the screen nobody else changed it, and every call that the operator made
\* on it was answered and told the list; none of those calls overlapped a load or
\* another call, or was made from a modal opened on an older list.
Settled(r) == r \notin missed \cup crossed /\ CallsOn(r) = {}

\* The operator's own changes need no reload: after any sequence of creations,
\* patches, deletions, saves and reloads, failed ones included, a settled row is
\* listed exactly once and as the database has it.  The exceptions are those of
\* Settled, among them a photo that EditProductForm added (it is on the server at
\* once, and the list is not told) and a modal that stayed open over a load; and a
\* status changed in the orders' table, which keeps its own copy of the row.
ShownIsCurrent == \A r \in Rows : Settled(r) /\ over[r] = 0 => Current(r)

\* "Réinitialisé implicitement à chaque fois que la liste de commandes reçue change
\* de contenu" (OrdersTable.tsx): what the table shows follows the list it receives,
\* its copies included.
CopiesFollowTheList == \A r \in Rows : Settled(r) => Current(r)

\* What the operator sees of a row goes back to an older version, or a deleted row
\* comes back, only when a call on it overlapped a load or another call, or when a
\* modal opened on an older list puts its copy back: EditProductForm its photos, with
\* the save, EditCustomerForm the customer, with the password.  An answer that a
\* newer load has overtaken is never shown; what a photo added, or other people
\* changed, never makes it go back.
NeverBackwards == [][\A r \in Rows : Seen(r)' >= Seen(r) \/ r \in crossed']_vars

\* Every call of a form changes the row its fields were read from, whatever was
\* closed, opened or answered in between; but for the customers' modal, which is not
\* mounted again when an answer changes its customer.
SavesItsOwnRow ==
  ~screen.follows => \A c \in LiveCalls : call[c].row = call[c].of
=============================================================================
