---------------------------- MODULE Screens_proofs ----------------------------
(***************************************************************************)
(* Theorems of Screens, for any screens, rows, requests and versions.      *)
(***************************************************************************)
EXTENDS Screens, TLAPS

-----------------------------------------------------------------------------
(* Types *)

\* A call that is in flight knows its row, and so does a form that is open.
CallsKnowTheirRow ==
  \A c \in Calls : call[c].stage # "idle" => call[c].row \in Rows /\ call[c].of \in Rows
FormsKnowTheirRow ==
  editor # Closed => editor.row \in Rows /\ editor.seed \in Rows

\* The form of a photo that is on its way shows the row the photo is added to.
UploadsKnowTheirForm ==
  \A c \in Calls : call[c].stage # "idle" /\ call[c].kind = "upload" /\ call[c].form =>
    screen.second = "upload" /\ editor.row = call[c].row

WellFormed == TypeOK /\ CallsKnowTheirRow /\ FormsKnowTheirRow
Typed == WellFormed /\ UploadsKnowTheirForm

LEMMA Bounds == /\ MaxVer \in Nat /\ MaxVer > 0 /\ Gone \in Versions /\ 0 \in Versions /\ 1 \in Versions
                /\ Gone = MaxVer + 1 /\ \A v \in Versions : v < Gone => v + 1 \in Versions
                /\ None \notin Rows
  BY ScreensAssumption DEF Versions, Gone

LEMMA Constants == /\ Idle \in Load /\ [Idle EXCEPT !.stage = "sent"] \in Load
                   /\ NoCall \in Call
                   /\ Closed \in Editor
<1>1. 0 \in Versions
  BY Bounds
<1>2. Idle \in Load
  BY <1>1 DEF Idle, Load
<1>3. [Idle EXCEPT !.stage = "sent"] \in Load
  BY <1>2 DEF Load
<1>4. NoCall \in Call
  BY <1>1 DEF NoCall, Call
<1>5. Closed \in Editor
  BY <1>1 DEF Closed, Editor
<1> QED
  BY <1>2, <1>3, <1>4, <1>5

\* The loads, once another has begun.
LEMMA BeginTypes ==
  ASSUME TypeOK, NEW l \in Loads, NEW cs \in SUBSET Calls, Begin(l, cs),
         \A c \in cs : call[c].row \in Rows
  PROVE  load' \in [Loads -> Load]
<1>1. Overlap \subseteq Rows /\ {call[c].row : c \in cs} \subseteq Rows
  BY DEF Overlap
<1>2. [Idle EXCEPT !.stage = "sent", !.crossed = {call[c].row : c \in cs} \cup Overlap] \in Load
  BY <1>1, Constants DEF Load
<1>3. \A k \in Loads : [load[k] EXCEPT !.crossed = @ \cup Overlap] \in Load
  BY <1>1 DEF TypeOK, Load
<1>4. \A k \in Loads : load[k] \in Load
  BY DEF TypeOK
<1> QED
  BY <1>2, <1>3, <1>4, Constants DEF Begin

\* A call as it leaves.
SentKinds == {"patch", "remove", "create"} \cup FormKinds
Sent(kind, r, s, base) ==
  [kind |-> kind, row |-> r, of |-> s, stage |-> "sent",
   base |-> IF Lists(kind) = "copy" THEN base ELSE 0, ver |-> 0, form |-> TRUE]

\* The calls and the loads, once a call has left.
LEMMA SendTypes ==
  ASSUME TypeOK, NEW c \in Calls, NEW r \in Rows, NEW s \in Rows, NEW base \in Versions,
         NEW kind \in SentKinds, Send(c, kind, r, s, base)
  PROVE  /\ call' \in [Calls -> Call] /\ load' \in [Loads -> Load] /\ crossed' \subseteq Rows
         /\ LiveCalls' = LiveCalls \cup {c}
         /\ call'[c] = Sent(kind, r, s, base)
         /\ \A d \in Calls \ {c} : call'[d] = call[d]
<1>1. Sent(kind, r, s, base) \in Call /\ Sent(kind, r, s, base).stage = "sent"
  <2>1. (IF Lists(kind) = "copy" THEN base ELSE 0) \in Versions /\ 0 \in Versions
    BY Bounds
  <2>2. kind \in {None, "patch", "remove", "create", "photo"} \cup FormKinds
    BY DEF SentKinds
  <2> QED
    BY <2>1, <2>2 DEF Call, Sent
<1>2. /\ call' \in [Calls -> Call]
      /\ call'[c] = Sent(kind, r, s, base)
      /\ \A d \in Calls \ {c} : call'[d] = call[d]
  <2>1. call' = [call EXCEPT ![c] = Sent(kind, r, s, base)]
    BY DEF Send, Sent
  <2>2. call \in [Calls -> Call]
    BY DEF TypeOK
  <2> QED
    BY <1>1, <2>1, <2>2
<1>3. LiveCalls' = LiveCalls \cup {c}
  BY <1>1, <1>2 DEF LiveCalls
<1>4. \A l \in Loads : load[l] \in Load /\ [load[l] EXCEPT !.crossed = @ \cup {r}] \in Load
  BY DEF TypeOK, Load
<1>5. load' \in [Loads -> Load]
  BY <1>4 DEF Send
<1>6. crossed' \subseteq Rows
  BY DEF Send, TypeOK
<1> QED
  BY <1>2, <1>3, <1>5, <1>6

\* A call that leaves knows its row.
LEMMA SendKnows ==
  ASSUME Typed, NEW c \in Calls, NEW r \in Rows, NEW s \in Rows, NEW base \in Versions,
         NEW kind \in SentKinds, Send(c, kind, r, s, base)
  PROVE  CallsKnowTheirRow'
<1>1. /\ call'[c] = Sent(kind, r, s, base)
      /\ \A d \in Calls \ {c} : call'[d] = call[d]
  BY SendTypes DEF Typed, WellFormed
<1>2. call'[c].row \in Rows /\ call'[c].of \in Rows
  BY <1>1 DEF Sent
<1> QED
  BY <1>1, <1>2 DEF Typed, WellFormed, CallsKnowTheirRow

\* The list, once a row was patched, removed or listed.
LEMMA ListTypes ==
  ASSUME TypeOK, NEW r \in Rows, NEW v \in Versions
  PROVE  /\ Patched(r, v) \in [Rows -> [n: 0..2, ver: Versions]]
         /\ Removed(r) \in [Rows -> [n: 0..2, ver: Versions]]
         /\ Listed(r, v) \in [Rows -> [n: 0..2, ver: Versions]]
<1>1. list[r] \in [n: 0..2, ver: Versions]
  BY DEF TypeOK
<1>2. [list[r] EXCEPT !.ver = v] \in [n: 0..2, ver: Versions]
  BY <1>1
<1>3. Patched(r, v) \in [Rows -> [n: 0..2, ver: Versions]]
  BY <1>2 DEF Patched, TypeOK
<1>4. [n |-> 0, ver |-> Gone] \in [n: 0..2, ver: Versions]
  BY Bounds
<1>5. Removed(r) \in [Rows -> [n: 0..2, ver: Versions]]
  BY <1>4 DEF Removed, TypeOK
<1>6. [n |-> IF list[r].n = 0 THEN 1 ELSE 2, ver |-> v] \in [n: 0..2, ver: Versions]
  OBVIOUS
<1>7. Listed(r, v) \in [Rows -> [n: 0..2, ver: Versions]]
  BY <1>6 DEF Listed, TypeOK
<1> QED
  BY <1>3, <1>5, <1>7

\* The calls of a form that is unmounted lose it, and nothing else.
LEMMA UnmountedTypes ==
  ASSUME NEW cs \in [Calls -> Call]
  PROVE  /\ Unmounted(cs) \in [Calls -> Call]
         /\ \A c \in Calls : /\ Unmounted(cs)[c].row = cs[c].row /\ Unmounted(cs)[c].of = cs[c].of
                             /\ Unmounted(cs)[c].stage = cs[c].stage /\ Unmounted(cs)[c].kind = cs[c].kind
                             /\ Unmounted(cs)[c].ver = cs[c].ver /\ Unmounted(cs)[c].base = cs[c].base
                             /\ Unmounted(cs)[c].kind \in FormKinds => ~Unmounted(cs)[c].form
<1>1. \A c \in Calls : cs[c] \in Call /\ [cs[c] EXCEPT !.form = FALSE] \in Call
  BY DEF Call
<1>2. ASSUME NEW c \in Calls
      PROVE  /\ Unmounted(cs)[c].row = cs[c].row /\ Unmounted(cs)[c].of = cs[c].of
             /\ Unmounted(cs)[c].stage = cs[c].stage /\ Unmounted(cs)[c].kind = cs[c].kind
             /\ Unmounted(cs)[c].ver = cs[c].ver /\ Unmounted(cs)[c].base = cs[c].base
             /\ Unmounted(cs)[c].kind \in FormKinds => ~Unmounted(cs)[c].form
  BY <1>1 DEF Unmounted, Call
<1>3. Unmounted(cs) \in [Calls -> Call]
  BY <1>1 DEF Unmounted
<1> QED
  BY <1>2, <1>3

\* A form whose button is enabled again is the same form.
Freed(e, k) == [e EXCEPT !.saving = e.saving \ {k}]

LEMMA FreedTypes ==
  ASSUME NEW e \in Editor, NEW k
  PROVE  /\ Freed(e, k) \in Editor /\ Freed(e, k).row = e.row /\ Freed(e, k).seed = e.seed
         /\ Freed(e, k).ver = e.ver /\ Freed(e, k).saving = e.saving \ {k}
         /\ e = Closed => Freed(e, k) = Closed
<1> DEFINE f == Freed(e, k)
<1>1. e.saving \ {k} \in SUBSET FormKinds
  BY DEF Editor
<1>2. /\ f \in Editor /\ f.row = e.row /\ f.seed = e.seed /\ f.ver = e.ver
      /\ f.saving = e.saving \ {k}
  BY <1>1 DEF Editor, Freed
<1>3. ASSUME e = Closed PROVE f = Closed
  <2> HIDE DEF f
  <2>1. f.row = None /\ f.seed = None /\ f.ver = 0 /\ f.saving = {}
    BY <1>2, <1>3 DEF Closed
  <2>2. f = [row |-> None, seed |-> None, ver |-> 0, saving |-> {}]
    BY <1>2, <2>1 DEF Editor
  <2> QED
    BY <2>2 DEF Closed
<1> QED
  BY <1>2, <1>3

\* What an answer lists is a version.
LEMMA AnsweredTypes ==
  ASSUME Typed, NEW c \in LiveCalls
  PROVE  Answered(c) \in Versions
<1>1. call[c] \in Call /\ call[c].row \in Rows
  BY DEF Typed, WellFormed, TypeOK, CallsKnowTheirRow, LiveCalls
<1>2. call[c].base \in Versions /\ call[c].ver \in Versions /\ list[call[c].row].ver \in Versions
  BY <1>1 DEF Typed, WellFormed, TypeOK, Call
<1> QED
  BY <1>2 DEF Answered

\* The modal after a save is closed, the one of the row listed, or the one it was.
LEMMA AfterTypes ==
  ASSUME Typed, NEW c \in LiveCalls
  PROVE  /\ After(c) \in Editor
         /\ After(c) # Closed => After(c).row \in Rows /\ After(c).seed \in Rows
         /\ ~screen.follows => After(c) = Closed \/ (After(c).row = editor.row /\ After(c).seed = editor.seed)
         /\ ~screen.follows /\ ~screen.closes => After(c).row = editor.row
<1> DEFINE saved == [Shown(c) EXCEPT !.saving = IF call[c].form THEN @ \ {call[c].kind} ELSE @]
<1>1. editor \in Editor /\ Closed \in Editor /\ call[c].row \in Rows /\ Answered(c) \in Versions
  BY Constants, AnsweredTypes DEF Typed, WellFormed, TypeOK, CallsKnowTheirRow, LiveCalls
<1>2. CASE screen.closes
  BY <1>1, <1>2 DEF After
<1>3. Followed(call[c].row, Answered(c)) \in Editor /\ Followed(call[c].row, Answered(c)).row \in Rows
      /\ Followed(call[c].row, Answered(c)).seed \in Rows
  <2>1. CASE editor = Closed
    <3>1. Followed(call[c].row, Answered(c)) =
            [row |-> call[c].row, seed |-> call[c].row, ver |-> Answered(c), saving |-> {}]
      BY <2>1 DEF Followed
    <3> QED
      BY <1>1, <3>1 DEF Editor
  <2>2. CASE editor # Closed
    <3>1. Followed(call[c].row, Answered(c)) = [editor EXCEPT !.row = call[c].row, !.ver = Answered(c)]
      BY <2>2 DEF Followed
    <3>2. editor.seed \in Rows
      BY <2>2 DEF Typed, WellFormed, FormsKnowTheirRow
    <3> QED
      BY <1>1, <3>1, <3>2 DEF Editor
  <2> QED
    BY <2>1, <2>2
<1>4. Shown(c) \in Editor /\ (~screen.follows => Shown(c) = editor)
      /\ (Shown(c) # Closed => Shown(c).row \in Rows /\ Shown(c).seed \in Rows)
  BY <1>1, <1>3 DEF Shown, Typed, WellFormed, FormsKnowTheirRow
<1>5. /\ saved \in Editor /\ saved.row = Shown(c).row /\ saved.seed = Shown(c).seed
      /\ Shown(c) = Closed => saved = Closed
  <2>1. CASE call[c].form
    <3>1. saved = Freed(Shown(c), call[c].kind)
      BY <2>1 DEF Freed
    <3> HIDE DEF saved
    <3> QED
      BY <1>4, <3>1, FreedTypes
  <2>2. CASE ~call[c].form
    <3>1. saved = [Shown(c) EXCEPT !.saving = @]
      BY <2>2
    <3>2. saved = Shown(c)
      BY <1>4, <3>1 DEF Editor
    <3> QED
      BY <1>4, <3>2
  <2> QED
    BY <2>1, <2>2
<1>6. CASE ~screen.closes
  <2>1. After(c) = saved
    BY <1>6 DEF After
  <2> HIDE DEF saved
  <2> QED
    BY <1>4, <1>5, <2>1
<1> QED
  BY <1>2, <1>6

\* Every step keeps the types of the variables and the rows of calls and forms.
LEMMA StepWellFormed ==
  ASSUME Typed, [Next]_vars
  PROVE  WellFormed'
<1>1. ASSUME NEW l \in Loads, Refresh(l)
      PROVE  WellFormed'
  <2>1. load' \in [Loads -> Load]
    BY <1>1, BeginTypes DEF Refresh, Typed, WellFormed, CallsKnowTheirRow, FormsKnowTheirRow, LiveCalls
  <2> QED
    BY <2>1, <1>1 DEF Refresh, Typed, WellFormed, TypeOK, CallsKnowTheirRow, FormsKnowTheirRow, LiveCalls
<1>2. ASSUME NEW l \in Loads, Choose(l)
      PROVE  WellFormed'
  <2>1. load' \in [Loads -> Load]
    BY <1>2, BeginTypes DEF Choose, Typed, WellFormed, CallsKnowTheirRow, FormsKnowTheirRow, LiveCalls
  <2> QED
    BY <2>1, <1>2 DEF Choose, Typed, WellFormed, TypeOK, CallsKnowTheirRow, FormsKnowTheirRow, LiveCalls
<1>3. ASSUME NEW l \in Loads, ServeLoad(l)
      PROVE  WellFormed'
  <2>1. load[l] \in Load /\ server \in [Rows -> Versions]
    BY DEF Typed, WellFormed, TypeOK
  <2>2. [load[l] EXCEPT !.stage = "served", !.snap = server] \in Load
    BY <2>1 DEF Load
  <2>3. load' \in [Loads -> Load]
    BY <2>2, <1>3 DEF ServeLoad, Typed, WellFormed, TypeOK
  <2> QED
    BY <2>3, <1>3 DEF ServeLoad, Typed, WellFormed, TypeOK, CallsKnowTheirRow, FormsKnowTheirRow, LiveCalls
<1>4. ASSUME NEW l \in Loads, AnswerLoad(l)
      PROVE  WellFormed'
  <2>1. load[l] \in Load
    BY DEF Typed, WellFormed, TypeOK
  <2>2. \A r \in Rows : load[l].snap[r] \in Versions
    BY <2>1 DEF Load
  <2>3. list' \in [Rows -> [n: 0..2, ver: Versions]]
    BY <2>2, <1>4 DEF AnswerLoad
  <2>4. missed' \subseteq Rows /\ crossed' \subseteq Rows
    BY <2>1, <1>4 DEF AnswerLoad, Load
  <2>5. load' \in [Loads -> Load] /\ loading' \in BOOLEAN
    BY Constants, <1>4 DEF AnswerLoad, Typed, WellFormed, TypeOK
  <2> QED
    BY <2>3, <2>4, <2>5, <1>4 DEF AnswerLoad, Typed, WellFormed, TypeOK, CallsKnowTheirRow, FormsKnowTheirRow, LiveCalls
<1>5. ASSUME NEW l \in Loads, FailLoad(l)
      PROVE  WellFormed'
  <2>1. load' \in [Loads -> Load] /\ loading' \in BOOLEAN
    BY Constants, <1>5 DEF FailLoad, Typed, WellFormed, TypeOK
  <2>2. \A r \in Rows : [list[r] EXCEPT !.n = 0] \in [n: 0..2, ver: Versions]
    BY DEF Typed, WellFormed, TypeOK
  <2>3. list' \in [Rows -> [n: 0..2, ver: Versions]] /\ missed' \subseteq Rows
    BY <2>2, <1>5 DEF FailLoad, Typed, WellFormed, TypeOK
  <2> QED
    BY <2>1, <2>3, <1>5 DEF FailLoad, Typed, WellFormed, TypeOK, CallsKnowTheirRow, FormsKnowTheirRow, LiveCalls
<1>6. ASSUME NEW r \in Rows, Others(r)
      PROVE  WellFormed'
  <2>1. server' \in [Rows -> Versions]
    BY <1>6, Bounds DEF Others, Typed, WellFormed, TypeOK
  <2>2. \A l \in Loads : load[l] \in Load /\ [load[l] EXCEPT !.missed = @ \cup {r}] \in Load
    BY DEF Typed, WellFormed, TypeOK, Load
  <2>3. load' \in [Loads -> Load] /\ missed' \subseteq Rows
    BY <2>2, <1>6 DEF Others, Typed, WellFormed, TypeOK
  <2> QED
    BY <2>1, <2>3, <1>6 DEF Others, Typed, WellFormed, TypeOK, CallsKnowTheirRow, FormsKnowTheirRow, LiveCalls
<1>7. ASSUME NEW r \in Rows, Open(r)
      PROVE  WellFormed'
  <2>1. editor' = [row |-> r, seed |-> r, ver |-> list[r].ver, saving |-> {}] /\ list[r].ver \in Versions
    BY <1>7 DEF Open, Typed, WellFormed, TypeOK
  <2>2. editor' \in Editor /\ editor'.row \in Rows /\ editor'.seed \in Rows
    BY <2>1 DEF Editor
  <2> QED
    BY <2>2, <1>7 DEF Open, Typed, WellFormed, TypeOK, CallsKnowTheirRow, FormsKnowTheirRow, LiveCalls
<1>8. ASSUME Close
      PROVE  WellFormed'
  <2>1. editor' = Closed /\ editor' \in Editor
    BY <1>8, Constants DEF Close
  <2>2. call' \in [Calls -> Call] /\ \A c \in Calls : /\ call'[c].row = call[c].row
                                                      /\ call'[c].of = call[c].of
                                                      /\ call'[c].stage = call[c].stage
    BY <1>8, UnmountedTypes DEF Close, Typed, WellFormed, TypeOK
  <2> QED
    BY <2>1, <2>2, <1>8 DEF Close, Typed, WellFormed, TypeOK, CallsKnowTheirRow, FormsKnowTheirRow, LiveCalls
<1>9. ASSUME NEW c \in Calls, NEW r \in Rows, Create(c, r)
      PROVE  WellFormed'
  <2>1. /\ Send(c, "create", r, r, list[r].ver) /\ list[r].ver \in Versions /\ "create" \in SentKinds
        /\ UNCHANGED <<screen, server, list, over, loading, pending, editor, missed>>
    BY <1>9 DEF Create, Typed, WellFormed, TypeOK, SentKinds
  <2>2. call' \in [Calls -> Call] /\ load' \in [Loads -> Load] /\ crossed' \subseteq Rows
    BY <2>1, SendTypes DEF Typed, WellFormed
  <2>3. CallsKnowTheirRow'
    BY <2>1, SendKnows
  <2> QED
    BY <2>1, <2>2, <2>3 DEF Typed, WellFormed, TypeOK, FormsKnowTheirRow
<1>10. ASSUME NEW c \in Calls, NEW r \in Rows, Save(c, r)
       PROVE  WellFormed'
  <2>1. /\ Send(c, "edit", r, r, list[r].ver) /\ list[r].ver \in Versions /\ "edit" \in SentKinds
        /\ UNCHANGED <<screen, server, list, over, loading, editor, pending, missed>>
    BY <1>10 DEF Save, Typed, WellFormed, TypeOK, SentKinds, FormKinds
  <2>2. call' \in [Calls -> Call] /\ load' \in [Loads -> Load] /\ crossed' \subseteq Rows
    BY <2>1, SendTypes DEF Typed, WellFormed
  <2>3. CallsKnowTheirRow'
    BY <2>1, SendKnows
  <2> QED
    BY <2>1, <2>2, <2>3 DEF Typed, WellFormed, TypeOK, FormsKnowTheirRow
<1>18. ASSUME NEW c \in Calls, NEW r \in Rows, NEW kind \in FormKinds, Submit(c, r, kind)
       PROVE  WellFormed'
  <2>1. /\ Send(c, kind, r, editor.seed, editor.ver) /\ editor.row = r
        /\ editor' = [editor EXCEPT !.saving = @ \cup {kind}] /\ kind \in SentKinds
        /\ UNCHANGED <<screen, server, list, over, loading, pending, missed>>
    BY <1>18 DEF Submit, SentKinds
  <2>2. editor \in Editor /\ editor.seed \in Rows /\ editor.ver \in Versions
    BY <2>1, Bounds DEF Closed, Typed, WellFormed, TypeOK, FormsKnowTheirRow, Editor
  <2>3. editor' \in Editor /\ editor'.row \in Rows /\ editor'.seed \in Rows
    BY <2>1, <2>2 DEF Editor
  <2>4. call' \in [Calls -> Call] /\ load' \in [Loads -> Load] /\ crossed' \subseteq Rows
    BY <2>1, <2>2, SendTypes DEF Typed, WellFormed
  <2>5. CallsKnowTheirRow'
    BY <2>1, <2>2, SendKnows
  <2> QED
    BY <2>1, <2>3, <2>4, <2>5 DEF Typed, WellFormed, TypeOK, FormsKnowTheirRow
<1>11. ASSUME NEW c \in Calls, NEW r \in Rows, NEW kind \in {"patch", "remove"}, Press(c, r, kind)
       PROVE  WellFormed'
  <2>1. /\ Send(c, kind, r, r, list[r].ver) /\ pending' \in Rows \cup {None}
        /\ list[r].ver \in Versions /\ kind \in SentKinds
        /\ UNCHANGED <<screen, server, list, over, loading, editor, missed>>
    BY <1>11 DEF Press, Typed, WellFormed, TypeOK, SentKinds
  <2>2. call' \in [Calls -> Call] /\ load' \in [Loads -> Load] /\ crossed' \subseteq Rows
    BY <2>1, SendTypes DEF Typed, WellFormed
  <2>3. CallsKnowTheirRow'
    BY <2>1, SendKnows
  <2> QED
    BY <2>1, <2>2, <2>3 DEF Typed, WellFormed, TypeOK, FormsKnowTheirRow
<1>12. ASSUME NEW c \in Calls, Serve(c)
       PROVE  WellFormed'
  <2>1. call[c] \in Call /\ c \in LiveCalls /\ call[c].row \in Rows
    BY <1>12 DEF Serve, Typed, WellFormed, TypeOK, LiveCalls, CallsKnowTheirRow
  <2>2. PICK next \in Versions :
          /\ server' = [server EXCEPT ![call[c].row] = next]
          /\ call' = [call EXCEPT ![c] = [call[c] EXCEPT !.stage = "served", !.ver = next]]
    <3>1. server[call[c].row] \in Versions
      BY <2>1 DEF Typed, WellFormed, TypeOK
    <3>2. CASE call[c].kind = "remove"
      BY <3>2, <1>12, Bounds DEF Serve
    <3>3. CASE call[c].kind # "remove"
      <4>1. server[call[c].row] + 1 \in Versions
        BY <3>1, <3>3, <1>12, Bounds DEF Serve, Versions, Exists
      <4> QED
        BY <3>3, <4>1, <1>12 DEF Serve
    <3> QED
      BY <3>2, <3>3
  <2>3. [call[c] EXCEPT !.stage = "served", !.ver = next] \in Call
    BY <2>1, <2>2 DEF Call
  <2>4. call' \in [Calls -> Call] /\ server' \in [Rows -> Versions]
    BY <2>2, <2>3, <2>1 DEF Typed, WellFormed, TypeOK
  <2>5. UNCHANGED <<screen, list, over, load, loading, pending, editor, missed, crossed>>
    BY <1>12 DEF Serve
  <2>6. CallsKnowTheirRow'
    <3> SUFFICES ASSUME NEW d \in Calls, call'[d].stage # "idle"
                 PROVE  call'[d].row \in Rows /\ call'[d].of \in Rows
      BY DEF CallsKnowTheirRow
    <3>1. CASE d = c
      BY <3>1, <2>1, <2>2, <1>12 DEF Serve, Typed, WellFormed, TypeOK, Call, CallsKnowTheirRow
    <3>2. CASE d # c
      <4>1. call'[d] = call[d]
        BY <3>2, <2>2 DEF Typed, WellFormed, TypeOK
      <4> QED
        BY <4>1 DEF Typed, WellFormed, CallsKnowTheirRow
    <3> QED
      BY <3>1, <3>2
  <2> QED
    BY <2>4, <2>5, <2>6 DEF Typed, WellFormed, TypeOK, FormsKnowTheirRow
<1>13. ASSUME NEW c \in Calls, AnswerCreate(c)
       PROVE  WellFormed'
  <2>1. call[c] \in Call /\ c \in LiveCalls /\ call[c].row \in Rows /\ call[c].ver \in Versions
    BY <1>13 DEF AnswerCreate, Typed, WellFormed, TypeOK, LiveCalls, CallsKnowTheirRow, Call
  <2>2. CASE call' = [call EXCEPT ![c] = [call[c] EXCEPT !.kind = "photo", !.stage = "sent"]] /\ UNCHANGED list
    <3>1. [call[c] EXCEPT !.kind = "photo", !.stage = "sent"] \in Call
      BY <2>1 DEF Call
    <3>2. call' \in [Calls -> Call] /\ CallsKnowTheirRow'
      BY <2>1, <2>2, <3>1, <1>13 DEF AnswerCreate, Typed, WellFormed, TypeOK, CallsKnowTheirRow, FormsKnowTheirRow, LiveCalls
    <3> QED
      BY <2>2, <3>2, <1>13 DEF AnswerCreate, Typed, WellFormed, TypeOK, FormsKnowTheirRow
  <2>3. CASE call' = [call EXCEPT ![c] = NoCall] /\ list' = Listed(call[c].row, call[c].ver)
    <3>1. call' \in [Calls -> Call] /\ CallsKnowTheirRow'
      BY <2>3, Constants, <1>13 DEF AnswerCreate, Typed, WellFormed, TypeOK, CallsKnowTheirRow, NoCall
    <3>2. list' \in [Rows -> [n: 0..2, ver: Versions]]
      BY <2>1, <2>3, ListTypes DEF Typed, WellFormed
    <3> QED
      BY <3>1, <3>2, <1>13 DEF AnswerCreate, Typed, WellFormed, TypeOK, FormsKnowTheirRow
  <2> QED
    BY <2>2, <2>3, <1>13 DEF AnswerCreate
<1>14. ASSUME NEW c \in Calls, AnswerSave(c)
       PROVE  WellFormed'
  <2>0. c \in LiveCalls
    BY <1>14 DEF AnswerSave, LiveCalls
  <2>1. call[c] \in Call /\ c \in LiveCalls /\ call[c].row \in Rows /\ Answered(c) \in Versions
    BY <2>0, AnsweredTypes DEF Typed, WellFormed, TypeOK, LiveCalls, CallsKnowTheirRow
  <2>2. list' \in [Rows -> [n: 0..2, ver: Versions]]
    BY <2>1, ListTypes, <1>14 DEF AnswerSave, Typed, WellFormed
  <2>3. /\ editor' \in Editor
        /\ editor' # Closed => editor'.row \in Rows /\ editor'.seed \in Rows
    BY <2>1, <1>14, AfterTypes DEF AnswerSave, Typed, WellFormed
  <2>4. call' \in [Calls -> Call] /\ \A d \in Calls : /\ call'[d].stage # "idle" => d # c
                                                      /\ d # c => /\ call'[d].row = call[d].row
                                                                  /\ call'[d].of = call[d].of
                                                                  /\ call'[d].stage = call[d].stage
    <3> DEFINE rest == [call EXCEPT ![c] = NoCall]
    <3>1. rest \in [Calls -> Call] /\ rest[c].stage = "idle" /\ \A d \in Calls \ {c} : rest[d] = call[d]
      BY Constants DEF Typed, WellFormed, TypeOK, NoCall
    <3>2. call' = rest \/ call' = Unmounted(rest)
      BY <1>14 DEF AnswerSave
    <3> HIDE DEF rest
    <3> QED
      BY <3>1, <3>2, UnmountedTypes
  <2>5. UNCHANGED <<screen, server, over, load, loading, pending, missed, crossed>>
    BY <1>14 DEF AnswerSave
  <2>6. CallsKnowTheirRow'
    <3> SUFFICES ASSUME NEW d \in Calls, call'[d].stage # "idle"
                 PROVE  call'[d].row \in Rows /\ call'[d].of \in Rows
      BY DEF CallsKnowTheirRow
    <3>1. /\ call'[d].row = call[d].row /\ call'[d].of = call[d].of
          /\ call[d].stage # "idle"
      BY <2>4
    <3> QED
      BY <3>1 DEF Typed, WellFormed, CallsKnowTheirRow
  <2>7. FormsKnowTheirRow'
    BY <2>3 DEF FormsKnowTheirRow, Closed
  <2> QED
    BY <2>2, <2>3, <2>4, <2>5, <2>6, <2>7 DEF Typed, WellFormed, TypeOK
<1>15. ASSUME NEW c \in Calls, FailCall(c)
       PROVE  WellFormed'
  <2>1. call[c] \in Call /\ c \in LiveCalls /\ call[c].row \in Rows
    BY <1>15 DEF FailCall, Typed, WellFormed, TypeOK, LiveCalls, CallsKnowTheirRow, Call
  <2>2. list' \in [Rows -> [n: 0..2, ver: Versions]]
    BY <2>1, ListTypes, Bounds, <1>15 DEF FailCall, Typed, WellFormed, TypeOK
  <2>3. /\ editor' \in Editor
        /\ editor'.row = editor.row /\ editor'.seed = editor.seed
        /\ editor = Closed => editor' = Closed
    <3>1. editor' = Freed(editor, call[c].kind) \/ editor' = editor
      BY <1>15 DEF FailCall, Freed
    <3>2. editor \in Editor
      BY DEF Typed, WellFormed, TypeOK
    <3> QED
      BY <3>1, <3>2, FreedTypes
  <2>4. call' \in [Calls -> Call] /\ \A d \in Calls : /\ call'[d].stage # "idle" => d # c
                                                      /\ d # c => call'[d] = call[d]
    BY Constants, <1>15 DEF FailCall, Typed, WellFormed, TypeOK, NoCall
  <2>5. /\ missed' \subseteq Rows /\ pending' \in Rows \cup {None}
        /\ UNCHANGED <<screen, server, over, load, loading, crossed>>
    BY <2>1, <1>15 DEF FailCall, Typed, WellFormed, TypeOK
  <2>6. CallsKnowTheirRow'
    <3> SUFFICES ASSUME NEW d \in Calls, call'[d].stage # "idle"
                 PROVE  call'[d].row \in Rows /\ call'[d].of \in Rows
      BY DEF CallsKnowTheirRow
    <3>1. /\ call'[d].row = call[d].row /\ call'[d].of = call[d].of
          /\ call[d].stage # "idle"
      BY <2>4
    <3> QED
      BY <3>1 DEF Typed, WellFormed, CallsKnowTheirRow
  <2>7. FormsKnowTheirRow'
    BY <2>3 DEF Typed, WellFormed, FormsKnowTheirRow, Closed
  <2> QED
    BY <2>2, <2>3, <2>4, <2>5, <2>6, <2>7 DEF Typed, WellFormed, TypeOK
<1>16. ASSUME NEW c \in Calls, NEW l \in Loads, AnswerPress(c, l)
       PROVE  WellFormed'
  <2>0. c \in LiveCalls
    BY <1>16 DEF AnswerPress, LiveCalls
  <2>1. /\ call[c] \in Call /\ c \in LiveCalls /\ call[c].row \in Rows
        /\ call[c].ver \in Versions /\ Answered(c) \in Versions
    BY <2>0, AnsweredTypes DEF Typed, WellFormed, TypeOK, LiveCalls, CallsKnowTheirRow, Call
  <2>2. /\ list' \in [Rows -> [n: 0..2, ver: Versions]] /\ over' \in [Rows -> Versions]
        /\ missed' \subseteq Rows
    <3>1. \/ list' = Removed(call[c].row) /\ UNCHANGED <<over, missed>>
          \/ list' = Patched(call[c].row, Answered(c)) /\ UNCHANGED <<over, missed>>
          \/ over' = [over EXCEPT ![call[c].row] = call[c].ver] /\ UNCHANGED <<list, missed>>
          \/ missed' = missed \cup {call[c].row} /\ UNCHANGED <<list, over>>
      BY <1>16 DEF AnswerPress
    <3>2. CASE list' = Removed(call[c].row) /\ UNCHANGED <<over, missed>>
      BY <2>1, <3>2, ListTypes DEF Typed, WellFormed, TypeOK
    <3>3. CASE list' = Patched(call[c].row, Answered(c)) /\ UNCHANGED <<over, missed>>
      BY <2>1, <3>3, ListTypes DEF Typed, WellFormed, TypeOK
    <3>4. CASE over' = [over EXCEPT ![call[c].row] = call[c].ver] /\ UNCHANGED <<list, missed>>
      BY <2>1, <3>4 DEF Typed, WellFormed, TypeOK
    <3>5. CASE missed' = missed \cup {call[c].row} /\ UNCHANGED <<list, over>>
      BY <2>1, <3>5 DEF Typed, WellFormed, TypeOK
    <3> QED
      BY <3>1, <3>2, <3>3, <3>4, <3>5
  <2>3. load' \in [Loads -> Load] /\ loading' \in BOOLEAN
    <3>1. CASE Begin(l, LiveCalls \ {c}) /\ loading' = TRUE
      <4>1. LiveCalls \ {c} \in SUBSET Calls /\ \A d \in LiveCalls \ {c} : call[d].row \in Rows
        BY DEF Typed, WellFormed, CallsKnowTheirRow, LiveCalls
      <4> QED
        BY <3>1, <4>1, BeginTypes DEF Typed, WellFormed
    <3>2. CASE UNCHANGED <<load, loading>>
      BY <3>2 DEF Typed, WellFormed, TypeOK
    <3> QED
      BY <3>1, <3>2, <1>16 DEF AnswerPress
  <2>4. call' \in [Calls -> Call] /\ \A d \in Calls : /\ call'[d].stage # "idle" => d # c
                                                      /\ d # c => call'[d] = call[d]
    BY Constants, <1>16 DEF AnswerPress, Typed, WellFormed, TypeOK, NoCall
  <2>5. UNCHANGED <<screen, server, editor, crossed>> /\ pending' = None
    BY <1>16 DEF AnswerPress
  <2>6. TypeOK'
    BY <2>2, <2>3, <2>4, <2>5 DEF Typed, WellFormed, TypeOK
  <2>7. CallsKnowTheirRow' /\ FormsKnowTheirRow'
    <3>1. FormsKnowTheirRow'
      BY <2>5 DEF Typed, WellFormed, FormsKnowTheirRow
    <3> SUFFICES ASSUME NEW d \in Calls, call'[d].stage # "idle"
                 PROVE  call'[d].row \in Rows /\ call'[d].of \in Rows
      BY <3>1 DEF CallsKnowTheirRow
    <3>2. call'[d] = call[d] /\ call[d].stage # "idle"
      BY <2>4
    <3> QED
      BY <3>2 DEF Typed, WellFormed, CallsKnowTheirRow
  <2> QED
    BY <2>6, <2>7 DEF Typed, WellFormed
<1>19. ASSUME NEW c \in Calls, AnswerUpload(c)
       PROVE  WellFormed'
  <2>1. call[c] \in Call /\ c \in LiveCalls /\ call[c].row \in Rows /\ call[c].ver \in Versions
    BY <1>19 DEF AnswerUpload, Typed, WellFormed, TypeOK, LiveCalls, CallsKnowTheirRow, Call
  <2>2. editor' \in Editor /\ (editor' # Closed => editor'.row \in Rows /\ editor'.seed \in Rows)
    <3>0. editor \in Editor /\ (editor # Closed => editor.row \in Rows /\ editor.seed \in Rows)
      BY DEF Typed, WellFormed, TypeOK, FormsKnowTheirRow
    <3>1. CASE call[c].form
      <4>1. editor # Closed
        BY <2>1, <3>1, <1>19, Bounds DEF AnswerUpload, Typed, UploadsKnowTheirForm, Closed
      <4>2. PICK v \in Versions : editor' = [editor EXCEPT !.saving = @ \ {"upload"}, !.ver = v]
        <5>1. (IF editor.ver + 1 = call[c].ver THEN call[c].ver ELSE editor.ver) \in Versions
          BY <2>1, <3>0 DEF Editor
        <5> QED
          BY <3>1, <5>1, <1>19 DEF AnswerUpload
      <4> QED
        BY <3>0, <4>1, <4>2 DEF Editor
    <3>2. CASE ~call[c].form
      BY <3>0, <3>2, <1>19 DEF AnswerUpload
    <3> QED
      BY <3>1, <3>2
  <2>3. call' \in [Calls -> Call] /\ \A d \in Calls : /\ call'[d].stage # "idle" => d # c
                                                      /\ d # c => call'[d] = call[d]
    BY Constants, <1>19 DEF AnswerUpload, Typed, WellFormed, TypeOK, NoCall
  <2>4. missed' \subseteq Rows /\ UNCHANGED <<screen, server, list, over, load, loading, pending, crossed>>
    BY <2>1, <1>19 DEF AnswerUpload, Typed, WellFormed, TypeOK
  <2>5. CallsKnowTheirRow'
    BY <2>3 DEF Typed, WellFormed, CallsKnowTheirRow
  <2> QED
    BY <2>2, <2>3, <2>4, <2>5 DEF Typed, WellFormed, TypeOK, FormsKnowTheirRow
<1>17. CASE UNCHANGED vars
  BY <1>17 DEF vars, Typed, WellFormed, TypeOK, CallsKnowTheirRow, FormsKnowTheirRow, LiveCalls
<1> QED
  BY <1>1, <1>2, <1>3, <1>4, <1>5, <1>6, <1>7, <1>8, <1>9,
     <1>10, <1>11, <1>12, <1>13, <1>14, <1>15, <1>16, <1>17, <1>18, <1>19 DEF Next

\* The page stays the one it is.
LEMMA StepKeepsScreen == [Next]_vars => screen' = screen
  BY DEF Next, vars, Refresh, Choose, ServeLoad, AnswerLoad, FailLoad, Others, Open, Close, Submit,
         Create, Save, Press, Serve, AnswerCreate, AnswerSave, AnswerUpload, FailCall, AnswerPress

\* A form is not closed, nor given another row, under a photo that is on its way.
LEMMA StepUploads ==
  ASSUME Typed, [Next]_vars, NEW c \in Calls,
         call'[c].stage # "idle", call'[c].kind = "upload", call'[c].form
  PROVE  screen.second = "upload" /\ editor'.row = call'[c].row
<1> DEFINE Kept == /\ call[c].stage # "idle" /\ call[c].kind = "upload" /\ call[c].form
                   /\ call'[c].row = call[c].row
<1>0. /\ call \in [Calls -> Call] /\ NoCall.stage = "idle" /\ NoCall \in Call
      /\ editor \in Editor /\ screen \in Kinds
  BY Constants DEF Typed, WellFormed, TypeOK, NoCall
<1>1. Kept => /\ screen.second = "upload" /\ editor.row = call'[c].row
              /\ ~screen.follows /\ editor # Closed
  BY <1>0, ScreensAssumption DEF Typed, WellFormed, UploadsKnowTheirForm, CallsKnowTheirRow, Closed
<1>2. ASSUME NEW d \in Calls, NEW kind, NEW r, NEW s, NEW base, Send(d, kind, r, s, base)
      PROVE  Kept \/ (c = d /\ kind = "upload" /\ call'[c].row = r)
  BY <1>0, <1>2 DEF Send
<1>3. ASSUME NEW d \in Calls, call' = [call EXCEPT ![d] = NoCall]
      PROVE  Kept
  BY <1>0, <1>3
<1>4. ASSUME NEW cs \in [Calls -> Call], call' = Unmounted(cs)
      PROVE  FALSE
  BY <1>4, UnmountedTypes DEF FormKinds
<1>5. ASSUME NEW d \in Calls, NEW r \in Rows, NEW kind \in {"patch", "remove"},
             Create(d, r) \/ Save(d, r) \/ Press(d, r, kind)
      PROVE  Kept /\ editor' = editor
  BY <1>2, <1>5 DEF Create, Save, Press
<1>6. ASSUME NEW d \in Calls, NEW r \in Rows, NEW kind \in FormKinds, Submit(d, r, kind)
      PROVE  screen.second = "upload" /\ editor'.row = call'[c].row
  <2>1. editor'.row = editor.row /\ editor.row = r
    BY <1>0, <1>6 DEF Submit, Editor
  <2>2. Kept \/ (kind = "upload" /\ call'[c].row = r)
    BY <1>2, <1>6 DEF Submit
  <2>3. kind = "upload" => screen.second = "upload"
    BY <1>6 DEF Submit
  <2> HIDE DEF Kept
  <2> QED
    BY <1>1, <2>1, <2>2, <2>3
<1>7. ASSUME NEW d \in Calls, Serve(d)
      PROVE  Kept /\ editor' = editor
  <2>1. PICK v : call' = [call EXCEPT ![d] = [call[d] EXCEPT !.stage = "served", !.ver = v]]
    BY <1>7 DEF Serve
  <2>2. CASE c = d
    BY <1>0, <1>7, <2>1, <2>2 DEF Serve, Call
  <2>3. CASE c # d
    BY <1>0, <1>7, <2>1, <2>3 DEF Serve
  <2> QED
    BY <2>2, <2>3
<1>8. ASSUME NEW d \in Calls, AnswerCreate(d)
      PROVE  Kept /\ editor' = editor
  <2>1. CASE call' = [call EXCEPT ![d] = [call[d] EXCEPT !.kind = "photo", !.stage = "sent"]]
    <3>1. c # d
      BY <1>0, <2>1 DEF Call
    <3> QED
      BY <1>0, <1>8, <2>1, <3>1 DEF AnswerCreate
  <2> QED
    BY <1>3, <1>8, <2>1 DEF AnswerCreate
<1>9. ASSUME NEW d \in Calls, AnswerSave(d)
      PROVE  Kept /\ (~screen.follows => editor'.row = editor.row)
  <2> DEFINE rest == [call EXCEPT ![d] = NoCall]
  <2>1. rest \in [Calls -> Call]
    BY <1>0
  <2>2. ~screen.closes /\ call' = rest
    BY <1>4, <1>9, <2>1 DEF AnswerSave
  <2>3. d \in LiveCalls
    BY <1>9 DEF AnswerSave, LiveCalls
  <2>4. ~screen.follows => editor'.row = editor.row
    BY <1>9, <2>2, <2>3, AfterTypes DEF AnswerSave
  <2> QED
    BY <1>3, <2>2, <2>4
<1>10. ASSUME NEW d \in Calls, AnswerUpload(d)
       PROVE  Kept /\ editor'.row = editor.row
  <2>1. editor'.row = editor.row
    BY <1>0, <1>10 DEF AnswerUpload, Editor
  <2> QED
    BY <1>3, <1>10, <2>1 DEF AnswerUpload
<1>11. ASSUME NEW d \in Calls, FailCall(d)
       PROVE  Kept /\ editor'.row = editor.row
  <2>1. editor'.row = editor.row
    BY <1>0, <1>11 DEF FailCall, Editor
  <2> QED
    BY <1>3, <1>11, <2>1 DEF FailCall
<1>12. ASSUME NEW d \in Calls, NEW l \in Loads, AnswerPress(d, l)
       PROVE  Kept /\ editor' = editor
  BY <1>3, <1>12 DEF AnswerPress
<1>13. ASSUME NEW l \in Loads,
              Refresh(l) \/ Choose(l) \/ ServeLoad(l) \/ AnswerLoad(l) \/ FailLoad(l)
       PROVE  Kept /\ editor' = editor
  BY <1>13 DEF Refresh, Choose, ServeLoad, AnswerLoad, FailLoad
<1>14. ASSUME NEW r \in Rows, Others(r)
       PROVE  Kept /\ editor' = editor
  BY <1>14 DEF Others
<1>15. ASSUME NEW r \in Rows, Open(r)
       PROVE  Kept /\ editor = Closed
  BY <1>15 DEF Open
<1>16. ASSUME Close
       PROVE  FALSE
  BY <1>0, <1>4, <1>16 DEF Close
<1>17. ASSUME UNCHANGED vars
       PROVE  Kept /\ editor' = editor
  BY <1>17 DEF vars
<1> HIDE DEF Kept
<1> QED
  BY <1>1, <1>5, <1>6, <1>7, <1>8, <1>9, <1>10, <1>11, <1>12, <1>13, <1>14, <1>15, <1>16, <1>17 DEF Next

\* Every step keeps the types.
LEMMA StepTyped ==
  ASSUME Typed, [Next]_vars
  PROVE  Typed'
<1>1. WellFormed' /\ screen' = screen
  BY StepWellFormed, StepKeepsScreen
<1>2. UploadsKnowTheirForm'
  BY <1>1, StepUploads DEF UploadsKnowTheirForm
<1> QED
  BY <1>1, <1>2 DEF Typed

LEMMA InitTyped == Init => Typed
<1> SUFFICES ASSUME Init PROVE Typed
  OBVIOUS
<1>1. load \in [Loads -> Load]
  BY Constants DEF Init
<1>2. call \in [Calls -> Call] /\ \A c \in Calls : call[c].stage = "idle"
  BY Constants DEF Init, NoCall
<1>3. /\ list \in [Rows -> [n: 0..2, ver: Versions]]
      /\ server \in [Rows -> Versions] /\ over \in [Rows -> Versions]
  BY Bounds DEF Init
<1>4. editor \in Editor /\ editor = Closed
  BY Constants DEF Init
<1> QED
  BY <1>1, <1>2, <1>3, <1>4
     DEF Init, Typed, WellFormed, TypeOK, CallsKnowTheirRow, FormsKnowTheirRow, UploadsKnowTheirForm

\* Every value stays in its set, however many rows, requests and versions: what an
\* answer writes into the list, the table's copies and the modal is a version of a
\* row of the page.
THEOREM TypeCorrect == Spec => []TypeOK
<1>1. Init => Typed
  BY InitTyped
<1>2. Typed /\ [Next]_vars => Typed'
  BY StepTyped
<1>3. Typed => TypeOK
  BY DEF Typed, WellFormed
<1> QED
  BY <1>1, <1>2, <1>3, PTL DEF Spec

-----------------------------------------------------------------------------
(* Saves *)

\* An open form shows the row it saves, and so did the form of a save in flight.
OwnRow ==
  ~screen.follows =>
    /\ editor.row = editor.seed
    /\ \A c \in Calls : call[c].stage # "idle" => call[c].row = call[c].of

\* The rows of a call are those it was sent with.
LEMMA StepKeepsRows ==
  ASSUME Typed, [Next]_vars, NEW c \in Calls, call'[c].stage # "idle"
  PROVE  \/ call[c].stage # "idle" /\ call'[c].row = call[c].row /\ call'[c].of = call[c].of
         \/ call'[c].row = call'[c].of
         \/ call'[c].row = editor.row /\ call'[c].of = editor.seed
<1> DEFINE Kept == call[c].stage # "idle" /\ call'[c].row = call[c].row /\ call'[c].of = call[c].of
<1>0. call \in [Calls -> Call] /\ NoCall.stage = "idle"
  BY DEF Typed, WellFormed, TypeOK, NoCall
<1>1. ASSUME NEW d \in Calls, NEW r \in Rows, NEW s, NEW base,
             NEW kind, Send(d, kind, r, s, base)
      PROVE  Kept \/ (c = d /\ call'[c].row = r /\ call'[c].of = s)
  <2>1. call' = [call EXCEPT ![d] = [kind |-> kind, row |-> r, of |-> s, stage |-> "sent",
                                     base |-> IF Lists(kind) = "copy" THEN base ELSE 0,
                                     ver |-> 0, form |-> TRUE]]
    BY <1>1 DEF Send
  <2>2. CASE c = d
    BY <2>1, <2>2, <1>0
  <2>3. CASE c # d
    BY <2>1, <2>3, <1>0
  <2> QED
    BY <2>2, <2>3
<1>2. ASSUME NEW d \in Calls, call' = [call EXCEPT ![d] = NoCall]
      PROVE  Kept
  BY <1>0, <1>2
<1>4. ASSUME NEW d \in Calls, NEW r \in Rows, Create(d, r)
      PROVE  call'[c].row = call'[c].of \/ Kept
  BY <1>1, <1>4 DEF Create
<1>5. ASSUME NEW d \in Calls, NEW r \in Rows, Save(d, r)
      PROVE  Kept \/ call'[c].row = call'[c].of
  BY <1>1, <1>5 DEF Save
<1>19. ASSUME NEW d \in Calls, NEW r \in Rows, NEW kind \in FormKinds, Submit(d, r, kind)
       PROVE  Kept \/ (call'[c].row = editor.row /\ call'[c].of = editor.seed)
  BY <1>1, <1>19 DEF Submit
<1>6. ASSUME NEW d \in Calls, NEW r \in Rows, NEW kind \in {"patch", "remove"}, Press(d, r, kind)
      PROVE  call'[c].row = call'[c].of \/ Kept
  BY <1>1, <1>6 DEF Press
<1>7. ASSUME NEW d \in Calls, Serve(d)
      PROVE  Kept
  <2>1. PICK v : call' = [call EXCEPT ![d] = [call[d] EXCEPT !.stage = "served", !.ver = v]]
    BY <1>7 DEF Serve
  <2>2. CASE c = d
    BY <1>0, <1>7, <2>1, <2>2 DEF Serve, Call
  <2>3. CASE c # d
    BY <1>0, <2>1, <2>3
  <2> QED
    BY <2>2, <2>3
<1>8. ASSUME NEW d \in Calls, AnswerCreate(d)
      PROVE  Kept
  <2>1. CASE call' = [call EXCEPT ![d] = [call[d] EXCEPT !.kind = "photo", !.stage = "sent"]]
    <3>1. CASE c = d
      BY <1>0, <1>8, <2>1, <3>1 DEF AnswerCreate, Call
    <3>2. CASE c # d
      BY <1>0, <2>1, <3>2
    <3> QED
      BY <3>1, <3>2
  <2> QED
    BY <1>2, <1>8, <2>1 DEF AnswerCreate
<1>9. ASSUME NEW cs \in [Calls -> Call], call' = Unmounted(cs)
      PROVE  /\ cs[c].stage # "idle" /\ call'[c].row = cs[c].row /\ call'[c].of = cs[c].of
  BY <1>9, UnmountedTypes
<1>10. ASSUME Close
       PROVE  Kept
  BY <1>0, <1>9, <1>10 DEF Close
<1>11. ASSUME NEW d \in Calls, AnswerSave(d)
       PROVE  Kept
  <2> DEFINE rest == [call EXCEPT ![d] = NoCall]
  <2>1. rest \in [Calls -> Call] /\ rest[d].stage = "idle" /\ (c # d => rest[c] = call[c])
    BY <1>0, Constants
  <2>2. call' = rest \/ call' = Unmounted(rest)
    BY <1>11 DEF AnswerSave
  <2>3. call'[c].stage # "idle"
    OBVIOUS
  <2> HIDE DEF rest
  <2>4. CASE call' = rest
    BY <2>1, <2>3, <2>4
  <2>5. CASE call' = Unmounted(rest)
    BY <2>1, <2>5, <1>9
  <2> QED
    BY <2>2, <2>4, <2>5
<1>12. ASSUME NEW d \in Calls, FailCall(d) \/ AnswerUpload(d)
       PROVE  Kept
  BY <1>2, <1>12 DEF FailCall, AnswerUpload
<1>13. ASSUME NEW d \in Calls, NEW l \in Loads, AnswerPress(d, l)
       PROVE  Kept
  BY <1>2, <1>13 DEF AnswerPress
<1>14. ASSUME NEW l \in Loads,
              Refresh(l) \/ Choose(l) \/ ServeLoad(l) \/ AnswerLoad(l) \/ FailLoad(l)
       PROVE  UNCHANGED call
  BY <1>14 DEF Refresh, Choose, ServeLoad, AnswerLoad, FailLoad
<1>15. ASSUME NEW r \in Rows, Others(r) \/ Open(r)
       PROVE  UNCHANGED call
  BY <1>15 DEF Others, Open
<1>16. ASSUME UNCHANGED vars
       PROVE  UNCHANGED call
  BY <1>16 DEF vars
<1> HIDE DEF Kept
<1>17. Kept \/ UNCHANGED call \/ call'[c].row = call'[c].of
       \/ (call'[c].row = editor.row /\ call'[c].of = editor.seed)
  BY <1>4, <1>5, <1>6, <1>7, <1>8, <1>10, <1>11, <1>12, <1>13, <1>14, <1>15, <1>16, <1>19 DEF Next
<1>18. UNCHANGED call => Kept
  BY DEF Kept
<1> QED
  BY <1>17, <1>18 DEF Kept

\* The fields of an open form are those of its row, unless an answer gave the form
\* another row.
LEMMA StepKeepsForm ==
  ASSUME Typed, [Next]_vars, ~screen.follows, editor.row = editor.seed
  PROVE  editor'.row = editor'.seed
<1>1. /\ Closed.row = Closed.seed
      /\ editor \in Editor
  BY DEF Closed, Typed, WellFormed, TypeOK
<1>2. ASSUME NEW l \in Loads,
             Refresh(l) \/ Choose(l) \/ ServeLoad(l) \/ AnswerLoad(l) \/ FailLoad(l)
      PROVE  editor' = editor
  BY <1>2 DEF Refresh, Choose, ServeLoad, AnswerLoad, FailLoad
<1>3. ASSUME NEW r \in Rows, Others(r) \/ Open(r)
      PROVE  editor'.row = editor'.seed
  BY <1>3 DEF Others, Open
<1>4. ASSUME Close
      PROVE  editor'.row = editor'.seed
  BY <1>1, <1>4 DEF Close
<1>5. ASSUME NEW c \in Calls, NEW r \in Rows, Create(c, r) \/ Save(c, r)
      PROVE  editor' = editor
  BY <1>5 DEF Create, Save
<1>12. ASSUME NEW c \in Calls, NEW r \in Rows, NEW kind \in FormKinds, Submit(c, r, kind)
       PROVE  editor'.row = editor'.seed
  <2>1. editor'.row = editor.row /\ editor'.seed = editor.seed
    BY <1>1, <1>12 DEF Submit, Editor
  <2> QED
    BY <2>1
<1>6. ASSUME NEW c \in Calls, NEW r \in Rows, NEW kind \in {"patch", "remove"}, Press(c, r, kind)
      PROVE  editor' = editor
  BY <1>6 DEF Press
<1>7. ASSUME NEW c \in Calls, Serve(c) \/ AnswerCreate(c)
      PROVE  editor' = editor
  BY <1>7 DEF Serve, AnswerCreate
<1>8. ASSUME NEW c \in Calls, AnswerSave(c)
      PROVE  editor'.row = editor'.seed
  <2>1. c \in LiveCalls
    BY <1>8 DEF AnswerSave, LiveCalls
  <2>2. editor' = Closed \/ (editor'.row = editor.row /\ editor'.seed = editor.seed)
    BY <2>1, <1>8, AfterTypes DEF AnswerSave
  <2> QED
    BY <1>1, <2>2
<1>9. ASSUME NEW c \in Calls, FailCall(c) \/ AnswerUpload(c)
      PROVE  editor'.row = editor'.seed
  <2>1. editor'.row = editor.row /\ editor'.seed = editor.seed
    BY <1>1, <1>9 DEF FailCall, AnswerUpload, Editor
  <2> QED
    BY <2>1
<1>10. ASSUME NEW c \in Calls, NEW l \in Loads, AnswerPress(c, l)
       PROVE  editor' = editor
  BY <1>10 DEF AnswerPress
<1>11. CASE UNCHANGED vars
  BY <1>11 DEF vars
<1> QED
  BY <1>2, <1>3, <1>4, <1>5, <1>6, <1>7, <1>8, <1>9, <1>10, <1>11, <1>12 DEF Next

\* Whatever is opened, closed, answered or refused between the moment a form is
\* filled and the moment its save leaves, the save changes the row its fields were
\* read from, in every modal that an answer does not give another row.
THEOREM SavesChangeTheirRow == Spec => []SavesItsOwnRow
<1>1. Init => Typed /\ OwnRow
  <2> SUFFICES ASSUME Init PROVE OwnRow
    BY InitTyped
  <2>1. editor.row = editor.seed /\ \A c \in Calls : call[c].stage = "idle"
    BY DEF Init, Closed, NoCall
  <2> QED
    BY <2>1 DEF OwnRow
<1>2. Typed /\ OwnRow /\ [Next]_vars => Typed' /\ OwnRow'
  <2> SUFFICES ASSUME Typed, OwnRow, [Next]_vars, ~screen.follows
               PROVE  OwnRow'
    BY StepTyped, StepKeepsScreen DEF OwnRow
  <2>1. editor'.row = editor'.seed
    BY StepKeepsForm DEF OwnRow
  <2>2. ASSUME NEW c \in Calls, call'[c].stage # "idle"
        PROVE  call'[c].row = call'[c].of
    BY <2>2, StepKeepsRows DEF OwnRow
  <2> QED
    BY <2>1, <2>2 DEF OwnRow
<1>3. OwnRow => SavesItsOwnRow
  BY DEF OwnRow, SavesItsOwnRow, LiveCalls
<1> QED
  BY <1>1, <1>2, <1>3, PTL DEF Spec
=============================================================================
