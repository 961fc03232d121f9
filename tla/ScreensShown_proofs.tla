-------------------------- MODULE ScreensShown_proofs --------------------------
(***************************************************************************)
(* What a screen shows: theorems NeverBackwards and ShownIsCurrent of      *)
(* Screens, for any screens, rows, requests and versions.                  *)
(***************************************************************************)
EXTENDS Screens_proofs

-----------------------------------------------------------------------------
(* What a step does to the calls and the loads, part by part *)

Live(c) == call[c].stage # "idle"
Running(l) == load[l].stage # "idle"

\* Call d goes on as it was: at most the form that sent it was unmounted.
Same(d) == /\ call'[d].stage = call[d].stage /\ call'[d].kind = call[d].kind
           /\ call'[d].row = call[d].row /\ call'[d].ver = call[d].ver
           /\ call'[d].base = call[d].base

\* Load k ended, or goes on as it was.
Lasts(k) == Running(k)' => /\ load'[k].stage = load[k].stage /\ load'[k].snap = load[k].snap
                           /\ load'[k].missed = load[k].missed
                           /\ load[k].crossed \subseteq load'[k].crossed

\* Load l begins while the calls cs are in flight, and cancels the others or
\* overlaps with them.
Begun(l, cs) ==
  /\ ~Running(l) /\ load'[l].stage = "sent"
  /\ \A c \in cs : call[c].row \in load'[l].crossed
  /\ \A k \in Loads \ {l} : /\ Lasts(k)
                            /\ Running(k)' => Rows \subseteq load'[k].crossed \cap load'[l].crossed

\* The answer of call c lists a copy that was there when the call left.
Copies(c) == call[c].kind \in {"patch", "edit", "password"} /\ Lists(call[c].kind) = "copy"

\* Call c leaves for row r.
Left(c, kind, r, base) ==
  /\ ~Live(c)
  /\ call'[c].stage = "sent" /\ call'[c].kind = kind /\ call'[c].row = r /\ call'[c].ver = 0
  /\ call'[c].base = (IF Lists(kind) = "copy" THEN base ELSE 0)
  /\ r \in crossed' \/ (Lists(kind) = "copy" => base >= list[r].ver)
  /\ \A d \in Calls \ {c} : Same(d)
  /\ \A k \in Loads : Lasts(k) /\ (Running(k)' => r \in load'[k].crossed)
  /\ crossed \subseteq crossed' /\ crossed' \subseteq crossed \cup {r}
  /\ (\E k \in Loads : Running(k)) \/ (\E d \in Calls : Live(d) /\ call[d].row = r) => r \in crossed'

LEMMA BeginEffect ==
  ASSUME Typed, NEW l \in Loads, NEW cs \in SUBSET Calls, Begin(l, cs)
  PROVE  Begun(l, cs)
<1>1. load \in [Loads -> Load] /\ Idle \in Load /\ Idle.stage = "idle"
  BY Constants DEF Typed, WellFormed, TypeOK, Idle
<1>2. ~Running(l)
  BY <1>1 DEF Begin, Running
<1>3. load'[l] = [Idle EXCEPT !.stage = "sent", !.crossed = {call[c].row : c \in cs} \cup Overlap]
  <2>1. l \notin LiveLoads /\ l \notin Superseded
    BY <1>2 DEF LiveLoads, Running, Superseded
  <2> QED
    BY <2>1 DEF Begin
<1>4. load'[l].stage = "sent" /\ load'[l].crossed = {call[c].row : c \in cs} \cup Overlap
  BY <1>1, <1>3 DEF Idle
<1>5. ASSUME NEW k \in Loads \ {l}
      PROVE  Lasts(k) /\ (Running(k)' => Rows \subseteq load'[k].crossed \cap load'[l].crossed)
  <2>0. load[k] \in Load
    BY <1>1
  <2>1. CASE k \in Superseded
    <3>1. load'[k] = Idle
      BY <2>1 DEF Begin
    <3> QED
      BY <3>1, <1>1 DEF Lasts, Running
  <2>2. CASE k \in LiveLoads \ Superseded
    <3>1. load'[k] = [load[k] EXCEPT !.crossed = load[k].crossed \cup Overlap]
      BY <2>2 DEF Begin
    <3>2. Overlap = Rows
      BY <2>2 DEF Overlap, Superseded
    <3>3. /\ load'[k].stage = load[k].stage /\ load'[k].snap = load[k].snap
          /\ load'[k].missed = load[k].missed /\ load'[k].crossed = load[k].crossed \cup Rows
      BY <2>0, <3>1, <3>2 DEF Load
    <3> QED
      BY <1>4, <3>2, <3>3 DEF Lasts
  <2>3. CASE k \notin LiveLoads
    <3>1. k \notin Superseded
      BY <2>3 DEF Superseded
    <3>2. load'[k] = load[k]
      BY <2>3, <3>1 DEF Begin
    <3> QED
      BY <2>3, <3>2 DEF Lasts, Running, LiveLoads
  <2> QED
    BY <2>1, <2>2, <2>3
<1> QED
  BY <1>2, <1>4, <1>5 DEF Begun

LEMMA SendEffect ==
  ASSUME Typed, NEW c \in Calls, NEW kind, NEW r \in Rows, NEW s, NEW base, Send(c, kind, r, s, base)
  PROVE  Left(c, kind, r, base)
<1>1. /\ call \in [Calls -> Call] /\ load \in [Loads -> Load]
  BY DEF Typed, WellFormed, TypeOK
<1>2. /\ ~Live(c)
      /\ call'[c] = Sent(kind, r, s, base)
      /\ \A d \in Calls \ {c} : call'[d] = call[d]
  <2>1. call' = [call EXCEPT ![c] = Sent(kind, r, s, base)] /\ call[c] = NoCall
    BY DEF Send, Sent
  <2> QED
    BY <1>1, <2>1 DEF NoCall, Live
<1>3. ASSUME NEW k \in Loads
      PROVE  Lasts(k) /\ (Running(k)' => r \in load'[k].crossed)
  <2>0. load[k] \in Load
    BY <1>1
  <2>1. CASE k \in LiveLoads
    <3>1. load'[k] = [load[k] EXCEPT !.crossed = load[k].crossed \cup {r}]
      BY <2>1 DEF Send
    <3> QED
      BY <2>0, <3>1 DEF Lasts, Load
  <2>2. CASE k \notin LiveLoads
    BY <2>2 DEF Send, LiveLoads, Running, Lasts
  <2> QED
    BY <2>1, <2>2
<1>4. /\ crossed \subseteq crossed' /\ crossed' \subseteq crossed \cup {r}
      /\ (\E k \in Loads : Running(k)) \/ (\E d \in Calls : Live(d) /\ call[d].row = r) => r \in crossed'
      /\ r \in crossed' \/ (Lists(kind) = "copy" => base >= list[r].ver)
  BY DEF Send, LiveLoads, Running, CallsOn, LiveCalls, Live
<1> QED
  BY <1>2, <1>3, <1>4 DEF Left, Same, Sent

\* The calls once c has ended, in an answer or a failure.
LEMMA EndEffect ==
  ASSUME Typed, NEW c \in Calls, call' = [call EXCEPT ![c] = NoCall]
  PROVE  ~Live(c)' /\ \A d \in Calls \ {c} : Same(d)
  BY DEF Typed, WellFormed, TypeOK, NoCall, Live, Same

-----------------------------------------------------------------------------
(* The shapes of a step *)

\* Neither the database nor what is shown changes.
Unseen == UNCHANGED <<server, list, over, missed>>

Idles == Unseen /\ UNCHANGED <<load, crossed>> /\ \A d \in Calls : Same(d)

Asks == /\ \E l \in Loads : Begun(l, LiveCalls)
        /\ Unseen /\ UNCHANGED crossed /\ \A d \in Calls : Same(d)

Leaves == /\ \E c \in Calls, r \in Rows, kind \in SentKinds, base \in Versions :
               /\ Left(c, kind, r, base)
               /\ base = list[r].ver \/ (editor.row = r /\ base = editor.ver)
               /\ kind = "create" => server[r] = 0
          /\ Unseen

\* What the end of call c, answered with version v, leaves of its row r.
RowUnknown(r) == r \in missed' /\ list'[r] = list[r] /\ over'[r] = over[r]
RowRemoved(r) == list'[r].n = 0 /\ list'[r].ver = Gone /\ over'[r] = over[r] /\ missed' = missed
RowPatched(c, r) == /\ list'[r].n = list[r].n
                    /\ list'[r].ver = (IF list[r].n > 0 THEN Answered(c) ELSE list[r].ver)
                    /\ over'[r] = over[r] /\ missed' = missed
RowCopied(r, v) == over'[r] = v /\ list'[r] = list[r] /\ missed' = missed
RowListed(r, v) == /\ list'[r].n = (IF list[r].n = 0 THEN 1 ELSE 2) /\ list'[r].ver = v
                   /\ over'[r] = over[r]
RowAsItWas(r) == list'[r] = list[r] /\ over'[r] = over[r] /\ missed' = missed

Outcome(c) ==
  LET k == call[c] IN
  \/ RowUnknown(k.row)
  \/ k.stage = "served" /\ k.kind = "remove" /\ RowRemoved(k.row)
  \/ k.stage = "served" /\ k.kind \in {"patch", "edit", "password"} /\ RowPatched(c, k.row)
  \/ k.stage = "served" /\ k.kind = "patch" /\ RowCopied(k.row, k.ver)
  \/ k.stage = "served" /\ k.kind \in {"create", "photo"} /\ RowListed(k.row, k.ver) /\ missed' = missed
  \/ k.stage = "sent" /\ k.kind # "photo" /\ RowAsItWas(k.row)
  \/ k.kind = "photo" /\ RowListed(k.row, 1) /\ (k.stage = "served" => k.row \in missed')

\* Call c ends, or goes on with the photo of the row it created.
Answers(c) ==
  /\ Live(c) /\ call[c].row \in Rows
  /\ \A d \in Calls \ {c} : Same(d)
  /\ \A q \in Rows \ {call[c].row} : list'[q] = list[q] /\ over'[q] = over[q]
  /\ missed \subseteq missed' /\ UNCHANGED <<server, crossed>>
  /\ (\A k \in Loads : Lasts(k)) \/ (~Live(c)' /\ \E l \in Loads : Begun(l, LiveCalls \ {c}))
  /\ \/ ~Live(c)' /\ Outcome(c)
     \/ /\ call[c].stage = "served" /\ call[c].kind = "create"
        /\ call'[c].stage = "sent" /\ call'[c].kind = "photo"
        /\ call'[c].row = call[c].row /\ call'[c].ver = call[c].ver
        /\ call'[c].base = call[c].base
        /\ RowAsItWas(call[c].row)

LEMMA LeavesEffect ==
  ASSUME Typed, NEW c \in Calls, NEW r \in Rows
  PROVE  /\ Create(c, r) => Leaves
         /\ Save(c, r) => Leaves
         /\ \A kind \in FormKinds : Submit(c, r, kind) => Leaves
         /\ \A kind \in {"patch", "remove"} : Press(c, r, kind) => Leaves
<1>0. list[r].ver \in Versions
  BY DEF Typed, WellFormed, TypeOK
<1>1. ASSUME Create(c, r) PROVE Leaves
  <2>1. Left(c, "create", r, list[r].ver) /\ "create" \in SentKinds
    BY <1>1, SendEffect DEF Create, SentKinds
  <2> QED
    BY <1>0, <1>1, <2>1 DEF Create, Leaves, Unseen
<1>2. ASSUME Save(c, r) PROVE Leaves
  <2>1. Left(c, "edit", r, list[r].ver) /\ "edit" \in SentKinds
    BY <1>2, SendEffect DEF Save, SentKinds, FormKinds
  <2> QED
    BY <1>0, <1>2, <2>1 DEF Save, Leaves, Unseen
<1>3. ASSUME NEW kind \in {"patch", "remove"}, Press(c, r, kind) PROVE Leaves
  <2>1. Left(c, kind, r, list[r].ver) /\ kind \in SentKinds
    BY <1>3, SendEffect DEF Press, SentKinds
  <2> QED
    BY <1>0, <1>3, <2>1 DEF Press, Leaves, Unseen
<1>4. ASSUME NEW kind \in FormKinds, Submit(c, r, kind) PROVE Leaves
  <2>1. Left(c, kind, r, editor.ver) /\ kind \in SentKinds /\ kind # "create"
    BY <1>4, SendEffect DEF Submit, SentKinds, FormKinds
  <2>2. editor.ver \in Versions
    BY DEF Typed, WellFormed, TypeOK, Editor
  <2> QED
    BY <1>4, <2>1, <2>2 DEF Submit, Leaves, Unseen
<1> QED
  BY <1>1, <1>2, <1>3, <1>4

\* The list with row r patched, removed or listed, row by row.
LEMMA ListEffect ==
  ASSUME Typed, NEW r \in Rows, NEW v \in Versions
  PROVE  /\ \A q \in Rows \ {r} : Patched(r, v)[q] = list[q] /\ Removed(r)[q] = list[q] /\ Listed(r, v)[q] = list[q]
         /\ Patched(r, v)[r].n = list[r].n
         /\ Patched(r, v)[r].ver = (IF list[r].n > 0 THEN v ELSE list[r].ver)
         /\ Removed(r)[r].n = 0 /\ Removed(r)[r].ver = Gone
         /\ Listed(r, v)[r].n = (IF list[r].n = 0 THEN 1 ELSE 2) /\ Listed(r, v)[r].ver = v
<1>1. list \in [Rows -> [n: 0..2, ver: Versions]] /\ list[r] \in [n: 0..2, ver: Versions]
  BY DEF Typed, WellFormed, TypeOK
<1>2. \A q \in Rows \ {r} : Patched(r, v)[q] = list[q] /\ Removed(r)[q] = list[q] /\ Listed(r, v)[q] = list[q]
  BY <1>1 DEF Patched, Removed, Listed
<1>3. /\ Patched(r, v)[r].n = list[r].n
      /\ Patched(r, v)[r].ver = (IF list[r].n > 0 THEN v ELSE list[r].ver)
  BY <1>1 DEF Patched
<1>4. /\ Removed(r)[r].n = 0 /\ Removed(r)[r].ver = Gone
      /\ Listed(r, v)[r].n = (IF list[r].n = 0 THEN 1 ELSE 2) /\ Listed(r, v)[r].ver = v
  BY <1>1 DEF Removed, Listed
<1> QED
  BY <1>2, <1>3, <1>4

LEMMA PressAnswered ==
  ASSUME Typed, NEW c \in Calls, NEW l \in Loads, AnswerPress(c, l)
  PROVE  Answers(c)
<1> DEFINE r == call[c].row
           v == call[c].ver
<1>0. c \in LiveCalls
  BY DEF AnswerPress, LiveCalls
<1>1. /\ Live(c) /\ r \in Rows /\ v \in Versions /\ Answered(c) \in Versions
      /\ call[c].stage = "served" /\ call[c].kind \in {"patch", "remove"}
  BY <1>0, AnsweredTypes DEF AnswerPress, Typed, WellFormed, TypeOK, CallsKnowTheirRow, Call, Live
<1>2. ~Live(c)' /\ \A d \in Calls \ {c} : Same(d)
  BY EndEffect DEF AnswerPress
<1>3. (\A k \in Loads : Lasts(k)) \/ (\E k \in Loads : Begun(k, LiveCalls \ {c}))
  <2>1. LiveCalls \ {c} \in SUBSET Calls
    BY DEF LiveCalls
  <2>2. CASE Begin(l, LiveCalls \ {c})
    BY <2>1, <2>2, BeginEffect
  <2>3. CASE UNCHANGED load
    BY <2>3 DEF Lasts
  <2> QED
    BY <2>2, <2>3 DEF AnswerPress
<1>4. UNCHANGED <<server, crossed>>
  BY DEF AnswerPress
<1>5. /\ Outcome(c) /\ missed \subseteq missed'
      /\ \A q \in Rows \ {r} : list'[q] = list[q] /\ over'[q] = over[q]
  <2>1. CASE list' = Removed(r) /\ UNCHANGED <<over, missed>> /\ call[c].kind = "remove"
    BY <1>1, <2>1, ListEffect DEF Outcome, RowRemoved
  <2>2. CASE list' = Patched(r, Answered(c)) /\ UNCHANGED <<over, missed>> /\ call[c].kind = "patch"
    <3>1. RowPatched(c, r)
      BY <1>1, <2>2, ListEffect DEF RowPatched
    <3> QED
      BY <1>1, <2>2, <3>1, ListEffect DEF Outcome
  <2>3. CASE over' = [over EXCEPT ![r] = v] /\ UNCHANGED <<list, missed>> /\ call[c].kind = "patch"
    BY <1>1, <2>3 DEF Outcome, RowCopied, Typed, WellFormed, TypeOK
  <2>4. CASE missed' = missed \cup {r} /\ UNCHANGED <<list, over>>
    BY <1>1, <2>4 DEF Outcome, RowUnknown
  <2>5. \/ list' = Removed(r) /\ UNCHANGED <<over, missed>> /\ call[c].kind = "remove"
        \/ list' = Patched(r, Answered(c)) /\ UNCHANGED <<over, missed>> /\ call[c].kind = "patch"
        \/ over' = [over EXCEPT ![r] = v] /\ UNCHANGED <<list, missed>> /\ call[c].kind = "patch"
        \/ missed' = missed \cup {r} /\ UNCHANGED <<list, over>>
    BY DEF AnswerPress
  <2> HIDE DEF r, v
  <2> QED
    BY <2>1, <2>2, <2>3, <2>4, <2>5
<1> QED
  BY <1>1, <1>2, <1>3, <1>4, <1>5 DEF Answers

LEMMA CreateAnswered ==
  ASSUME Typed, NEW c \in Calls, AnswerCreate(c)
  PROVE  Answers(c)
<1> DEFINE r == call[c].row
           v == call[c].ver
<1>1. /\ Live(c) /\ r \in Rows /\ v \in Versions /\ call[c] \in Call /\ call \in [Calls -> Call]
      /\ call[c].stage = "served" /\ call[c].kind \in {"create", "photo"}
  BY DEF AnswerCreate, Typed, WellFormed, TypeOK, CallsKnowTheirRow, Call, Live
<1>2. UNCHANGED <<server, crossed, over, missed>> /\ \A k \in Loads : Lasts(k)
  BY DEF AnswerCreate, Lasts
<1>3. CASE call[c].kind = "create" /\ call' = [call EXCEPT ![c] = [call[c] EXCEPT !.kind = "photo", !.stage = "sent"]] /\ UNCHANGED list
  <2>1. /\ call'[c].stage = "sent" /\ call'[c].kind = "photo"
        /\ call'[c].row = call[c].row /\ call'[c].ver = call[c].ver /\ call'[c].base = call[c].base
        /\ \A d \in Calls \ {c} : Same(d)
    BY <1>1, <1>3 DEF Call, Same
  <2> QED
    BY <1>1, <1>2, <1>3, <2>1 DEF Answers, RowAsItWas
<1>4. CASE call' = [call EXCEPT ![c] = NoCall] /\ list' = Listed(r, v)
  <2>1. ~Live(c)' /\ \A d \in Calls \ {c} : Same(d)
    BY <1>4, EndEffect
  <2>2. RowListed(r, v) /\ \A q \in Rows \ {r} : list'[q] = list[q]
    BY <1>1, <1>2, <1>4, ListEffect DEF RowListed
  <2> QED
    BY <1>1, <1>2, <2>1, <2>2 DEF Answers, Outcome
<1> QED
  BY <1>3, <1>4 DEF AnswerCreate

LEMMA SaveAnswered ==
  ASSUME Typed, NEW c \in Calls, AnswerSave(c)
  PROVE  Answers(c)
<1> DEFINE r == call[c].row
           rest == [call EXCEPT ![c] = NoCall]
<1>0. c \in LiveCalls
  BY DEF AnswerSave, LiveCalls
<1>1. /\ Live(c) /\ r \in Rows /\ Answered(c) \in Versions
      /\ call[c].stage = "served" /\ call[c].kind \in {"edit", "password"}
  BY <1>0, AnsweredTypes DEF AnswerSave, Typed, WellFormed, TypeOK, CallsKnowTheirRow, Live
<1>2. UNCHANGED <<server, crossed, over, missed>> /\ \A k \in Loads : Lasts(k)
  BY DEF AnswerSave, Lasts
<1>3. ~Live(c)' /\ \A d \in Calls \ {c} : Same(d)
  <2>1. rest \in [Calls -> Call] /\ rest[c].stage = "idle" /\ \A d \in Calls \ {c} : rest[d] = call[d]
    BY Constants DEF Typed, WellFormed, TypeOK, NoCall
  <2>2. call' = rest \/ call' = Unmounted(rest)
    BY DEF AnswerSave
  <2> HIDE DEF rest
  <2> QED
    BY <2>1, <2>2, UnmountedTypes DEF Same, Live
<1>4. RowPatched(c, r) /\ \A q \in Rows \ {r} : list'[q] = list[q]
  BY <1>1, <1>2, ListEffect DEF RowPatched, AnswerSave
<1> QED
  BY <1>1, <1>2, <1>3, <1>4 DEF Answers, Outcome

LEMMA UploadAnswered ==
  ASSUME Typed, NEW c \in Calls, AnswerUpload(c)
  PROVE  Answers(c)
<1> DEFINE r == call[c].row
<1>1. Live(c) /\ r \in Rows
  BY DEF AnswerUpload, Typed, WellFormed, CallsKnowTheirRow, Live
<1>2. /\ UNCHANGED <<server, list, over, crossed>> /\ missed \subseteq missed' /\ r \in missed'
      /\ \A k \in Loads : Lasts(k)
  BY DEF AnswerUpload, Lasts
<1>3. ~Live(c)' /\ \A d \in Calls \ {c} : Same(d)
  BY EndEffect DEF AnswerUpload
<1>4. Outcome(c)
  BY <1>2 DEF Outcome, RowUnknown
<1> QED
  BY <1>1, <1>2, <1>3, <1>4 DEF Answers

LEMMA CallFailed ==
  ASSUME Typed, NEW c \in Calls, FailCall(c)
  PROVE  Answers(c)
<1> DEFINE r == call[c].row
<1>1. Live(c) /\ r \in Rows /\ call[c] \in Call /\ 1 \in Versions
  BY Bounds DEF FailCall, Typed, WellFormed, TypeOK, CallsKnowTheirRow, Live
<1>2. UNCHANGED <<server, crossed, over>> /\ \A k \in Loads : Lasts(k)
  BY DEF FailCall, Lasts
<1>3. ~Live(c)' /\ \A d \in Calls \ {c} : Same(d)
  BY EndEffect DEF FailCall
<1>4. CASE call[c].kind = "photo"
  <2>1. RowListed(r, 1) /\ \A q \in Rows \ {r} : list'[q] = list[q]
    BY <1>1, <1>2, <1>4, ListEffect DEF RowListed, FailCall
  <2>2. missed \subseteq missed' /\ (call[c].stage = "served" => r \in missed')
    BY DEF FailCall
  <2> QED
    BY <1>1, <1>2, <1>3, <1>4, <2>1, <2>2 DEF Answers, Outcome
<1>5. CASE call[c].kind # "photo"
  <2>1. list' = list /\ missed \subseteq missed'
    BY <1>5 DEF FailCall
  <2>2. RowUnknown(r) \/ (call[c].stage = "sent" /\ RowAsItWas(r))
    BY <1>1, <1>2, <1>5, <2>1 DEF FailCall, RowUnknown, RowAsItWas, Call
  <2> QED
    BY <1>1, <1>2, <1>3, <1>5, <2>1, <2>2 DEF Answers, Outcome
<1> QED
  BY <1>4, <1>5

\* Every step has one of these shapes.
LEMMA Shapes ==
  ASSUME Typed, [Next]_vars
  PROVE  \/ Idles \/ Asks \/ Leaves
         \/ \E l \in Loads : ServeLoad(l) \/ AnswerLoad(l) \/ FailLoad(l)
         \/ \E r \in Rows : Others(r)
         \/ \E c \in Calls : Serve(c) \/ Answers(c)
<1>1. ASSUME NEW l \in Loads, Refresh(l) \/ Choose(l) PROVE Asks
  <2>1. LiveCalls \in SUBSET Calls /\ Begin(l, LiveCalls)
    BY <1>1 DEF Refresh, Choose, LiveCalls
  <2> QED
    BY <1>1, <2>1, BeginEffect DEF Refresh, Choose, Asks, Unseen, Same
<1>2. ASSUME NEW r \in Rows, Open(r) PROVE Idles
  BY <1>2 DEF Open, Idles, Unseen, Same
<1>3. ASSUME Close PROVE Idles
  BY <1>3, UnmountedTypes DEF Close, Idles, Unseen, Same, Typed, WellFormed, TypeOK
<1>4. ASSUME UNCHANGED vars PROVE Idles
  BY <1>4 DEF vars, Idles, Unseen, Same
<1> QED
  BY <1>1, <1>2, <1>3, <1>4, LeavesEffect, PressAnswered, CreateAnswered, SaveAnswered, UploadAnswered,
     CallFailed DEF Next

-----------------------------------------------------------------------------
(* What met what is recorded *)

\* A row is crossed, for a load that is running, as soon as a call on it is in flight;
\* for the screen, as soon as two are; and all rows are for loads that overlap.
Recorded ==
  /\ \A l \in Loads, c \in Calls : Running(l) /\ Live(c) => call[c].row \in load[l].crossed
  /\ \A c, d \in Calls : Live(c) /\ Live(d) /\ c # d /\ call[c].row = call[d].row
                          => call[c].row \in crossed
  /\ \A l, k \in Loads : Running(l) /\ Running(k) /\ l # k => Rows \subseteq load[l].crossed

LEMMA StepRecorded ==
  ASSUME Typed, Recorded, [Next]_vars
  PROVE  Recorded'
<1>0. /\ load \in [Loads -> Load] /\ call \in [Calls -> Call]
      /\ \A c \in Calls : Live(c) => call[c].row \in Rows
  BY DEF Typed, WellFormed, TypeOK, CallsKnowTheirRow, Live
<1>1. CASE Idles
  BY <1>1 DEF Idles, Same, Recorded, Live, Running
<1>2. CASE Asks
  <2>1. PICK l \in Loads : Begun(l, LiveCalls)
    BY <1>2 DEF Asks
  <2>2. /\ \A d \in Calls : Same(d)
        /\ crossed' = crossed
        /\ \A d \in Calls : Live(d) => call[d].row \in load'[l].crossed
    BY <1>2, <2>1 DEF Asks, Begun, LiveCalls, Live
  <2> QED
    BY <1>0, <2>1, <2>2 DEF Begun, Lasts, Same, Recorded, Live, Running
<1>3. CASE Leaves
  <2>1. PICK c \in Calls, r \in Rows, kind \in SentKinds, base \in Versions : Left(c, kind, r, base)
    BY <1>3 DEF Leaves
  <2>2. \A d \in Calls \ {c} : Live(d)' => Live(d) /\ call'[d].row = call[d].row
    BY <2>1 DEF Left, Same, Live
  <2>3. \A k \in Loads : Running(k)' => /\ Running(k) /\ load[k].crossed \subseteq load'[k].crossed
                                        /\ r \in load'[k].crossed
    BY <2>1 DEF Left, Lasts, Running
  <2>4. call'[c].row = r
    BY <2>1 DEF Left
  <2>5. \A k \in Loads, d \in Calls : Running(k)' /\ Live(d)' => call'[d].row \in load'[k].crossed
    BY <2>2, <2>3, <2>4 DEF Recorded
  <2>6. \A d \in Calls \ {c} : Live(d)' /\ call'[d].row = r => r \in crossed'
    BY <2>1, <2>2 DEF Left
  <2>7. crossed \subseteq crossed'
    BY <2>1 DEF Left
  <2>8. \A d, e \in Calls : Live(d)' /\ Live(e)' /\ d # e /\ call'[d].row = call'[e].row
                             => call'[d].row \in crossed'
    BY <2>2, <2>4, <2>6, <2>7 DEF Recorded
  <2>9. \A l, k \in Loads : Running(l)' /\ Running(k)' /\ l # k => Rows \subseteq load'[l].crossed
    BY <2>3 DEF Recorded
  <2> QED
    BY <2>5, <2>8, <2>9 DEF Recorded, Live, Running
<1>4. ASSUME NEW l \in Loads, ServeLoad(l) PROVE Recorded'
  <2>1. \A k \in Loads : /\ Running(k)' => Running(k)
                         /\ load'[k].crossed = load[k].crossed
    BY <1>0, <1>4 DEF ServeLoad, Running, Load
  <2> QED
    BY <1>4, <2>1 DEF ServeLoad, Recorded, Live, Running
<1>5. ASSUME NEW l \in Loads, AnswerLoad(l) \/ FailLoad(l) PROVE Recorded'
  <2>1. \A k \in Loads : Running(k)' => Running(k) /\ load'[k] = load[k]
    BY <1>0, <1>5 DEF AnswerLoad, FailLoad, Running, Idle
  <2>2. UNCHANGED call
    BY <1>5 DEF AnswerLoad, FailLoad
  <2>3. \/ crossed' = load[l].crossed /\ Running(l)
        \/ crossed' = crossed
    BY <1>5 DEF AnswerLoad, FailLoad, Running
  <2>4. \A c, d \in Calls : Live(c) /\ Live(d) /\ c # d /\ call[c].row = call[d].row
                           => call[c].row \in crossed'
    BY <2>3 DEF Recorded
  <2> QED
    BY <2>1, <2>2, <2>4 DEF Recorded, Live, Running
<1>6. ASSUME NEW r \in Rows, Others(r) PROVE Recorded'
  <2>1. \A k \in Loads : load'[k].stage = load[k].stage /\ load'[k].crossed = load[k].crossed
    BY <1>0, <1>6 DEF Others, Load
  <2> QED
    BY <1>6, <2>1 DEF Others, Recorded, Live, Running
<1>7. ASSUME NEW c \in Calls, Serve(c) PROVE Recorded'
  <2>1. /\ Live(c)
        /\ \A d \in Calls : /\ Live(d)' => Live(d)
                            /\ call'[d].row = call[d].row
    BY <1>0, <1>7 DEF Serve, Live, Call
  <2>2. UNCHANGED <<load, crossed>>
    BY <1>7 DEF Serve
  <2>3. \A d, e \in Calls : Live(d)' /\ Live(e)' /\ d # e /\ call'[d].row = call'[e].row
                             => call'[d].row \in crossed'
    BY <2>1, <2>2 DEF Recorded
  <2>4. \A l \in Loads, d \in Calls : Running(l)' /\ Live(d)' => call'[d].row \in load'[l].crossed
    BY <2>1, <2>2 DEF Recorded, Running
  <2>5. \A l, k \in Loads : Running(l)' /\ Running(k)' /\ l # k => Rows \subseteq load'[l].crossed
    BY <2>2 DEF Recorded, Running
  <2> QED
    BY <2>3, <2>4, <2>5 DEF Recorded, Live, Running
<1>8. ASSUME NEW c \in Calls, Answers(c) PROVE Recorded'
  <2>1. \A d \in Calls : Live(d)' => Live(d) /\ call'[d].row = call[d].row
    BY <1>8 DEF Answers, Same, Live
  <2>2. crossed' = crossed
    BY <1>8 DEF Answers
  <2>3. \A d, e \in Calls : Live(d)' /\ Live(e)' /\ d # e /\ call'[d].row = call'[e].row
                             => call'[d].row \in crossed'
    BY <2>1, <2>2 DEF Recorded
  <2>4. CASE \A k \in Loads : Lasts(k)
    <3>1. \A k \in Loads : Running(k)' => Running(k) /\ load[k].crossed \subseteq load'[k].crossed
      BY <2>4 DEF Lasts, Running
    <3> QED
      BY <2>1, <2>3, <3>1 DEF Recorded, Live, Running
  <2>5. CASE /\ ~Live(c)'
             /\ \E l \in Loads : Begun(l, LiveCalls \ {c})
    <3>1. PICK l \in Loads : Begun(l, LiveCalls \ {c})
      BY <2>5
    <3>2. \A d \in Calls : Live(d)' => d \in LiveCalls \ {c}
      BY <2>1, <2>5 DEF LiveCalls, Live
    <3>3. \A d \in Calls : Live(d)' => call'[d].row \in load'[l].crossed
      BY <2>1, <3>1, <3>2 DEF Begun
    <3>4. \A k \in Loads \ {l} : Running(k)' => /\ Running(k) /\ load[k].crossed \subseteq load'[k].crossed
                                                /\ Rows \subseteq load'[k].crossed \cap load'[l].crossed
      BY <3>1 DEF Begun, Lasts, Running
    <3> QED
      BY <2>1, <2>3, <3>3, <3>4 DEF Recorded, Live, Running
  <2> QED
    BY <1>8, <2>4, <2>5 DEF Answers
<1> QED
  BY <1>1, <1>2, <1>3, <1>4, <1>5, <1>6, <1>7, <1>8, Shapes

-----------------------------------------------------------------------------
(* Versions only grow *)

\* The version that a call was answered with.
Numbered ==
  \A c \in Calls :
    /\ call[c].stage = "served" => 1 <= call[c].ver
    /\ call[c].stage = "served" /\ call[c].kind = "create" => call[c].ver = 1
    /\ call[c].stage = "sent" /\ call[c].kind = "photo" => call[c].ver = 1
    /\ call[c].stage = "served" /\ call[c].kind = "remove" => call[c].ver = Gone

\* Nothing is ahead of the database.
NothingAhead ==
  /\ \A r \in Rows : list[r].ver <= server[r] /\ over[r] <= server[r]
  /\ \A l \in Loads, r \in Rows : load[l].stage = "served" => load[l].snap[r] <= server[r]
  /\ \A c \in Calls : Live(c) => /\ call[c].ver <= server[call[c].row]
                                /\ call[c].base <= server[call[c].row]

\* The modal's copy is not ahead of the database either.
FormNotAhead == editor.row \in Rows => editor.ver <= server[editor.row]

\* What is on its way to the screen is not behind it, unless it crossed something.
NothingBehind ==
  /\ \A l \in Loads, r \in Rows :
       load[l].stage = "served" /\ r \notin load[l].crossed => list[r].ver <= load[l].snap[r]
  /\ \A c \in Calls :
       Live(c) /\ call[c].row \notin crossed =>
         /\ call[c].stage = "served" => /\ list[call[c].row].ver <= call[c].ver
                                        /\ over[call[c].row] <= call[c].ver
         /\ call[c].kind = "photo" => list[call[c].row].ver <= 1
         /\ Copies(c) => list[call[c].row].ver <= call[c].base

LEMMA Numbers ==
  ASSUME Typed
  PROVE  /\ \A r \in Rows : /\ list[r].ver \in Nat /\ list[r].n \in 0..2
                            /\ over[r] \in Nat /\ server[r] \in 0..Gone
         /\ \A l \in Loads, r \in Rows : load[l].snap[r] \in Nat
         /\ \A c \in Calls : call[c].ver \in Nat /\ call[c].base \in Nat
         /\ editor.ver \in Nat
         /\ \A c \in Calls : Live(c) => call[c].row \in Rows
         /\ \A c \in Calls : call[c].stage \in {"idle", "sent", "served"}
         /\ Gone \in Nat /\ Gone = MaxVer + 1 /\ MaxVer \in Nat /\ MaxVer >= 1
<1>1. \A v \in Versions : v \in 0..Gone /\ v \in Nat
  BY Bounds DEF Versions
<1>2. \A r \in Rows : /\ list[r] \in [n: 0..2, ver: Versions] /\ over[r] \in Versions
                      /\ server[r] \in Versions
  BY DEF Typed, WellFormed, TypeOK
<1>3. \A l \in Loads : load[l].snap \in [Rows -> Versions]
  BY DEF Typed, WellFormed, TypeOK, Load
<1>4. \A c \in Calls : call[c] \in Call
  BY DEF Typed, WellFormed, TypeOK
<1>5. \A c \in Calls : Live(c) => call[c].row \in Rows
  BY DEF Typed, WellFormed, CallsKnowTheirRow, Live
<1>6. \A c \in Calls : /\ call[c].ver \in Versions /\ call[c].base \in Versions
                       /\ call[c].stage \in {"idle", "sent", "served"}
  BY <1>4 DEF Call
<1>10. editor.ver \in Versions
  BY DEF Typed, WellFormed, TypeOK, Editor
<1>7. Gone \in Nat /\ Gone = MaxVer + 1 /\ MaxVer \in Nat /\ MaxVer >= 1
  BY Bounds DEF Gone
<1>8. \A r \in Rows : list[r].ver \in Nat /\ list[r].n \in 0..2 /\ over[r] \in Nat /\ server[r] \in 0..Gone
  BY <1>1, <1>2
<1>9. \A l \in Loads, r \in Rows : load[l].snap[r] \in Nat
  BY <1>1, <1>3
<1> QED
  BY <1>1, <1>5, <1>6, <1>7, <1>8, <1>9, <1>10

\* A call that the API carries out, field by field.
LEMMA ServeEffect ==
  ASSUME Typed, NEW c \in Calls, Serve(c)
  PROVE  LET r == call[c].row IN
         /\ call[c].stage = "sent" /\ r \in Rows
         /\ call'[c].stage = "served" /\ call'[c].kind = call[c].kind /\ call'[c].row = r
         /\ call'[c].ver = server'[r] /\ call'[c].base = call[c].base
         /\ server'[r] = (IF call[c].kind = "remove" THEN Gone ELSE server[r] + 1)
         /\ server[r] <= server'[r]
         /\ call[c].kind # "remove" => server'[r] <= MaxVer
         /\ IF call[c].kind = "create" THEN server[r] = 0 ELSE Exists(r)
         /\ \A d \in Calls \ {c} : Same(d)
         /\ \A q \in Rows \ {r} : server'[q] = server[q]
<1>1. call \in [Calls -> Call] /\ call[c] \in Call /\ server \in [Rows -> Versions]
  BY DEF Typed, WellFormed, TypeOK
<1>2. call[c].stage = "sent" /\ call[c].row \in Rows
  BY DEF Serve, Typed, WellFormed, CallsKnowTheirRow
<1>3. server[call[c].row] \in 0..Gone /\ Gone \in Nat
  BY <1>2, Numbers
<1>4. server' = [server EXCEPT ![call[c].row] =
                   IF call[c].kind = "remove" THEN Gone ELSE server[call[c].row] + 1]
  BY DEF Serve
<1>5. call' = [call EXCEPT ![c] = [call[c] EXCEPT !.stage = "served", !.ver =
                   IF call[c].kind = "remove" THEN Gone ELSE server[call[c].row] + 1]]
  BY DEF Serve
<1>6. /\ server'[call[c].row] = (IF call[c].kind = "remove" THEN Gone ELSE server[call[c].row] + 1)
      /\ \A q \in Rows \ {call[c].row} : server'[q] = server[q]
  BY <1>1, <1>2, <1>4
<1>7. /\ call'[c].stage = "served" /\ call'[c].kind = call[c].kind /\ call'[c].row = call[c].row
      /\ call'[c].ver = server'[call[c].row] /\ call'[c].base = call[c].base
  BY <1>1, <1>5, <1>6 DEF Call
<1>8. \A d \in Calls \ {c} : Same(d)
  BY <1>1, <1>5 DEF Same
<1>9. server[call[c].row] <= server'[call[c].row]
  BY <1>3, <1>6
<1>10. /\ call[c].kind # "remove" => server'[call[c].row] <= MaxVer
       /\ IF call[c].kind = "create" THEN server[call[c].row] = 0 ELSE Exists(call[c].row)
  BY <1>6 DEF Serve
<1> QED
  BY <1>2, <1>6, <1>7, <1>8, <1>9, <1>10

LEMMA StepNumbered ==
  ASSUME Typed, Numbered, [Next]_vars
  PROVE  Numbered'
<1>1. CASE Idles
  BY <1>1 DEF Idles, Same, Numbered
<1>2. CASE Asks
  BY <1>2 DEF Asks, Same, Numbered
<1>3. CASE Leaves
  <2>1. PICK c \in Calls, r \in Rows, kind \in SentKinds, base \in Versions : Left(c, kind, r, base)
    BY <1>3 DEF Leaves
  <2> QED
    BY <2>1 DEF Left, Same, Numbered, SentKinds, FormKinds
<1>4. ASSUME NEW l \in Loads, ServeLoad(l) \/ AnswerLoad(l) \/ FailLoad(l) PROVE Numbered'
  BY <1>4 DEF ServeLoad, AnswerLoad, FailLoad, Numbered
<1>5. ASSUME NEW r \in Rows, Others(r) PROVE Numbered'
  BY <1>5 DEF Others, Numbered
<1>6. ASSUME NEW c \in Calls, Serve(c) PROVE Numbered'
  <2>1. /\ 1 <= call'[c].ver
        /\ call[c].kind = "create" => call'[c].ver = 1
        /\ call[c].kind = "remove" => call'[c].ver = Gone
    BY <1>6, ServeEffect, Numbers DEF Exists
  <2> QED
    BY <1>6, <2>1, ServeEffect DEF Same, Numbered
<1>7. ASSUME NEW c \in Calls, Answers(c) PROVE Numbered'
  <2>1. \A d \in Calls \ {c} : Same(d)
    BY <1>7 DEF Answers
  <2>2. CASE ~Live(c)'
    BY <2>1, <2>2 DEF Same, Numbered, Live
  <2>3. CASE /\ call[c].stage = "served" /\ call[c].kind = "create"
             /\ call'[c].stage = "sent" /\ call'[c].kind = "photo" /\ call'[c].ver = call[c].ver
    BY <2>1, <2>3 DEF Same, Numbered
  <2> QED
    BY <1>7, <2>2, <2>3 DEF Answers
<1> QED
  BY <1>1, <1>2, <1>3, <1>4, <1>5, <1>6, <1>7, Shapes

\* The versions that the end of a call may write.
LEMMA AnswerVersions ==
  ASSUME Typed, Numbered, NEW c \in Calls, Answers(c)
  PROVE  LET r == call[c].row
             v == call[c].ver IN
         /\ \/ list'[r].ver = list[r].ver
            \/ call[c].stage = "served" /\ list'[r].ver = v
            \/ call[c].kind = "photo" /\ list'[r].ver = 1 /\ 1 <= v
            \/ Copies(c) /\ list'[r].ver = call[c].base
         /\ \/ over'[r] = over[r]
            \/ call[c].stage = "served" /\ over'[r] = v
<1>1. CASE ~Live(c)' /\ Outcome(c)
  <2>1. CASE RowUnknown(call[c].row) \/ RowAsItWas(call[c].row)
    BY <2>1 DEF RowUnknown, RowAsItWas
  <2>2. CASE call[c].stage = "served" /\ call[c].kind = "remove" /\ RowRemoved(call[c].row)
    BY <2>2 DEF RowRemoved, Numbered
  <2>3. CASE call[c].stage = "served" /\ call[c].kind \in {"patch", "edit", "password"} /\ RowPatched(c, call[c].row)
    BY <2>3 DEF RowPatched, Answered, Copies
  <2>4. CASE call[c].stage = "served" /\ RowCopied(call[c].row, call[c].ver)
    BY <2>4 DEF RowCopied
  <2>5. CASE call[c].stage = "served" /\ RowListed(call[c].row, call[c].ver)
    BY <2>5 DEF RowListed
  <2>6. CASE call[c].kind = "photo" /\ RowListed(call[c].row, 1)
    <3>1. call[c].stage \in {"sent", "served"} /\ call[c].ver \in Nat
      BY <1>1, Numbers DEF Answers, Live
    <3>2. 1 <= call[c].ver
      BY <2>6, <3>1 DEF Numbered
    <3> QED
      BY <2>6, <3>2 DEF RowListed
  <2> QED
    BY <1>1, <2>1, <2>2, <2>3, <2>4, <2>5, <2>6 DEF Outcome
<1>2. CASE RowAsItWas(call[c].row)
  BY <1>2 DEF RowAsItWas
<1> QED
  BY <1>1, <1>2 DEF Answers

\* Loads that a step neither starts nor serves read what they had read.
Unread == \A l \in Loads : load'[l].stage = "served" =>
            /\ load[l].stage = "served" /\ load'[l].snap = load[l].snap
            /\ load'[l].missed = load[l].missed /\ load[l].crossed \subseteq load'[l].crossed

LEMMA StepUnread ==
  ASSUME Typed, Idles \/ Asks \/ Leaves \/ \E c \in Calls : Answers(c)
  PROVE  Unread
<1>1. ASSUME NEW l \in Loads, NEW cs, Begun(l, cs) PROVE Unread
  BY <1>1 DEF Begun, Lasts, Running, Unread
<1>2. ASSUME \A l \in Loads : Lasts(l) PROVE Unread
  BY <1>2 DEF Lasts, Running, Unread
<1>3. CASE Idles
  BY <1>3 DEF Idles, Unread
<1>4. CASE Asks
  BY <1>1, <1>4 DEF Asks
<1>5. CASE Leaves
  BY <1>2, <1>5 DEF Leaves, Left
<1>6. ASSUME NEW c \in Calls, Answers(c) PROVE Unread
  BY <1>1, <1>2, <1>6 DEF Answers
<1> QED
  BY <1>3, <1>4, <1>5, <1>6

LEMMA StepAhead ==
  ASSUME Typed, Numbered, NothingAhead, FormNotAhead, [Next]_vars
  PROVE  NothingAhead'
<1>0. /\ \A r \in Rows : server[r] \in 0..Gone /\ Gone \in Nat
      /\ \A c \in Calls : Live(c) => call[c].row \in Rows
      /\ \A c \in Calls : call[c].ver \in Nat /\ call[c].base \in Nat
      /\ \A r \in Rows : list[r].ver \in Nat /\ over[r] \in Nat
      /\ \A l \in Loads, r \in Rows : load[l].snap[r] \in Nat
  BY Numbers
<1>1. CASE Idles
  <2>1. Unread
    BY <1>1, StepUnread
  <2> QED
    BY <1>1, <2>1 DEF Idles, Unseen, Same, Unread, NothingAhead, Live
<1>2. CASE Asks
  <2>1. Unread
    BY <1>2, StepUnread
  <2> QED
    BY <1>2, <2>1 DEF Asks, Unseen, Same, Unread, NothingAhead, Live
<1>3. CASE Leaves
  <2>1. Unread /\ Unseen
    BY <1>3, StepUnread DEF Leaves
  <2>2. \A c \in Calls : Live(c)' => /\ call'[c].ver <= server'[call'[c].row]
                                    /\ call'[c].base <= server'[call'[c].row]
    <3>1. PICK c \in Calls, r \in Rows, kind \in SentKinds, base \in Versions :
            Left(c, kind, r, base) /\ (base = list[r].ver \/ (editor.row = r /\ base = editor.ver))
      BY <1>3 DEF Leaves
    <3>2. base <= server[r]
      BY <3>1 DEF NothingAhead, FormNotAhead
    <3>3. call'[c].row = r /\ call'[c].ver = 0 /\ (call'[c].base = base \/ call'[c].base = 0)
      BY <3>1 DEF Left
    <3>4. call'[c].ver <= server'[call'[c].row] /\ call'[c].base <= server'[call'[c].row]
      BY <1>0, <2>1, <3>2, <3>3 DEF Unseen
    <3>5. \A d \in Calls \ {c} : Same(d)
      BY <3>1 DEF Left
    <3> QED
      BY <2>1, <3>4, <3>5 DEF Unseen, Same, Live, NothingAhead
  <2> QED
    BY <2>1, <2>2 DEF Unseen, Unread, NothingAhead, Live
<1>4. ASSUME NEW l \in Loads, ServeLoad(l) PROVE NothingAhead'
  <2>1. \A k \in Loads : load'[k].stage = "served" =>
          load'[k].snap = server \/ load'[k] = load[k]
    BY <1>4 DEF ServeLoad, Typed, WellFormed, TypeOK, Load
  <2>2. \A k \in Loads, r \in Rows : load'[k].stage = "served" => load'[k].snap[r] <= server[r]
    BY <1>0, <2>1 DEF NothingAhead
  <2> QED
    BY <1>4, <2>2 DEF ServeLoad, NothingAhead, Live
<1>5. ASSUME NEW l \in Loads, AnswerLoad(l) \/ FailLoad(l) PROVE NothingAhead'
  <2>1. \A k \in Loads : load'[k].stage = "served" => load'[k] = load[k]
    BY <1>5, Constants DEF AnswerLoad, FailLoad, Typed, WellFormed, TypeOK, Idle
  <2>2. \A r \in Rows : list'[r].ver = list[r].ver \/ (load[l].stage = "served" /\ list'[r].ver = load[l].snap[r])
    BY <1>5 DEF AnswerLoad, FailLoad, Typed, WellFormed, TypeOK
  <2>3. UNCHANGED <<server, over, call>>
    BY <1>5 DEF AnswerLoad, FailLoad
  <2> QED
    BY <2>1, <2>2, <2>3 DEF NothingAhead, Live
<1>6. ASSUME NEW r \in Rows, Others(r) PROVE NothingAhead'
  <2>1. \A q \in Rows : server[q] <= server'[q] /\ server'[q] \in Nat
    BY <1>0, <1>6 DEF Others, Typed, WellFormed, TypeOK
  <2>2. \A k \in Loads : load'[k].stage = load[k].stage /\ load'[k].snap = load[k].snap
    BY <1>6 DEF Others, Typed, WellFormed, TypeOK, Load
  <2>3. UNCHANGED <<list, over, call>>
    BY <1>6 DEF Others
  <2>4. \A q \in Rows : list'[q].ver <= server'[q] /\ over'[q] <= server'[q]
    BY <1>0, <2>1, <2>3 DEF NothingAhead
  <2>5. \A k \in Loads, q \in Rows : load'[k].stage = "served" => load'[k].snap[q] <= server'[q]
    BY <1>0, <2>1, <2>2 DEF NothingAhead
  <2>6. \A c \in Calls : Live(c) => /\ call[c].ver <= server'[call[c].row]
                                   /\ call[c].base <= server'[call[c].row]
    BY <1>0, <2>1 DEF NothingAhead
  <2> QED
    BY <2>3, <2>4, <2>5, <2>6 DEF NothingAhead, Live
<1>7. ASSUME NEW c \in Calls, Serve(c) PROVE NothingAhead'
  <2>1. \A q \in Rows : server[q] <= server'[q] /\ server'[q] \in Nat
    BY <1>0, <1>7, ServeEffect
  <2>2. UNCHANGED <<list, over, load>>
    BY <1>7 DEF Serve
  <2>3. \A q \in Rows : list'[q].ver <= server'[q] /\ over'[q] <= server'[q]
    BY <1>0, <2>1, <2>2 DEF NothingAhead
  <2>4. \A k \in Loads, q \in Rows : load'[k].stage = "served" => load'[k].snap[q] <= server'[q]
    BY <1>0, <2>1, <2>2 DEF NothingAhead
  <2>5. call'[c].ver <= server'[call'[c].row] /\ call'[c].base <= server'[call'[c].row]
    <3>1. Live(c) /\ call'[c].base = call[c].base
      BY <1>7, ServeEffect DEF Live
    <3> QED
      BY <1>0, <1>7, <2>1, <3>1, ServeEffect DEF NothingAhead
  <2>6. \A d \in Calls \ {c} : Live(d)' => /\ call'[d].ver <= server'[call'[d].row]
                                          /\ call'[d].base <= server'[call'[d].row]
    BY <1>0, <1>7, <2>1, ServeEffect DEF Same, Live, NothingAhead
  <2> QED
    BY <2>3, <2>4, <2>5, <2>6 DEF NothingAhead, Live
<1>8. ASSUME NEW c \in Calls, Answers(c) PROVE NothingAhead'
  <2>1. Unread
    BY <1>8, StepUnread
  <2>2. \A q \in Rows \ {call[c].row} : list'[q] = list[q] /\ over'[q] = over[q]
    BY <1>8 DEF Answers
  <2>3. /\ Live(c) /\ call[c].row \in Rows /\ server' = server
        /\ call[c].ver <= server[call[c].row] /\ call[c].base <= server[call[c].row]
    BY <1>8 DEF Answers, NothingAhead
  <2>4. list'[call[c].row].ver <= server[call[c].row] /\ over'[call[c].row] <= server[call[c].row]
    BY <1>0, <1>8, <2>3, AnswerVersions DEF NothingAhead
  <2>5. \A d \in Calls : Live(d)' => /\ Live(d) /\ call'[d].row = call[d].row
                                    /\ call'[d].ver = call[d].ver /\ call'[d].base = call[d].base
    BY <1>8 DEF Answers, Same, Live
  <2> QED
    BY <2>1, <2>2, <2>3, <2>4, <2>5 DEF NothingAhead, Unread, Live
<1> QED
  BY <1>1, <1>2, <1>3, <1>4, <1>5, <1>6, <1>7, <1>8, Shapes

\* The modal's copy comes from the list, or from an answer.
LEMMA StepFormNotAhead ==
  ASSUME Typed, NothingAhead, FormNotAhead, [Next]_vars
  PROVE  FormNotAhead'
<1>0. /\ editor \in Editor /\ call \in [Calls -> Call]
      /\ \A r \in Rows : server[r] \in Nat
      /\ \A c \in Calls : call[c].ver \in Nat /\ call[c].base \in Nat
  BY Numbers DEF Typed, WellFormed, TypeOK
<1>1. \A r \in Rows : server[r] <= server'[r] /\ server'[r] \in Nat
  <2>1. CASE server' = server
    BY <1>0, <2>1
  <2>2. ASSUME NEW r \in Rows, Others(r) PROVE \A q \in Rows : server[q] <= server'[q] /\ server'[q] \in Nat
    BY <1>0, <2>2 DEF Others, Typed, WellFormed, TypeOK
  <2>3. ASSUME NEW c \in Calls, Serve(c) PROVE \A q \in Rows : server[q] <= server'[q] /\ server'[q] \in Nat
    BY <1>0, <2>3, ServeEffect, Numbers
  <2> QED
    BY <2>1, <2>2, <2>3, Shapes DEF Idles, Asks, Leaves, Unseen, Answers, ServeLoad, AnswerLoad, FailLoad
<1>2. \A r \in Rows : list[r].ver <= server[r]
  BY DEF NothingAhead
<1>3. ASSUME NEW c \in Calls, call[c].stage = "served"
      PROVE  call[c].row \in Rows /\ call[c].ver <= server[call[c].row] /\ Answered(c) <= server[call[c].row]
  BY <1>2, <1>3, Numbers DEF Answered, NothingAhead, Live
<1>4. CASE editor'.row = editor.row /\ editor'.ver = editor.ver
  BY <1>0, <1>1, <1>4, Numbers DEF FormNotAhead
<1>5. ASSUME NEW r \in Rows, editor'.row = r, editor'.ver <= server[r], editor'.ver \in Nat
      PROVE  FormNotAhead'
  BY <1>0, <1>1, <1>5 DEF FormNotAhead
<1>6. CASE editor' = editor \/ editor' = Closed
  BY <1>4, <1>6, Bounds DEF FormNotAhead, Closed
<1>7. ASSUME NEW r \in Rows, Open(r) PROVE FormNotAhead'
  <2>1. editor'.row = r /\ editor'.ver = list[r].ver
    BY <1>7 DEF Open
  <2> QED
    BY <1>2, <1>5, <2>1, Numbers
<1>8. ASSUME NEW c \in Calls, NEW r \in Rows, NEW kind \in FormKinds, Submit(c, r, kind)
      PROVE  FormNotAhead'
  BY <1>0, <1>4, <1>8 DEF Submit, Editor
<1>9. ASSUME NEW c \in Calls, AnswerSave(c) PROVE FormNotAhead'
  <2>1. /\ editor' = After(c) /\ c \in LiveCalls /\ call[c].stage = "served"
        /\ Answered(c) \in Nat
    BY <1>9, AnsweredTypes, Bounds DEF AnswerSave, LiveCalls, Versions
  <2>2. \/ After(c) = Closed
        \/ After(c).row = editor.row /\ After(c).ver = editor.ver
        \/ After(c).row = call[c].row /\ After(c).ver = Answered(c)
    <3> DEFINE e == Shown(c)
    <3>1. e = editor \/ (e \in Editor /\ e.row = call[c].row /\ e.ver = Answered(c))
      <4>1. Answered(c) \in Versions /\ call[c].row \in Rows
        BY <1>3, <2>1, AnsweredTypes
      <4>2. Followed(call[c].row, Answered(c)) \in Editor
        BY <1>0, <4>1 DEF Followed, Editor
      <4>3. /\ Followed(call[c].row, Answered(c)).row = call[c].row
            /\ Followed(call[c].row, Answered(c)).ver = Answered(c)
        BY <1>0 DEF Followed, Editor
      <4> QED
        BY <4>2, <4>3 DEF Shown
    <3>2. e \in Editor
      BY <1>0, <3>1
    <3>3. After(c) = Closed \/ (After(c).row = e.row /\ After(c).ver = e.ver)
      BY <3>2 DEF After, Editor
    <3> HIDE DEF e
    <3> QED
      BY <3>1, <3>3
  <2> QED
    BY <1>3, <1>4, <1>5, <1>6, <2>1, <2>2
<1>10. ASSUME NEW c \in Calls, AnswerUpload(c) PROVE FormNotAhead'
  <2>1. /\ editor' = editor \/ editor.row = call[c].row
        /\ editor'.row = editor.row /\ (editor'.ver = editor.ver \/ editor'.ver = call[c].ver)
    BY <1>0, <1>10 DEF AnswerUpload, Editor, Typed, UploadsKnowTheirForm
  <2>2. call[c].stage = "served"
    BY <1>10 DEF AnswerUpload
  <2> QED
    BY <1>0, <1>3, <1>4, <1>5, <1>6, <2>1, <2>2
<1>11. ASSUME NEW c \in Calls, FailCall(c) PROVE FormNotAhead'
  BY <1>0, <1>4, <1>11 DEF FailCall, Editor
<1> QED
  BY <1>6, <1>7, <1>8, <1>9, <1>10, <1>11
  DEF Next, vars, Refresh, Choose, ServeLoad, AnswerLoad, FailLoad, Others, Close,
      Create, Save, Press, Serve, AnswerCreate, AnswerPress

LEMMA StepBehind ==
  ASSUME Typed, Recorded, Numbered, NothingAhead, NothingBehind, [Next]_vars
  PROVE  NothingBehind'
<1>10. \A c \in Calls : call'[c].kind = call[c].kind => (Copies(c)' <=> Copies(c))
  BY StepKeepsScreen DEF Copies, Lists
<1>0. /\ \A r \in Rows : server[r] \in 0..Gone /\ Gone \in Nat
      /\ \A c \in Calls : Live(c) => call[c].row \in Rows
      /\ \A c \in Calls : call[c].ver \in Nat /\ call[c].base \in Nat
      /\ \A r \in Rows : list[r].ver \in Nat /\ over[r] \in Nat
      /\ \A l \in Loads, r \in Rows : load[l].snap[r] \in Nat
  BY Numbers
<1>1. CASE Idles
  <2>1. Unread
    BY <1>1, StepUnread
  <2> QED
    BY <1>1, <1>10, <2>1 DEF Idles, Unseen, Same, Unread, NothingBehind, Live
<1>2. CASE Asks
  <2>1. Unread
    BY <1>2, StepUnread
  <2> QED
    BY <1>2, <1>10, <2>1 DEF Asks, Unseen, Same, Unread, NothingBehind, Live
<1>3. CASE Leaves
  <2>1. Unread /\ Unseen
    BY <1>3, StepUnread DEF Leaves
  <2>2. PICK c \in Calls, r \in Rows, kind \in SentKinds, base \in Versions : Left(c, kind, r, base)
    BY <1>3 DEF Leaves
  <2>3. /\ call'[c].stage = "sent" /\ call'[c].kind # "photo" /\ crossed \subseteq crossed'
        /\ \A d \in Calls \ {c} : Same(d)
    BY <2>2 DEF Left, SentKinds, FormKinds
  <2>4. call'[c].row \notin crossed' /\ Copies(c)' => list[call'[c].row].ver <= call'[c].base
    BY <2>2, StepKeepsScreen DEF Left, Copies, Lists
  <2>5. \A d \in Calls : Live(d)' /\ call'[d].row \notin crossed' =>
          /\ call'[d].stage = "served" => /\ list'[call'[d].row].ver <= call'[d].ver
                                          /\ over'[call'[d].row] <= call'[d].ver
          /\ call'[d].kind = "photo" => list'[call'[d].row].ver <= 1
          /\ Copies(d)' => list'[call'[d].row].ver <= call'[d].base
    <3>1. \A d \in Calls \ {c} : Live(d)' /\ call'[d].row \notin crossed' =>
            Live(d) /\ call[d].row \notin crossed /\ Same(d) /\ (Copies(d)' <=> Copies(d))
      BY <1>10, <2>3 DEF Same, Live
    <3> QED
      BY <2>1, <2>3, <2>4, <3>1 DEF Unseen, Same, NothingBehind
  <2>6. \A l \in Loads, q \in Rows :
          load'[l].stage = "served" /\ q \notin load'[l].crossed => list'[q].ver <= load'[l].snap[q]
    BY <2>1 DEF Unseen, Unread, NothingBehind
  <2> QED
    BY <2>5, <2>6 DEF NothingBehind, Live
<1>4. ASSUME NEW l \in Loads, ServeLoad(l) PROVE NothingBehind'
  <2>1. \A k \in Loads : load'[k].stage = "served" =>
          load'[k].snap = server \/ load'[k] = load[k]
    BY <1>4 DEF ServeLoad, Typed, WellFormed, TypeOK, Load
  <2>2. UNCHANGED <<list, over, call, crossed>>
    BY <1>4 DEF ServeLoad
  <2>3. \A k \in Loads, r \in Rows :
          load'[k].stage = "served" /\ r \notin load'[k].crossed => list[r].ver <= load'[k].snap[r]
    BY <2>1 DEF NothingBehind, NothingAhead
  <2> QED
    BY <1>10, <2>2, <2>3 DEF NothingBehind, Live
<1>5. ASSUME NEW l \in Loads, AnswerLoad(l) PROVE NothingBehind'
  <2>1. \A k \in Loads : load'[k].stage = "served" => load'[k] = load[k] /\ k # l /\ Running(k)
    BY <1>5, Constants DEF AnswerLoad, Typed, WellFormed, TypeOK, Idle, Running
  <2>2. Running(l) /\ crossed' = load[l].crossed /\ UNCHANGED <<call, over>>
    BY <1>5 DEF AnswerLoad, Running
  <2>3. \A k \in Loads : load'[k].stage = "served" => Rows \subseteq load'[k].crossed
    BY <2>1, <2>2 DEF Recorded
  <2>4. \A c \in Calls : Live(c) => call[c].row \in crossed'
    BY <2>2 DEF Recorded
  <2> QED
    BY <1>10, <2>2, <2>3, <2>4 DEF NothingBehind, Live
<1>6. ASSUME NEW l \in Loads, FailLoad(l) PROVE NothingBehind'
  <2>1. \A k \in Loads : load'[k].stage = "served" => load'[k] = load[k]
    BY <1>6, Constants DEF FailLoad, Typed, WellFormed, TypeOK, Idle
  <2>2. \A r \in Rows : list'[r].ver = list[r].ver
    BY <1>6 DEF FailLoad, Typed, WellFormed, TypeOK
  <2>3. UNCHANGED <<server, over, call, crossed>>
    BY <1>6 DEF FailLoad
  <2>4. \A k \in Loads, r \in Rows :
          load'[k].stage = "served" /\ r \notin load'[k].crossed => list'[r].ver <= load'[k].snap[r]
    BY <2>1, <2>2 DEF NothingBehind
  <2>5. \A c \in Calls : Live(c) => list'[call[c].row].ver = list[call[c].row].ver
    BY <1>0, <2>2
  <2> QED
    BY <1>10, <2>3, <2>4, <2>5 DEF NothingBehind, Live
<1>7. ASSUME NEW r \in Rows, Others(r) PROVE NothingBehind'
  <2>1. \A k \in Loads : /\ load'[k].stage = load[k].stage /\ load'[k].snap = load[k].snap
                         /\ load'[k].crossed = load[k].crossed
    BY <1>7 DEF Others, Typed, WellFormed, TypeOK, Load
  <2>2. UNCHANGED <<list, over, call, crossed>>
    BY <1>7 DEF Others
  <2> QED
    BY <1>10, <2>1, <2>2 DEF NothingBehind, Live
<1>8. ASSUME NEW c \in Calls, Serve(c) PROVE NothingBehind'
  <2>1. UNCHANGED <<list, over, load, crossed>>
    BY <1>8 DEF Serve
  <2>2. /\ call'[c].kind = call[c].kind /\ call'[c].row = call[c].row /\ call[c].row \in Rows
        /\ Live(c) /\ server[call[c].row] <= call'[c].ver /\ call'[c].ver \in Nat
        /\ \A d \in Calls \ {c} : Same(d)
    BY <1>0, <1>8, ServeEffect DEF Live
  <2>3. list[call[c].row].ver <= call'[c].ver /\ over[call[c].row] <= call'[c].ver
    BY <1>0, <2>2 DEF NothingAhead
  <2>4. call'[c].base = call[c].base
    BY <1>8, ServeEffect
  <2> QED
    BY <1>10, <2>1, <2>2, <2>3, <2>4 DEF NothingBehind, Same, Live
<1>9. ASSUME NEW c \in Calls, Answers(c) PROVE NothingBehind'
  <2> DEFINE r == call[c].row
  <2>1. Unread
    BY <1>9, StepUnread
  <2>2. /\ Live(c) /\ r \in Rows /\ crossed' = crossed
        /\ \A d \in Calls \ {c} : Same(d)
        /\ \A q \in Rows \ {r} : list'[q] = list[q] /\ over'[q] = over[q]
    BY <1>9 DEF Answers
  <2>3. \A k \in Loads, q \in Rows :
          load'[k].stage = "served" /\ q \notin load'[k].crossed => list'[q].ver <= load'[k].snap[q]
    <3>1. \A k \in Loads : load'[k].stage = "served" => r \in load'[k].crossed
      BY <2>1, <2>2 DEF Unread, Recorded, Running
    <3> QED
      BY <2>1, <2>2, <3>1 DEF Unread, NothingBehind
  <2>4. ASSUME NEW d \in Calls \ {c}, Live(d)', call'[d].row \notin crossed'
        PROVE  /\ call'[d].row \in Rows \ {r} /\ Live(d) /\ Same(d)
    BY <1>0, <2>2, <2>4 DEF Same, Live, Recorded
  <2>5. ASSUME Live(c)', call'[c].row \notin crossed'
        PROVE  /\ call'[c].stage = "sent" /\ call'[c].row = r /\ list'[r].ver <= 1
               /\ ~Copies(c)'
    <3>1. /\ call[c].stage = "served" /\ call[c].kind = "create"
          /\ call'[c].stage = "sent" /\ call'[c].row = r /\ list'[r] = list[r]
          /\ call'[c].kind = "photo"
      BY <1>9, <2>5 DEF Answers, RowAsItWas
    <3>2. call[c].ver = 1 /\ list[r].ver <= call[c].ver
      BY <2>2, <2>5, <3>1 DEF Numbered, NothingBehind
    <3> QED
      BY <3>1, <3>2 DEF Copies
  <2>6. ASSUME NEW d \in Calls, Live(d)', call'[d].row \notin crossed'
        PROVE  /\ call'[d].stage = "served" => /\ list'[call'[d].row].ver <= call'[d].ver
                                               /\ over'[call'[d].row] <= call'[d].ver
               /\ call'[d].kind = "photo" => list'[call'[d].row].ver <= 1
               /\ Copies(d)' => list'[call'[d].row].ver <= call'[d].base
    <3>1. CASE d = c
      BY <2>5, <2>6, <3>1
    <3>2. CASE d # c
      <4>1. call'[d].row \in Rows \ {r} /\ Live(d) /\ Same(d)
        BY <2>4, <2>6, <3>2
      <4>2. list'[call'[d].row] = list[call[d].row] /\ over'[call'[d].row] = over[call[d].row]
        BY <2>2, <4>1 DEF Same
      <4>3. call[d].row \notin crossed
        BY <2>2, <2>6, <4>1 DEF Same
      <4> QED
        BY <1>10, <4>1, <4>2, <4>3 DEF Same, NothingBehind
    <3> QED
      BY <3>1, <3>2
  <2> QED
    BY <2>3, <2>6 DEF NothingBehind, Live
<1> QED
  BY <1>1, <1>2, <1>3, <1>4, <1>5, <1>6, <1>7, <1>8, <1>9, Shapes

-----------------------------------------------------------------------------
(* Nothing goes back *)

Ordered == Typed /\ Recorded /\ Numbered /\ NothingAhead /\ FormNotAhead /\ NothingBehind

LEMMA InitOrdered ==
  ASSUME Init
  PROVE  Ordered
<1>1. Typed
  BY InitTyped
<1>2. PICK l \in Loads : load = [k \in Loads |-> IF k = l THEN [Idle EXCEPT !.stage = "sent"] ELSE Idle]
  BY DEF Init
<1>3. \A k \in Loads : load[k].stage # "served" /\ (Running(k) => k = l)
  BY <1>2 DEF Idle, Running
<1>4. \A c \in Calls : ~Live(c) /\ call[c].stage = "idle"
  BY DEF Init, NoCall, Live
<1>5. \A r \in Rows : list[r].ver = 0 /\ over[r] = 0 /\ server[r] = 0
  BY DEF Init
<1>6. Recorded /\ Numbered
  BY <1>3, <1>4 DEF Recorded, Numbered
<1>7. NothingAhead /\ NothingBehind
  BY <1>3, <1>4, <1>5 DEF NothingAhead, NothingBehind
<1>8. FormNotAhead
  BY Bounds DEF Init, Closed, FormNotAhead
<1> QED
  BY <1>1, <1>6, <1>7, <1>8 DEF Ordered

LEMMA StepOrdered ==
  ASSUME Ordered, [Next]_vars
  PROVE  Ordered'
  BY StepTyped, StepRecorded, StepNumbered, StepAhead, StepFormNotAhead, StepBehind DEF Ordered

LEMMA StepForwards ==
  ASSUME Ordered, [Next]_vars, NEW r \in Rows, r \notin crossed'
  PROVE  Seen(r)' >= Seen(r)
<1>0. /\ list[r].ver \in Nat /\ over[r] \in Nat
      /\ \A c \in Calls : call[c].ver \in Nat /\ call[c].base \in Nat
      /\ \A l \in Loads : load[l].snap[r] \in Nat
  BY Numbers DEF Ordered
<1>1. CASE list'[r].ver = list[r].ver /\ over'[r] = over[r]
  BY <1>0, <1>1 DEF Seen
<1>2. ASSUME NEW l \in Loads, AnswerLoad(l) PROVE Seen(r)' >= Seen(r)
  <2>1. /\ list'[r].ver = load[l].snap[r] /\ over'[r] = over[r]
        /\ load[l].stage = "served" /\ r \notin load[l].crossed
    BY <1>2 DEF AnswerLoad
  <2>2. list[r].ver <= load[l].snap[r]
    BY <2>1 DEF Ordered, NothingBehind
  <2> QED
    BY <1>0, <2>1, <2>2 DEF Seen
<1>3. ASSUME NEW c \in Calls, Answers(c), call[c].row = r PROVE Seen(r)' >= Seen(r)
  <2>1. /\ \/ list'[r].ver = list[r].ver
           \/ call[c].stage = "served" /\ list'[r].ver = call[c].ver
           \/ call[c].kind = "photo" /\ list'[r].ver = 1
           \/ Copies(c) /\ list'[r].ver = call[c].base
        /\ \/ over'[r] = over[r]
           \/ call[c].stage = "served" /\ over'[r] = call[c].ver
    BY <1>3, AnswerVersions DEF Ordered
  <2>2. /\ call[c].stage = "served" => list[r].ver <= call[c].ver /\ over[r] <= call[c].ver
        /\ call[c].kind = "photo" => list[r].ver <= 1
        /\ Copies(c) => list[r].ver <= call[c].base
    BY <1>3 DEF Answers, Ordered, NothingBehind
  <2>3. call[c].stage = "served" => 1 <= call[c].ver
    BY DEF Ordered, Numbered
  <2>4. list'[r].ver >= list[r].ver /\ list'[r].ver \in Nat
    BY <1>0, <2>1, <2>2
  <2>5. over'[r] = over[r] \/ (over'[r] >= over[r] /\ over'[r] >= list[r].ver /\ over'[r] >= 1)
    BY <1>0, <2>1, <2>2, <2>3
  <2>6. over'[r] \in Nat
    BY <1>0, <2>1
  <2> QED
    BY <1>0, <2>4, <2>5, <2>6 DEF Seen
<1>4. CASE Idles \/ Asks \/ Leaves
  BY <1>1, <1>4 DEF Idles, Asks, Leaves, Unseen
<1>5. ASSUME NEW l \in Loads, ServeLoad(l) PROVE Seen(r)' >= Seen(r)
  BY <1>1, <1>5 DEF ServeLoad
<1>6. ASSUME NEW l \in Loads, FailLoad(l) PROVE Seen(r)' >= Seen(r)
  BY <1>1, <1>6 DEF FailLoad, Ordered, Typed, WellFormed, TypeOK
<1>7. ASSUME NEW q \in Rows, Others(q) PROVE Seen(r)' >= Seen(r)
  BY <1>1, <1>7 DEF Others
<1>8. ASSUME NEW c \in Calls, Serve(c) PROVE Seen(r)' >= Seen(r)
  BY <1>1, <1>8 DEF Serve
<1>9. ASSUME NEW c \in Calls, Answers(c), call[c].row # r PROVE Seen(r)' >= Seen(r)
  BY <1>1, <1>9 DEF Answers
<1> QED
  BY <1>2, <1>3, <1>4, <1>5, <1>6, <1>7, <1>8, <1>9, Shapes DEF Ordered

\* What the operator sees of a row goes back to an older version, or comes back
\* once deleted, only when a call on it overlapped a load or another call (the fetch
\* and its cleanup in the effects of the pages, map and filter in their handlers), or
\* when a modal that was opened before the list changed puts its own copy back
\* (handleSubmit of EditProductForm, handlePasswordSubmit of EditCustomerForm).
THEOREM NeverGoesBack == Spec => NeverBackwards
<1>1. Init => Ordered
  BY InitOrdered
<1>2. Ordered /\ [Next]_vars => Ordered'
  BY StepOrdered
<1>3. Ordered /\ [Next]_vars => [\A r \in Rows : Seen(r)' >= Seen(r) \/ r \in crossed']_vars
  BY StepForwards
<1> QED
  BY <1>1, <1>2, <1>3, PTL DEF Spec, NeverBackwards

-----------------------------------------------------------------------------
(* What explains a row that is not current *)

\* What a load has read is in the database still, but for the rows that it missed
\* or that a call crossed.
ReadsAreCurrent ==
  \A l \in Loads, r \in Rows :
    load[l].stage = "served" /\ r \notin load[l].missed \cup load[l].crossed =>
      load[l].snap[r] = server[r]

\* What is known of row r while the call c on it is in flight.
Awaits(c, r) ==
  LET k == call[c] IN
  /\ k.stage = "sent" /\ k.kind # "photo" => Current(r) /\ (k.kind = "create" => server[r] = 0)
  /\ k.stage = "sent" /\ k.kind = "photo" => server[r] = 1 /\ list[r].n = 0
  /\ k.stage = "served" /\ k.kind \in {"patch", "edit", "password"} =>
       /\ Exists(r) /\ server[r] = k.ver /\ list[r].n = 1
       /\ list[r].ver + 1 = k.ver /\ (Copies(c) => k.base + 1 = k.ver)
  /\ k.stage = "served" /\ k.kind = "remove" => server[r] = Gone
  /\ k.stage = "served" /\ k.kind \in {"create", "photo"} =>
       Exists(r) /\ server[r] = k.ver /\ list[r].n = 0

\* A row that nothing was missed of and nothing crossed is current, or becomes so
\* with the answer of the one call in flight on it.
ExplainedAt(r) ==
  r \notin missed \cup crossed /\ over[r] = 0 =>
    /\ (\A c \in Calls : Live(c) => call[c].row # r) => Current(r)
    /\ \A c \in Calls : Live(c) /\ call[c].row = r => Awaits(c, r)

Explained == \A r \in Rows : ExplainedAt(r)

LEMMA StepReads ==
  ASSUME Typed, Recorded, ReadsAreCurrent, [Next]_vars
  PROVE  ReadsAreCurrent'
<1>1. CASE Idles \/ Asks \/ Leaves \/ \E c \in Calls : Answers(c)
  <2>1. Unread
    BY <1>1, StepUnread
  <2>2. server' = server
    BY <1>1 DEF Idles, Asks, Leaves, Unseen, Answers
  <2> QED
    BY <2>1, <2>2 DEF Unread, ReadsAreCurrent
<1>2. ASSUME NEW l \in Loads, ServeLoad(l) PROVE ReadsAreCurrent'
  <2>1. \A k \in Loads : load'[k].stage = "served" =>
          load'[k].snap = server \/ load'[k] = load[k]
    BY <1>2 DEF ServeLoad, Typed, WellFormed, TypeOK, Load
  <2>2. server' = server
    BY <1>2 DEF ServeLoad
  <2> QED
    BY <2>1, <2>2 DEF ReadsAreCurrent
<1>3. ASSUME NEW l \in Loads, AnswerLoad(l) \/ FailLoad(l) PROVE ReadsAreCurrent'
  <2>1. \A k \in Loads : load'[k].stage = "served" => load'[k] = load[k]
    BY <1>3, Constants DEF AnswerLoad, FailLoad, Typed, WellFormed, TypeOK, Idle
  <2>2. server' = server
    BY <1>3 DEF AnswerLoad, FailLoad
  <2> QED
    BY <2>1, <2>2 DEF ReadsAreCurrent
<1>4. ASSUME NEW r \in Rows, Others(r) PROVE ReadsAreCurrent'
  <2>1. \A q \in Rows \ {r} : server'[q] = server[q]
    BY <1>4 DEF Others, Typed, WellFormed, TypeOK
  <2>2. \A k \in Loads : load'[k].stage = "served" =>
          /\ load[k].stage = "served" /\ load'[k].snap = load[k].snap
          /\ load'[k].crossed = load[k].crossed /\ load'[k].missed = load[k].missed \cup {r}
    BY <1>4 DEF Others, Typed, WellFormed, TypeOK, Load
  <2> QED
    BY <2>1, <2>2 DEF ReadsAreCurrent
<1>5. ASSUME NEW c \in Calls, Serve(c) PROVE ReadsAreCurrent'
  <2>1. Live(c) /\ load' = load /\ \A q \in Rows \ {call[c].row} : server'[q] = server[q]
    BY <1>5, ServeEffect DEF Serve, Live
  <2>2. \A k \in Loads : load[k].stage = "served" => call[c].row \in load[k].crossed
    BY <2>1 DEF Recorded, Running
  <2> QED
    BY <2>1, <2>2 DEF ReadsAreCurrent
<1> QED
  BY <1>1, <1>2, <1>3, <1>4, <1>5, Shapes

\* A row that a step does not touch, in the database, on the screen or in a call.
LEMMA UntouchedRow ==
  ASSUME screen' = screen, NEW r \in Rows, ExplainedAt(r), r \notin missed \cup crossed,
         list'[r] = list[r], over'[r] = over[r], server'[r] = server[r],
         \A d \in Calls : (Live(d) /\ call[d].row = r) \/ (Live(d)' /\ call'[d].row = r) => Same(d)
  PROVE  ExplainedAt(r)'
<1>1. Current(r)' <=> Current(r)
  BY DEF Current, Exists, Seen
<1>2. \A d \in Calls : Live(d)' /\ call'[d].row = r <=> Live(d) /\ call[d].row = r
  BY DEF Same, Live
<1>3. ASSUME NEW d \in Calls, Live(d)', call'[d].row = r, Awaits(d, r)
      PROVE  Awaits(d, r)'
  BY <1>1, <1>3 DEF Awaits, Same, Exists, Copies, Lists
<1> QED
  BY <1>1, <1>2, <1>3 DEF ExplainedAt, Live

\* The call c on row r is carried out.
LEMMA ServeExplained ==
  ASSUME Ordered, Explained, NEW c \in Calls, Serve(c), NEW r \in Rows, call[c].row = r,
         r \notin missed' \cup crossed', over'[r] = 0
  PROVE  /\ Live(c)' /\ Awaits(c, r)'
         /\ \A d \in Calls : Live(d)' /\ call'[d].row = r => d = c
<1>0. Typed /\ Recorded /\ NothingAhead /\ NothingBehind
  BY DEF Ordered
<1>12. UNCHANGED <<screen, list, over, missed, crossed>>
  BY DEF Serve
<1>1. /\ r \in Rows /\ call[c].stage = "sent" /\ Live(c)
      /\ call'[c].stage = "served" /\ call'[c].kind = call[c].kind /\ call'[c].row = r
      /\ call'[c].ver = server'[r] /\ call'[c].base = call[c].base
      /\ server'[r] = (IF call[c].kind = "remove" THEN Gone ELSE server[r] + 1)
      /\ call[c].kind # "remove" => server'[r] <= MaxVer
      /\ IF call[c].kind = "create" THEN server[r] = 0 ELSE Exists(r)
      /\ \A d \in Calls \ {c} : Same(d)
  BY <1>0, ServeEffect DEF Live
<1>2. Awaits(c, r)
  BY <1>1, <1>12 DEF Explained, ExplainedAt
<1>3. /\ server[r] \in Nat /\ list[r].ver \in Nat /\ over[r] = 0 /\ call[c].base \in Nat
      /\ MaxVer \in Nat /\ Gone = MaxVer + 1
  BY <1>0, <1>1, <1>12, Numbers
<1>11. \A d \in Calls : Live(d)' /\ call'[d].row = r => d = c
  BY <1>0, <1>1, <1>12 DEF Same, Live, Recorded
<1>4. CASE call[c].kind \in {"patch", "edit", "password"}
  <2>1. Exists(r) /\ Current(r)
    BY <1>1, <1>12, <1>2, <1>4 DEF Awaits
  <2>2. list[r].n = 1 /\ list[r].ver = server[r]
    BY <1>3, <2>1 DEF Current, Seen
  <2>3. server'[r] = server[r] + 1 /\ server'[r] \in 1..MaxVer
    BY <1>1, <1>12, <1>3, <1>4
  <2>4. Copies(c) => call[c].base = server[r]
    BY <1>0, <1>1, <1>12, <1>3, <2>2 DEF NothingAhead, NothingBehind
  <2>5. Copies(c)' => Copies(c)
    BY <1>1, <1>12 DEF Copies, Lists
  <2> QED
    BY <1>1, <1>12, <1>4, <1>11, <2>2, <2>3, <2>4, <2>5 DEF Awaits, Exists, Live
<1>5. CASE call[c].kind = "remove"
  BY <1>1, <1>12, <1>5, <1>11 DEF Awaits, Live
<1>6. CASE call[c].kind = "create"
  <2>1. ~Exists(r) /\ Current(r)
    BY <1>1, <1>12, <1>2, <1>6 DEF Awaits, Exists
  <2>2. list[r].n = 0
    BY <2>1 DEF Current
  <2>3. server'[r] \in 1..MaxVer
    BY <1>1, <1>12, <1>3, <1>6
  <2> QED
    BY <1>1, <1>12, <1>6, <1>11, <2>2, <2>3 DEF Awaits, Exists, Live
<1>7. CASE call[c].kind = "photo"
  <2>1. list[r].n = 0
    BY <1>1, <1>12, <1>2, <1>7 DEF Awaits
  <2>2. server'[r] \in 1..MaxVer
    BY <1>1, <1>12, <1>3, <1>7
  <2> QED
    BY <1>1, <1>12, <1>7, <1>11, <2>1, <2>2 DEF Awaits, Exists, Live
<1>8. CASE call[c].kind \in {None, "upload"}
  BY <1>1, <1>12, <1>8, <1>11 DEF Awaits, None, Live
<1>9. call[c].kind \in {None, "patch", "remove", "create", "photo"} \cup {"edit", "upload", "password"}
  BY <1>0 DEF Typed, WellFormed, TypeOK, Call, FormKinds
<1> QED
  BY <1>4, <1>5, <1>6, <1>7, <1>8, <1>9

\* The call c on row r ends: the row is as the database has it.
LEMMA EndExplained ==
  ASSUME Ordered, Explained, NEW c \in Calls, Answers(c), ~Live(c)', Outcome(c),
         NEW r \in Rows, call[c].row = r, r \notin missed' \cup crossed', over'[r] = 0
  PROVE  Current(r)'
<1> DEFINE v == call[c].ver
<1>1. /\ r \in Rows /\ Live(c) /\ r \notin missed \cup crossed /\ server' = server
  BY DEF Answers
<1>2. /\ server[r] \in Nat /\ v \in Nat /\ MaxVer \in Nat /\ MaxVer >= 1 /\ Gone = MaxVer + 1
      /\ call[c].stage = "served" => v >= 1
  BY <1>1, Numbers DEF Ordered, Numbered
<1>3. over[r] = 0
  BY <1>2, AnswerVersions DEF Ordered
<1>4. Awaits(c, r)
  BY <1>1, <1>3 DEF Explained, ExplainedAt
<1>5. CASE call[c].stage = "served" /\ call[c].kind = "remove" /\ RowRemoved(r)
  BY <1>1, <1>2, <1>4, <1>5 DEF Awaits, RowRemoved, Current, Exists
<1>6. CASE call[c].stage = "served" /\ call[c].kind \in {"patch", "edit", "password"} /\ RowPatched(c, r)
  <2>1. /\ Exists(r) /\ server[r] = v /\ list[r].n = 1
        /\ list[r].ver + 1 = v /\ (Copies(c) => call[c].base + 1 = v)
    BY <1>4, <1>6 DEF Awaits
  <2>3. Answered(c) = v
    BY <1>6, <2>1 DEF Answered, Copies
  <2>2. list'[r].n = 1 /\ list'[r].ver = v
    BY <1>6, <2>1, <2>3 DEF RowPatched
  <2> QED
    BY <1>1, <2>1, <2>2 DEF Current, Exists, Seen
<1>7. CASE call[c].stage = "served" /\ RowCopied(r, v)
  BY <1>2, <1>7 DEF RowCopied
<1>8. CASE call[c].stage = "served" /\ call[c].kind \in {"create", "photo"} /\ RowListed(r, v)
  <2>1. Exists(r) /\ server[r] = v /\ list[r].n = 0
    BY <1>4, <1>8 DEF Awaits
  <2>2. list'[r].n = 1 /\ list'[r].ver = v
    BY <1>8, <2>1 DEF RowListed
  <2> QED
    BY <1>1, <2>1, <2>2 DEF Current, Exists, Seen
<1>9. CASE call[c].stage = "sent" /\ call[c].kind # "photo" /\ RowAsItWas(r)
  BY <1>1, <1>4, <1>9 DEF Awaits, RowAsItWas, Current, Exists, Seen
<1>10. CASE call[c].kind = "photo" /\ RowListed(r, 1) /\ call[c].stage # "served"
  <2>1. call[c].stage = "sent"
    BY <1>1, <1>10, Numbers DEF Live, Ordered
  <2>2. server[r] = 1 /\ list[r].n = 0
    BY <1>4, <1>10, <2>1 DEF Awaits
  <2>3. list'[r].n = 1 /\ list'[r].ver = 1
    BY <1>10, <2>2 DEF RowListed
  <2> QED
    BY <1>1, <1>2, <2>2, <2>3 DEF Current, Exists, Seen
<1> QED
  BY <1>5, <1>6, <1>7, <1>8, <1>9, <1>10 DEF Outcome, RowUnknown

LEMMA StepExplained ==
  ASSUME Ordered, ReadsAreCurrent, Explained, [Next]_vars, NEW r \in Rows,
         r \notin missed' \cup crossed', over'[r] = 0
  PROVE  ExplainedAt(r)'
<1>0. Typed /\ Recorded /\ ExplainedAt(r) /\ screen' = screen
  BY StepKeepsScreen DEF Ordered, Explained
<1>1. CASE Idles \/ Asks
  BY <1>0, <1>1, UntouchedRow DEF Idles, Asks, Unseen
<1>2. CASE Leaves
  <2>1. PICK c \in Calls, q \in Rows, kind \in SentKinds, base \in Versions :
          Left(c, kind, q, base) /\ (kind = "create" => server[q] = 0)
    BY <1>2 DEF Leaves
  <2>2. /\ Unseen /\ r \notin missed \cup crossed /\ over[r] = 0
        /\ \A d \in Calls \ {c} : Same(d)
        /\ ~Live(c) /\ call'[c].stage = "sent" /\ call'[c].kind = kind /\ call'[c].row = q
    BY <1>2, <2>1 DEF Leaves, Unseen, Left
  <2>3. CASE q # r
    <3>1. \A d \in Calls : (Live(d) /\ call[d].row = r) \/ (Live(d)' /\ call'[d].row = r) => d # c
      BY <2>2, <2>3
    <3> QED
      BY <1>0, <2>2, <3>1, UntouchedRow DEF Unseen
  <2>4. CASE q = r
    <3>1. \A d \in Calls : Live(d) => call[d].row # r
      BY <2>1, <2>4 DEF Left
    <3>2. Current(r)
      BY <1>0, <2>2, <3>1 DEF ExplainedAt
    <3>3. Awaits(c, r)'
      BY <2>1, <2>2, <2>4, <3>2 DEF Awaits, Current, Exists, Seen, Unseen, SentKinds, FormKinds
    <3>4. Live(c)' /\ \A d \in Calls : Live(d)' /\ call'[d].row = r => d = c
      BY <2>2, <2>4, <3>1 DEF Same, Live
    <3> QED
      BY <2>2, <2>4, <3>3, <3>4 DEF ExplainedAt, Live
  <2> QED
    BY <2>3, <2>4
<1>3. ASSUME NEW l \in Loads, ServeLoad(l) PROVE ExplainedAt(r)'
  BY <1>0, <1>3, UntouchedRow DEF ServeLoad, Same
<1>4. ASSUME NEW l \in Loads, AnswerLoad(l) PROVE ExplainedAt(r)'
  <2>1. /\ Running(l) /\ load[l].stage = "served" /\ r \notin load[l].missed \cup load[l].crossed
        /\ list'[r].n = (IF load[l].snap[r] \in 1..MaxVer THEN 1 ELSE 0)
        /\ list'[r].ver = load[l].snap[r]
        /\ UNCHANGED <<server, call>>
    BY <1>4 DEF AnswerLoad, Running
  <2>2. load[l].snap[r] = server[r]
    BY <2>1 DEF ReadsAreCurrent
  <2>3. Current(r)'
    BY <2>1, <2>2 DEF Current, Exists, Seen
  <2>4. \A d \in Calls : Live(d)' => call'[d].row # r
    BY <1>0, <2>1 DEF Recorded, Live
  <2> QED
    BY <2>3, <2>4 DEF ExplainedAt, Live
<1>5. ASSUME NEW l \in Loads, FailLoad(l) PROVE ExplainedAt(r)'
  <2>1. UNCHANGED <<server, over, call, crossed, list, missed>>
    BY <1>5 DEF FailLoad
  <2> QED
    BY <1>0, <2>1, UntouchedRow DEF Same
<1>6. ASSUME NEW q \in Rows, Others(q) PROVE ExplainedAt(r)'
  <2>1. q # r /\ r \notin missed \cup crossed
    BY <1>6 DEF Others
  <2>2. server'[r] = server[r] /\ UNCHANGED <<list, over, call>>
    BY <1>6, <2>1 DEF Others, Ordered, Typed, WellFormed, TypeOK
  <2> QED
    BY <1>0, <2>1, <2>2, UntouchedRow DEF Same
<1>7. ASSUME NEW c \in Calls, Serve(c) PROVE ExplainedAt(r)'
  <2>1. /\ call'[c].row = call[c].row /\ Live(c)
        /\ \A d \in Calls \ {c} : Same(d)
        /\ \A q \in Rows \ {call[c].row} : server'[q] = server[q]
        /\ UNCHANGED <<list, over, missed, crossed>>
    BY <1>0, <1>7, ServeEffect DEF Serve, Live
  <2>2. CASE call[c].row = r
    <3>1. Live(c)' /\ Awaits(c, r)' /\ \A d \in Calls : Live(d)' /\ call'[d].row = r => d = c
      BY <1>7, <2>2, ServeExplained
    <3> QED
      BY <2>1, <2>2, <3>1 DEF ExplainedAt, Live
  <2>3. CASE call[c].row # r
    <3>1. \A d \in Calls : (Live(d) /\ call[d].row = r) \/ (Live(d)' /\ call'[d].row = r) => d # c
      BY <2>1, <2>3
    <3> QED
      BY <1>0, <2>1, <2>3, <3>1, UntouchedRow
  <2> QED
    BY <2>2, <2>3
<1>8. ASSUME NEW c \in Calls, Answers(c) PROVE ExplainedAt(r)'
  <2>1. /\ Live(c) /\ call[c].row \in Rows /\ UNCHANGED <<server, crossed>> /\ missed \subseteq missed'
        /\ \A d \in Calls \ {c} : Same(d)
        /\ \A q \in Rows \ {call[c].row} : list'[q] = list[q] /\ over'[q] = over[q]
        /\ ~Live(c)' \/ call'[c].row = call[c].row
    BY <1>8 DEF Answers
  <2>2. CASE call[c].row # r
    <3>1. \A d \in Calls : (Live(d) /\ call[d].row = r) \/ (Live(d)' /\ call'[d].row = r) => d # c
      BY <2>1, <2>2
    <3> QED
      BY <1>0, <2>1, <2>2, <3>1, UntouchedRow
  <2>3. CASE call[c].row = r
    <3>1. \A d \in Calls \ {c} : Live(d)' => call'[d].row # r
      BY <1>0, <2>1, <2>3 DEF Same, Live, Recorded
    <3>2. CASE ~Live(c)' /\ Outcome(c)
      <4>1. Current(r)'
        BY <1>8, <2>3, <3>2, EndExplained
      <4> QED
        BY <3>1, <3>2, <4>1 DEF ExplainedAt, Live
    <3>3. CASE /\ call[c].stage = "served" /\ call[c].kind = "create"
               /\ call'[c].stage = "sent" /\ call'[c].kind = "photo" /\ RowAsItWas(r)
      <4>1. over[r] = 0 /\ call[c].ver = 1 /\ list'[r] = list[r]
        BY <3>3 DEF RowAsItWas, Ordered, Numbered
      <4>2. Awaits(c, r)
        BY <1>0, <2>1, <2>3, <4>1 DEF ExplainedAt
      <4>3. Awaits(c, r)'
        BY <2>1, <3>3, <4>1, <4>2 DEF Awaits
      <4>4. Live(c)' /\ call'[c].row = r
        BY <2>1, <2>3, <3>3 DEF Live
      <4> QED
        BY <3>1, <4>3, <4>4 DEF ExplainedAt, Live
    <3> QED
      BY <1>8, <2>3, <3>2, <3>3 DEF Answers
  <2> QED
    BY <2>2, <2>3
<1> QED
  BY <1>0, <1>1, <1>2, <1>3, <1>4, <1>5, <1>6, <1>7, <1>8, Shapes

\* After any sequence of creations, patches, deletions, saves, passwords and reloads,
\* failed ones included, a row is listed once and as the database has it, unless since
\* the load on the screen somebody else changed it, a call on it was lost, a photo was
\* added to it in its modal (which EditProductForm does not tell the list), a call
\* overlapped a load or another call, or a modal saved a copy older than the list.
THEOREM ScreenIsCurrent == Spec => []ShownIsCurrent
<1> DEFINE IInv == Ordered /\ ReadsAreCurrent /\ Explained
<1>1. Init => IInv
  <2> SUFFICES ASSUME Init PROVE ReadsAreCurrent /\ Explained
    BY InitOrdered
  <2>1. \A l \in Loads : load[l].stage # "served"
    BY DEF Init, Idle
  <2>2. \A c \in Calls : ~Live(c)
    BY DEF Init, NoCall, Live
  <2>3. ASSUME NEW r \in Rows PROVE list[r].n = 0 /\ ~Exists(r)
    <3>1. list[r].n = 0 /\ server[r] = 0
      BY DEF Init
    <3>2. 0 \notin 1..MaxVer
      BY Bounds
    <3> QED
      BY <3>1, <3>2 DEF Exists
  <2> QED
    BY <2>1, <2>2, <2>3 DEF ReadsAreCurrent, Explained, ExplainedAt, Current
<1>2. IInv /\ [Next]_vars => IInv'
  <2> SUFFICES ASSUME Ordered, ReadsAreCurrent, Explained, [Next]_vars
               PROVE  Ordered' /\ ReadsAreCurrent' /\ Explained'
    OBVIOUS
  <2>1. Ordered' /\ ReadsAreCurrent'
    BY StepOrdered, StepReads DEF Ordered
  <2>2. ASSUME NEW r \in Rows PROVE ExplainedAt(r)'
    <3>1. CASE r \in missed' \cup crossed' \/ over'[r] # 0
      BY <3>1 DEF ExplainedAt
    <3>2. CASE r \notin missed' \cup crossed' /\ over'[r] = 0
      BY <3>2, StepExplained
    <3> QED
      BY <3>1, <3>2
  <2> QED
    BY <2>1, <2>2 DEF Explained
<1>3. IInv => ShownIsCurrent
  <2> SUFFICES ASSUME Explained, NEW r \in Rows, Settled(r), over[r] = 0
               PROVE  Current(r)
    BY DEF ShownIsCurrent
  <2>1. r \notin missed \cup crossed /\ \A c \in Calls : Live(c) => call[c].row # r
    BY DEF Settled, CallsOn, LiveCalls, Live
  <2> QED
    BY <2>1 DEF Explained, ExplainedAt
<1> QED
  BY <1>1, <1>2, <1>3, PTL DEF Spec

\* Only the answer of a patch, on a page that keeps copies, writes one.
LEMMA CopiesKept ==
  ASSUME [Next]_vars, screen.then # "override"
  PROVE  over' = over /\ screen' = screen
<1>1. over' = over \/ \E c \in Calls, l \in Loads : AnswerPress(c, l)
  BY DEF Next, vars, Refresh, Choose, ServeLoad, AnswerLoad, FailLoad, Others, Open, Close,
         Create, Save, Submit, Press, Serve, AnswerCreate, AnswerSave, AnswerUpload, FailCall
<1>2. ASSUME NEW c \in Calls, NEW l \in Loads, AnswerPress(c, l)
      PROVE  over' = over
  BY <1>2 DEF AnswerPress
<1> QED
  BY <1>1, <1>2, StepKeepsScreen

\* What the comment in OrdersTable.tsx says of its copies holds, for a settled row, of
\* every page that keeps none: to the exceptions of Settled the copies of the orders'
\* table add theirs, and no other part of a page does.
THEOREM ListIsFollowed == Spec => [](screen.then # "override" => CopiesFollowTheList)
<1> DEFINE NoCopies == screen.then # "override" => \A r \in Rows : over[r] = 0
<1>1. Init => NoCopies
  BY DEF Init
<1>2. NoCopies /\ [Next]_vars => NoCopies'
  <2> SUFFICES ASSUME NoCopies, [Next]_vars, screen'.then # "override"
               PROVE  \A r \in Rows : over'[r] = 0
    OBVIOUS
  <2>1. screen' = screen
    BY StepKeepsScreen
  <2> QED
    BY <2>1, CopiesKept
<1>3. NoCopies /\ ShownIsCurrent => (screen.then # "override" => CopiesFollowTheList)
  BY DEF ShownIsCurrent, CopiesFollowTheList
<1> QED
  BY <1>1, <1>2, <1>3, ScreenIsCurrent, PTL DEF Spec
=============================================================================
