---------------------------- MODULE Session_proofs ----------------------------
(***************************************************************************)
(* Theorems of Session: what a tab shows belongs to who is logged in, and  *)
(* a token logged out of is refused by the server or accounted for.        *)
(***************************************************************************)
EXTENDS Session, TLAPS

\* Sessions that no longer open anything, or whose end was asked for, or that
\* escaped their logout.
Accounted == {s \in Sessions : session[s] = "ended"} \cup revoking \cup escaped

\* A tab without a key holds nothing, and a login is under way only in such a tab.
Emptied ==
  \A t \in Tabs :
    /\ tab[t].login # None => tab[t].key = None
    /\ tab[t].key = None => tab[t].files = None /\ tab[t].gate = "unknown"
    /\ tab[t].asked \subseteq {tab[t].key}

\* Links are asked for by a list that stays until they are answered, and granted to
\* the customer whose list it is.
Asking ==
  \A t \in Tabs :
    /\ tab[t].granted \subseteq tab[t].links
    /\ tab[t].links # {} => tab[t].key # None /\ tab[t].result = tab[t].key
    /\ \A s \in tab[t].granted : OwnerOf[s] = OwnerOf[tab[t].key]

\* What is accepted in a tab, or saved for it, is accepted on the server.
Saved ==
  \A t \in Tabs : tab[t].gate = "saved" => OwnerOf[tab[t].key] \in accepted

\* A token that a tab uses and that is no longer the stored one is accounted for.
Displaced ==
  \A t \in Tabs : tab[t].key \in Sessions \ Keys /\ tab[t].key # stored => tab[t].key \in Accounted

IInv == TypeOK /\ Emptied /\ Asking /\ Saved /\ OneOwner /\ (app.revokes => Displaced) /\ LogoutEndsSession

USE DEF None

LEMMA InitIInv == Init => IInv
  BY SessionAssumption
     DEF Init, IInv, TypeOK, Tab, Gates, App, Emptied, Asking, Saved, OneOwner, Displaced, LogoutEndsSession, Fresh, Shown

\* The tabs once a call for links is granted, answered or lost, field by field.
LEMMA LinksEffect ==
  ASSUME TypeOK, NEW t \in Tabs, NEW s \in Sessions, ServeFiles(t, s) \/ AnswerFiles(t, s) \/ FailFiles(t, s)
  PROVE  /\ tab' \in [Tabs -> Tab]
         /\ \A u \in Tabs \ {t} : tab'[u] = tab[u]
         /\ tab'[t].key = tab[t].key /\ tab'[t].login = tab[t].login /\ tab'[t].asked = tab[t].asked
         /\ tab'[t].result = tab[t].result /\ tab'[t].gate = tab[t].gate
         /\ s \in tab[t].links \/ s \in tab[t].granted
         /\ \/ /\ tab'[t].links = tab[t].links /\ tab'[t].granted = tab[t].granted \cup {s}
               /\ s \in tab[t].links
               /\ OwnerOf[s] = OwnerOf[tab[t].result] /\ tab'[t].files = tab[t].files
            \/ /\ tab'[t].links = tab[t].links \ {s} /\ tab'[t].granted = tab[t].granted \ {s}
               /\ tab'[t].files = tab[t].files \/ (s \in tab[t].granted /\ tab'[t].files = s)
         /\ UNCHANGED <<app, stored, session, accepted, revoking, out, escaped>>
<1> DEFINE answered == [tab[t] EXCEPT !.links = @ \ {s}, !.granted = @ \ {s}, !.files = s]
           failed == [tab[t] EXCEPT !.links = @ \ {s}, !.granted = @ \ {s}]
<1>1. tab \in [Tabs -> Tab] /\ tab[t] \in Tab
  BY DEF TypeOK
<1>2. CASE ServeFiles(t, s)
  BY <1>1, <1>2 DEF ServeFiles, Grants, Tab
<1>3. CASE AnswerFiles(t, s)
  <2>1. /\ answered \in Tab
        /\ answered.key = tab[t].key /\ answered.login = tab[t].login /\ answered.asked = tab[t].asked
        /\ answered.result = tab[t].result /\ answered.gate = tab[t].gate
        /\ answered.links = tab[t].links \ {s} /\ answered.granted = tab[t].granted \ {s}
        /\ answered.files = s
    BY <1>1 DEF Tab
  <2>2. tab' = [tab EXCEPT ![t] = answered] /\ s \in tab[t].granted
    BY <1>3 DEF AnswerFiles
  <2> HIDE DEF answered
  <2> QED
    BY <1>1, <1>3, <2>1, <2>2 DEF AnswerFiles
<1>4. CASE FailFiles(t, s)
  <2>1. /\ failed \in Tab
        /\ failed.key = tab[t].key /\ failed.login = tab[t].login /\ failed.asked = tab[t].asked
        /\ failed.result = tab[t].result /\ failed.gate = tab[t].gate
        /\ failed.links = tab[t].links \ {s} /\ failed.granted = tab[t].granted \ {s}
        /\ failed.files = tab[t].files
    BY <1>1 DEF Tab
  <2>2. tab' = [tab EXCEPT ![t] = failed] /\ s \in tab[t].links
    BY <1>4 DEF FailFiles
  <2> HIDE DEF failed
  <2> QED
    BY <1>1, <1>4, <2>1, <2>2 DEF FailFiles
<1> QED
  BY <1>2, <1>3, <1>4

\* The states that a step may leave, with what every step needs to know of them.
LEMMA StepTypes == TypeOK /\ Emptied /\ [Next]_vars => TypeOK'
<1> SUFFICES ASSUME TypeOK, Emptied, [Next]_vars PROVE TypeOK'
  OBVIOUS
<1> USE SessionAssumption DEF TypeOK, Tab, Gates
<1>1. ASSUME NEW t \in Tabs, Open(t) PROVE TypeOK'
  BY <1>1 DEF Open, Fresh
<1>2. ASSUME NEW t \in Tabs, Submit(t) PROVE TypeOK'
  BY <1>2 DEF Submit
<1>3. ASSUME NEW t \in Tabs, AnswerLogin(t) PROVE TypeOK'
  <2>1. tab[t] \in Tab /\ tab[t].login \in Sessions
    BY <1>3 DEF AnswerLogin
  <2>2. WithKey(t, tab[t].login) \in Tab
    BY <2>1 DEF WithKey
  <2>3. tab' \in [Tabs -> Tab]
    BY <2>2, <1>3 DEF AnswerLogin
  <2> QED
    BY <2>1, <2>3, <1>3 DEF AnswerLogin, Store
<1>4. ASSUME NEW t \in Tabs, FailLogin(t) PROVE TypeOK'
  BY <1>4 DEF FailLogin
<1>5. ASSUME NEW t \in Tabs, Logout(t) PROVE TypeOK'
  <2>1. tab[t] \in Tab /\ tab[t].key \in Sessions
    BY <1>5 DEF Logout
  <2>2. tab' \in [Tabs -> Tab]
    <3>1. LoggedOut(t) \in Tab
      BY <2>1 DEF LoggedOut
    <3> QED
      BY <3>1, <1>5 DEF Logout
  <2>3. revoking' \subseteq Sessions
    BY <1>5 DEF Logout, LoggedOut, Revoked
  <2>4. UNCHANGED <<app, session, accepted, escaped>> /\ stored' = None /\ out' \subseteq Sessions
    BY <2>1, <1>5 DEF Logout
  <2> QED
    BY <2>2, <2>3, <2>4
<1>6. ASSUME NEW t \in Tabs, ReadGate(t) \/ AnswerGate(t) PROVE TypeOK'
  BY <1>6 DEF ReadGate, AnswerGate
<1>7. ASSUME NEW t \in Tabs, Accept(t) \/ AnswerAccept(t) \/ FailAccept(t) PROVE TypeOK'
  BY <1>7 DEF Accept, AnswerAccept, FailAccept
<1>14. ASSUME NEW t \in Tabs, ServeAccept(t) PROVE TypeOK'
  <2>1. tab[t].key \in Sessions
    BY <1>14 DEF ServeAccept, Emptied
  <2>2. accepted' \subseteq Owners
    BY <2>1, <1>14 DEF ServeAccept
  <2>3. tab' \in [Tabs -> Tab]
    BY <1>14 DEF ServeAccept
  <2>4. UNCHANGED <<app, stored, session, revoking, out, escaped>>
    BY <1>14 DEF ServeAccept
  <2> QED
    BY <2>2, <2>3, <2>4
<1>8. ASSUME NEW t \in Tabs, FetchFiles(t) PROVE TypeOK'
  BY <1>8 DEF FetchFiles, Shown
<1>15. ASSUME NEW t \in Tabs, NEW s \in Sessions, ServeFiles(t, s) \/ AnswerFiles(t, s) \/ FailFiles(t, s) PROVE TypeOK'
  BY <1>15, LinksEffect
<1>9. ASSUME NEW t \in Tabs, NEW s \in Sessions, ServeLogin(t, s) PROVE TypeOK'
  BY <1>9 DEF ServeLogin, Issue
<1>10. ASSUME NEW t \in Tabs, NEW s \in Sessions, Impersonate(t, s) PROVE TypeOK'
  BY <1>10 DEF Impersonate, Issue, Store, Fresh
<1>11. ASSUME NEW t \in Tabs, NEW s \in Sessions, Answer(t, s) PROVE TypeOK'
  <2>1. tab[t] \in Tab
    OBVIOUS
  <2>2. PICK result \in {s, tab[t].result} :
          tab' = [tab EXCEPT ![t] = [tab[t] EXCEPT !.asked = @ \ {s}, !.result = result]]
    BY <1>11 DEF Answer
  <2> DEFINE answered == [tab[t] EXCEPT !.asked = @ \ {s}, !.result = result]
  <2>3. answered \in Tab
    BY <2>1
  <2>4. tab' = [tab EXCEPT ![t] = answered]
    BY <2>2
  <2> HIDE DEF answered
  <2>5. tab' \in [Tabs -> Tab]
    BY <2>3, <2>4
  <2> QED
    BY <2>5, <1>11 DEF Answer
<1>12. ASSUME NEW s \in Sessions, ServeRevoke(s) \/ LoseRevoke(s) \/ Expire(s) PROVE TypeOK'
  BY <1>12 DEF ServeRevoke, LoseRevoke, Expire
<1>13. CASE UNCHANGED vars
  BY <1>13 DEF vars
<1> QED
  BY <1>1, <1>2, <1>3, <1>4, <1>5, <1>6, <1>7, <1>8, <1>9, <1>10, <1>11, <1>12, <1>13, <1>14, <1>15 DEF Next

\* A key comes only to a tab without one; it leaves with all it showed.
LEMMA StepEmptied == TypeOK /\ Emptied /\ Asking /\ [Next]_vars => Emptied'
<1> SUFFICES ASSUME TypeOK /\ Emptied /\ Asking, [Next]_vars PROVE Emptied'
  OBVIOUS
<1> USE SessionAssumption DEF TypeOK, Tab, Gates, Emptied
<1>1. ASSUME NEW t \in Tabs, Open(t) PROVE Emptied'
  BY <1>1 DEF Open, Fresh
<1>2. ASSUME NEW t \in Tabs, Submit(t) PROVE Emptied'
  BY <1>2 DEF Submit, FormShown
<1>3. ASSUME NEW t \in Tabs, AnswerLogin(t) PROVE Emptied'
  BY <1>3 DEF AnswerLogin, Store, WithKey
<1>4. ASSUME NEW t \in Tabs, FailLogin(t) PROVE Emptied'
  BY <1>4 DEF FailLogin
<1>5. ASSUME NEW t \in Tabs, Logout(t) PROVE Emptied'
  BY <1>5 DEF Logout, LoggedOut, Revoked
<1>6. ASSUME NEW t \in Tabs, ReadGate(t) \/ AnswerGate(t) PROVE Emptied'
  BY <1>6 DEF ReadGate, AnswerGate
<1>7. ASSUME NEW t \in Tabs, Accept(t) \/ AnswerAccept(t) \/ FailAccept(t) PROVE Emptied'
  BY <1>7 DEF Accept, AnswerAccept, FailAccept
<1>14. ASSUME NEW t \in Tabs, ServeAccept(t) PROVE Emptied'
  BY <1>14 DEF ServeAccept
<1>8. ASSUME NEW t \in Tabs, FetchFiles(t) PROVE Emptied'
  BY <1>8 DEF FetchFiles, Shown
<1>15. ASSUME NEW t \in Tabs, NEW s \in Sessions, ServeFiles(t, s) \/ AnswerFiles(t, s) \/ FailFiles(t, s) PROVE Emptied'
  BY <1>15, LinksEffect DEF Asking
<1>9. ASSUME NEW t \in Tabs, NEW s \in Sessions, ServeLogin(t, s) PROVE Emptied'
  BY <1>9 DEF ServeLogin, Issue
<1>10. ASSUME NEW t \in Tabs, NEW s \in Sessions, Impersonate(t, s) PROVE Emptied'
  BY <1>10 DEF Impersonate, Issue, Store, Fresh
<1>11. ASSUME NEW t \in Tabs, NEW s \in Sessions, Answer(t, s) PROVE Emptied'
  BY <1>11 DEF Answer
<1>12. ASSUME NEW s \in Sessions, ServeRevoke(s) \/ LoseRevoke(s) \/ Expire(s) PROVE Emptied'
  BY <1>12 DEF ServeRevoke, LoseRevoke, Expire
<1>13. CASE UNCHANGED vars
  BY <1>13 DEF vars, Shown
<1> QED
  BY <1>1, <1>2, <1>3, <1>4, <1>5, <1>6, <1>7, <1>8, <1>9, <1>10, <1>11, <1>12, <1>13, <1>14, <1>15 DEF Next

\* What is shown keeps the owner of the key it was answered to.
LEMMA StepOneOwner == TypeOK /\ Emptied /\ Asking /\ Saved /\ OneOwner /\ [Next]_vars => (Asking /\ Saved /\ OneOwner)'
<1> SUFFICES ASSUME TypeOK /\ Emptied /\ Asking /\ Saved /\ OneOwner, [Next]_vars PROVE (Asking /\ Saved /\ OneOwner)'
  OBVIOUS
<1> USE SessionAssumption DEF TypeOK, Tab, Gates, Emptied, Asking, Saved, OneOwner, Shown
<1>1. ASSUME NEW t \in Tabs, Open(t) PROVE (Asking /\ Saved /\ OneOwner)'
  BY <1>1 DEF Open, Fresh
<1>2. ASSUME NEW t \in Tabs, Submit(t) PROVE (Asking /\ Saved /\ OneOwner)'
  BY <1>2 DEF Submit, FormShown
<1>3. ASSUME NEW t \in Tabs, AnswerLogin(t) PROVE (Asking /\ Saved /\ OneOwner)'
  BY <1>3 DEF AnswerLogin, Store, WithKey
<1>4. ASSUME NEW t \in Tabs, FailLogin(t) PROVE (Asking /\ Saved /\ OneOwner)'
  BY <1>4 DEF FailLogin
<1>5. ASSUME NEW t \in Tabs, Logout(t) PROVE (Asking /\ Saved /\ OneOwner)'
  BY <1>5 DEF Logout, LoggedOut, Revoked
<1>6. ASSUME NEW t \in Tabs, ReadGate(t) \/ AnswerGate(t) PROVE (Asking /\ Saved /\ OneOwner)'
  BY <1>6 DEF ReadGate, AnswerGate
<1>7. ASSUME NEW t \in Tabs, Accept(t) \/ AnswerAccept(t) \/ FailAccept(t) PROVE (Asking /\ Saved /\ OneOwner)'
  BY <1>7 DEF Accept, AnswerAccept, FailAccept
<1>14. ASSUME NEW t \in Tabs, ServeAccept(t) PROVE (Asking /\ Saved /\ OneOwner)'
  BY <1>14 DEF ServeAccept
<1>8. ASSUME NEW t \in Tabs, FetchFiles(t) PROVE (Asking /\ Saved /\ OneOwner)'
  BY <1>8 DEF FetchFiles, Shown
<1>15. ASSUME NEW t \in Tabs, NEW s \in Sessions, ServeFiles(t, s) \/ AnswerFiles(t, s) \/ FailFiles(t, s) PROVE (Asking /\ Saved /\ OneOwner)'
  BY <1>15, LinksEffect
<1>9. ASSUME NEW t \in Tabs, NEW s \in Sessions, ServeLogin(t, s) PROVE (Asking /\ Saved /\ OneOwner)'
  BY <1>9 DEF ServeLogin, Issue
<1>10. ASSUME NEW t \in Tabs, NEW s \in Sessions, Impersonate(t, s) PROVE (Asking /\ Saved /\ OneOwner)'
  BY <1>10 DEF Impersonate, Issue, Store, Fresh
<1>11. ASSUME NEW t \in Tabs, NEW s \in Sessions, Answer(t, s) PROVE (Asking /\ Saved /\ OneOwner)'
  BY <1>11 DEF Answer
<1>12. ASSUME NEW s \in Sessions, ServeRevoke(s) \/ LoseRevoke(s) \/ Expire(s) PROVE (Asking /\ Saved /\ OneOwner)'
  BY <1>12 DEF ServeRevoke, LoseRevoke, Expire
<1>13. CASE UNCHANGED vars
  BY <1>13 DEF vars, Shown
<1> QED
  BY <1>1, <1>2, <1>3, <1>4, <1>5, <1>6, <1>7, <1>8, <1>9, <1>10, <1>11, <1>12, <1>13, <1>14, <1>15 DEF Next

\* A token leaves the store replaced, or by a logout that has it revoked.
LEMMA StepAccounted == TypeOK /\ (app.revokes => Displaced) /\ LogoutEndsSession /\ [Next]_vars => ((app.revokes => Displaced) /\ LogoutEndsSession)'
<1> SUFFICES ASSUME TypeOK /\ (app.revokes => Displaced) /\ LogoutEndsSession, [Next]_vars PROVE ((app.revokes => Displaced) /\ LogoutEndsSession)'
  OBVIOUS
<1> USE SessionAssumption DEF TypeOK, Tab, Displaced, LogoutEndsSession, Accounted
<1>1. ASSUME NEW t \in Tabs, Open(t) PROVE ((app.revokes => Displaced) /\ LogoutEndsSession)'
  BY <1>1 DEF Open, Fresh
<1>2. ASSUME NEW t \in Tabs, Submit(t) PROVE ((app.revokes => Displaced) /\ LogoutEndsSession)'
  BY <1>2 DEF Submit, FormShown
<1>3. ASSUME NEW t \in Tabs, AnswerLogin(t) PROVE ((app.revokes => Displaced) /\ LogoutEndsSession)'
  BY <1>3 DEF AnswerLogin, Store, WithKey
<1>4. ASSUME NEW t \in Tabs, FailLogin(t) PROVE ((app.revokes => Displaced) /\ LogoutEndsSession)'
  BY <1>4 DEF FailLogin
<1>5. ASSUME NEW t \in Tabs, Logout(t) PROVE ((app.revokes => Displaced) /\ LogoutEndsSession)'
  BY <1>5 DEF Logout, LoggedOut, Revoked
<1>6. ASSUME NEW t \in Tabs, ReadGate(t) \/ AnswerGate(t) PROVE ((app.revokes => Displaced) /\ LogoutEndsSession)'
  BY <1>6 DEF ReadGate, AnswerGate
<1>7. ASSUME NEW t \in Tabs, Accept(t) \/ AnswerAccept(t) \/ FailAccept(t) PROVE ((app.revokes => Displaced) /\ LogoutEndsSession)'
  BY <1>7 DEF Accept, AnswerAccept, FailAccept
<1>14. ASSUME NEW t \in Tabs, ServeAccept(t) PROVE ((app.revokes => Displaced) /\ LogoutEndsSession)'
  BY <1>14 DEF ServeAccept
<1>8. ASSUME NEW t \in Tabs, FetchFiles(t) PROVE ((app.revokes => Displaced) /\ LogoutEndsSession)'
  BY <1>8 DEF FetchFiles, Shown
<1>15. ASSUME NEW t \in Tabs, NEW s \in Sessions, ServeFiles(t, s) \/ AnswerFiles(t, s) \/ FailFiles(t, s) PROVE ((app.revokes => Displaced) /\ LogoutEndsSession)'
  BY <1>15, LinksEffect
<1>9. ASSUME NEW t \in Tabs, NEW s \in Sessions, ServeLogin(t, s) PROVE ((app.revokes => Displaced) /\ LogoutEndsSession)'
  BY <1>9 DEF ServeLogin, Issue
<1>10. ASSUME NEW t \in Tabs, NEW s \in Sessions, Impersonate(t, s) PROVE ((app.revokes => Displaced) /\ LogoutEndsSession)'
  BY <1>10 DEF Impersonate, Issue, Store, Fresh
<1>11. ASSUME NEW t \in Tabs, NEW s \in Sessions, Answer(t, s) PROVE ((app.revokes => Displaced) /\ LogoutEndsSession)'
  BY <1>11 DEF Answer
<1>12. ASSUME NEW s \in Sessions, ServeRevoke(s) \/ LoseRevoke(s) \/ Expire(s) PROVE ((app.revokes => Displaced) /\ LogoutEndsSession)'
  BY <1>12 DEF ServeRevoke, LoseRevoke, Expire
<1>13. CASE UNCHANGED vars
  BY <1>13 DEF vars, Shown
<1> QED
  BY <1>1, <1>2, <1>3, <1>4, <1>5, <1>6, <1>7, <1>8, <1>9, <1>10, <1>11, <1>12, <1>13, <1>14, <1>15 DEF Next

\* IInv holds in every reachable state, for any tabs, credentials, owners and
\* applications.
THEOREM Inductive == Spec => []IInv
<1>1. IInv /\ [Next]_vars => IInv'
  BY StepTypes, StepEmptied, StepOneOwner, StepAccounted DEF IInv
<1> QED
  BY InitIInv, <1>1, PTL DEF Spec

\* The variables keep their types.
THEOREM TypeCorrect == Spec => []TypeOK
<1>1. IInv => TypeOK
  BY DEF IInv
<1> QED
  BY Inductive, <1>1, PTL

\* What a tab shows belongs to who is logged in there (features-context.tsx,
\* compte/page.tsx, CGUGate.tsx).
THEOREM ShowsOneOwner == Spec => []OneOwner
<1>1. IInv => OneOwner
  BY DEF IInv
<1> QED
  BY Inductive, <1>1, PTL

\* A token logged out of is refused, being revoked, or has escaped its logout
\* (auth-context.tsx, auth/service.go).
THEOREM LogoutIsAccounted == Spec => []LogoutEndsSession
<1>1. IInv => LogoutEndsSession
  BY DEF IInv
<1> QED
  BY Inductive, <1>1, PTL
=============================================================================
