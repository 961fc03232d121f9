------------------------------- MODULE Session -------------------------------
(***************************************************************************)
(* Who is logged in: the credential that a web application keeps in the    *)
(* browser's localStorage, the tabs that use it, and the sessions on the   *)
(* server.  The four applications with a login (tenant-dashboard,          *)
(* admin-dashboard, the administration of mahu-web, the customer account   *)
(* of storefront-nathan) share the pattern; an App says where they differ. *)
(*                                                                         *)
(* The store is shared by the tabs, but a tab reads it only when its page  *)
(* is loaded and after its own logins and logouts: its listeners are in    *)
(* its own document.  What a tab shows was answered to the key it had when *)
(* it asked.  localStorage is assumed to work: without it no login lasts.  *)
(***************************************************************************)

CONSTANTS
  Tabs,
  Sessions,   \* the credentials: tokens, and technical keys
  Keys,       \* the technical keys among them (X-API-Key, X-Admin-Key)
  Owners,     \* shops, or customers
  OwnerOf,    \* whose credential it is
  Apps        \* the applications

None == "none"

(***************************************************************************)
(* revokes: "Se deconnecter" asks the server to revoke the token.          *)
(* keys: a technical key is accepted at the login form.                    *)
(* adopts: a link opened by ABMCY's support carries a token.               *)
(* provider: what was answered is kept outside the gate, over a logout,    *)
(* with the key it was answered to (FeaturesProvider).                     *)
(* stored: a call carries the stored token, not the tab's.                 *)
(***************************************************************************)
App == [revokes: BOOLEAN, keys: BOOLEAN, adopts: BOOLEAN, provider: BOOLEAN, stored: BOOLEAN]

TenantDashboard == [revokes |-> TRUE, keys |-> TRUE, adopts |-> TRUE, provider |-> TRUE, stored |-> FALSE]
AdminDashboard == [revokes |-> FALSE, keys |-> TRUE, adopts |-> FALSE, provider |-> FALSE, stored |-> FALSE]
MahuAdmin == [revokes |-> TRUE, keys |-> FALSE, adopts |-> FALSE, provider |-> FALSE, stored |-> FALSE]
CustomerAccount == [revokes |-> FALSE, keys |-> FALSE, adopts |-> FALSE, provider |-> FALSE, stored |-> TRUE]

ASSUME SessionAssumption ==
  /\ Keys \subseteq Sessions
  /\ OwnerOf \in [Sessions -> Owners]
  /\ Apps \subseteq App
  /\ None \notin Sessions \cup {"sent"} /\ "sent" \notin Sessions

VARIABLES
  app,
  stored,     \* the credential in localStorage
  tab,
  session,    \* the credentials on the server
  accepted,   \* the owners that accepted the terms of use
  revoking,   \* calls to POST /auth/logout in flight, by token
  out,        \* history: tokens a tab was logged out of
  escaped     \* history: tokens another credential was stored over, and those whose
              \* revocation did not arrive

vars == <<app, stored, tab, session, accepted, revoking, out, escaped>>

(***************************************************************************)
(* key: the credential in use; param: the page was opened by a link with a *)
(* token; login: the call of the form, or its answer; asked: the calls in  *)
(* flight that read what the page shows, by key; result: the answer kept;  *)
(* gate: what CGUGate knows of the terms, or has asked; links: the calls   *)
(* in flight for the links of an order, by the token they carry, and those *)
(* of them that were granted; files: whose token fetched the links shown.  *)
(***************************************************************************)
Gates == {"unknown", "read", "refused", "accepting", "saved", "accepted", "unread"}
Tab == [key: Sessions \cup {None}, param: BOOLEAN, login: Sessions \cup {None, "sent"},
        asked: SUBSET Sessions, result: Sessions \cup {None}, gate: Gates,
        links: SUBSET Sessions, granted: SUBSET Sessions, files: Sessions \cup {None}]

TypeOK ==
  /\ app \in Apps
  /\ stored \in Sessions \cup {None}
  /\ tab \in [Tabs -> Tab]
  /\ session \in [Sessions -> {"unissued", "valid", "ended"}]
  /\ accepted \subseteq Owners
  /\ revoking \subseteq Sessions /\ out \subseteq Sessions /\ escaped \subseteq Sessions

\* Wrong form of Fresh: the absence of a key is taken for one.
WrongFresh(k) == [key |-> k, param |-> FALSE, login |-> None, asked |-> {k},
                  result |-> None, gate |-> "unknown",
                  links |-> {}, granted |-> {}, files |-> None]

\* A page that has just been loaded with key k: its effects ask what it shows.
Fresh(k) == [key |-> k, param |-> FALSE, login |-> None, asked |-> {k} \ {None},
             result |-> None, gate |-> "unknown",
             links |-> {}, granted |-> {}, files |-> None]

Init ==
  /\ app \in Apps
  /\ stored = None
  /\ tab = [t \in Tabs |-> Fresh(None)]
  /\ session = [s \in Sessions |-> IF s \in Keys THEN "valid" ELSE "unissued"]
  /\ accepted = {}
  /\ revoking = {} /\ out = {} /\ escaped = {}

-----------------------------------------------------------------------------
(* The server *)

Issue(s) == session[s] = "unissued" /\ session' = [session EXCEPT ![s] = "valid"]

\* The login of a form: a token is issued, or a technical key is tried on a list.
ServeLogin(t, s) ==
  /\ tab[t].login = "sent"
  /\ IF s \in Keys THEN app.keys /\ UNCHANGED session ELSE Issue(s)
  /\ tab' = [tab EXCEPT ![t].login = s]
  /\ UNCHANGED <<app, stored, accepted, revoking, out, escaped>>

\* POST /auth/logout: the token is refused from now on.
ServeRevoke(s) ==
  /\ s \in revoking
  /\ revoking' = revoking \ {s}
  /\ session' = [session EXCEPT ![s] = "ended"]
  /\ UNCHANGED <<app, stored, tab, accepted, out, escaped>>

\* The call is lost, or refused (the shop is suspended): nobody is told.
LoseRevoke(s) ==
  /\ s \in revoking
  /\ revoking' = revoking \ {s}
  /\ escaped' = escaped \cup {s}
  /\ UNCHANGED <<app, stored, tab, session, accepted, out>>

\* A token lives for a day, an impersonation for an hour.
Expire(s) ==
  /\ s \notin Keys
  /\ session[s] = "valid"
  /\ session' = [session EXCEPT ![s] = "ended"]
  /\ UNCHANGED <<app, stored, tab, accepted, revoking, out, escaped>>

-----------------------------------------------------------------------------
(* Logging in and out *)

\* storeApiKey, over whatever is stored.
Store(s) == stored' = s /\ escaped' = escaped \cup ({stored} \ (Keys \cup {None, s}))

\* The key of tab t becomes s: the gate opens and what it holds is mounted.
WithKey(t, s) == [tab[t] EXCEPT !.key = s, !.login = None, !.asked = @ \cup {s}]

\* The page is loaded, in a new tab or again: the store is read.
Open(t) ==
  /\ tab' = [tab EXCEPT ![t] = Fresh(stored)]
  /\ UNCHANGED <<app, stored, session, accepted, revoking, out, escaped>>

\* "Se connecter en tant que": the link of ABMCY's support, whose token the page
\* adopts before it shows anything.
Impersonate(t, s) ==
  /\ app.adopts
  /\ s \notin Keys
  /\ Issue(s)
  /\ Store(s)
  /\ tab' = [tab EXCEPT ![t] = [Fresh(s) EXCEPT !.param = TRUE]]
  /\ UNCHANGED <<app, accepted, revoking, out>>

\* AuthGate: the form, unless the page was opened by a link with a token.
FormShown(t) == tab[t].key = None /\ ~tab[t].param

Submit(t) ==
  /\ FormShown(t)
  /\ tab[t].login = None
  /\ tab' = [tab EXCEPT ![t].login = "sent"]
  /\ UNCHANGED <<app, stored, session, accepted, revoking, out, escaped>>

AnswerLogin(t) ==
  /\ tab[t].login \in Sessions
  /\ Store(tab[t].login)
  /\ tab' = [tab EXCEPT ![t] = WithKey(t, tab[t].login)]
  /\ UNCHANGED <<app, session, accepted, revoking, out>>

FailLogin(t) ==
  /\ tab[t].login # None
  /\ tab' = [tab EXCEPT ![t].login = None]
  /\ UNCHANGED <<app, stored, session, accepted, revoking, out, escaped>>

\* Wrong form of Revoked: the store is read after it was cleared.
WrongRevoked == {}

\* The token that a logout asks the server to revoke: the stored one.
Revoked == IF app.revokes THEN {stored} \ (Keys \cup {None}) ELSE {}

\* What tab t shows once its key is gone: what is inside the gate is unmounted, and
\* only the provider keeps its answer.
LoggedOut(t) ==
  LET kept == IF app.provider THEN tab[t].result ELSE None
  IN [tab[t] EXCEPT !.key = None, !.asked = {}, !.result = kept, !.gate = "unknown",
                    !.links = {}, !.granted = {}, !.files = None]

Logout(t) ==
  /\ tab[t].key # None
  /\ revoking' = revoking \cup Revoked
  /\ stored' = None
  /\ out' = out \cup ({tab[t].key} \ Keys)
  /\ tab' = [tab EXCEPT ![t] = LoggedOut(t)]
  /\ UNCHANGED <<app, session, accepted, escaped>>

-----------------------------------------------------------------------------
(* What a tab shows *)

\* Wrong form of Shown: the key of the answer is not looked at.
WrongShown(t) == IF tab[t].key # None THEN tab[t].result ELSE None

\* FeaturesProvider compares the key of the answer with its own.
Shown(t) == IF tab[t].key # None /\ tab[t].result = tab[t].key THEN tab[t].result ELSE None

\* An answer, or an error that shows nothing.
Answer(t, s) ==
  /\ s \in tab[t].asked
  /\ \E result \in {s, tab[t].result} :
       tab' = [tab EXCEPT ![t] = [tab[t] EXCEPT !.asked = @ \ {s}, !.result = result]]
  /\ UNCHANGED <<app, stored, session, accepted, revoking, out, escaped>>

\* CGUGate asks for the subscription: it is read not accepted, which another tab may
\* change before the answer, or accepted, or not read, which does not block.
ReadGate(t) ==
  /\ app.provider
  /\ tab[t].key # None /\ tab[t].gate = "unknown"
  /\ \E gate \in {IF OwnerOf[tab[t].key] \in accepted THEN "accepted" ELSE "read", "unread"} :
       tab' = [tab EXCEPT ![t].gate = gate]
  /\ UNCHANGED <<app, stored, session, accepted, revoking, out, escaped>>

AnswerGate(t) ==
  /\ tab[t].gate = "read"
  /\ \E gate \in {"refused", "unread"} : tab' = [tab EXCEPT ![t].gate = gate]
  /\ UNCHANGED <<app, stored, session, accepted, revoking, out, escaped>>

\* handleAccept: one call at a time.
Accept(t) ==
  /\ tab[t].gate = "refused"
  /\ tab' = [tab EXCEPT ![t].gate = "accepting"]
  /\ UNCHANGED <<app, stored, session, accepted, revoking, out, escaped>>

ServeAccept(t) ==
  /\ tab[t].gate = "accepting"
  /\ session[tab[t].key] = "valid"
  /\ accepted' = accepted \cup {OwnerOf[tab[t].key]}
  /\ tab' = [tab EXCEPT ![t].gate = "saved"]
  /\ UNCHANGED <<app, stored, session, revoking, out, escaped>>

AnswerAccept(t) ==
  /\ tab[t].gate = "saved"
  /\ tab' = [tab EXCEPT ![t].gate = "accepted"]
  /\ UNCHANGED <<app, stored, session, accepted, revoking, out, escaped>>

FailAccept(t) ==
  /\ tab[t].gate \in {"accepting", "saved"}
  /\ tab' = [tab EXCEPT ![t].gate = "refused"]
  /\ UNCHANGED <<app, stored, session, accepted, revoking, out, escaped>>

\* Wrong form of Grants: the order's customer is not looked at.
WrongGrants(s, o) == session[s] = "valid"

\* handleCustomerOrderDelivery: to the order's own customer.
Grants(s, o) == session[s] = "valid" /\ OwnerOf[s] = o

\* "Retelecharger", for an order of the list that is shown: the call carries the
\* token that is stored by then.  The button can be pressed again meanwhile.
FetchFiles(t) ==
  /\ app.stored
  /\ Shown(t) # None
  /\ stored # None
  /\ tab' = [tab EXCEPT ![t].links = @ \cup {stored}]
  /\ UNCHANGED <<app, stored, session, accepted, revoking, out, escaped>>

ServeFiles(t, s) ==
  /\ s \in tab[t].links \ tab[t].granted
  /\ Grants(s, OwnerOf[tab[t].result])
  /\ tab' = [tab EXCEPT ![t].granted = @ \cup {s}]
  /\ UNCHANGED <<app, stored, session, accepted, revoking, out, escaped>>

\* setLinks, if the list that asked is still there.
AnswerFiles(t, s) ==
  /\ s \in tab[t].granted
  /\ tab' = [tab EXCEPT ![t] = [tab[t] EXCEPT !.links = @ \ {s}, !.granted = @ \ {s}, !.files = s]]
  /\ UNCHANGED <<app, stored, session, accepted, revoking, out, escaped>>

\* Refused, or lost: nothing is shown.
FailFiles(t, s) ==
  /\ s \in tab[t].links
  /\ tab' = [tab EXCEPT ![t] = [tab[t] EXCEPT !.links = @ \ {s}, !.granted = @ \ {s}]]
  /\ UNCHANGED <<app, stored, session, accepted, revoking, out, escaped>>

-----------------------------------------------------------------------------
Next ==
  \/ \E t \in Tabs : Open(t) \/ Submit(t) \/ AnswerLogin(t) \/ FailLogin(t) \/ Logout(t)
                     \/ ReadGate(t) \/ AnswerGate(t)
                     \/ Accept(t) \/ ServeAccept(t) \/ AnswerAccept(t) \/ FailAccept(t)
                     \/ FetchFiles(t)
  \/ \E t \in Tabs, s \in Sessions : ServeLogin(t, s) \/ Impersonate(t, s) \/ Answer(t, s)
                                       \/ ServeFiles(t, s) \/ AnswerFiles(t, s) \/ FailFiles(t, s)
  \/ \E s \in Sessions : ServeRevoke(s) \/ LoseRevoke(s) \/ Expire(s)

Spec == Init /\ [][Next]_vars

-----------------------------------------------------------------------------
(* Properties *)

\* What a tab shows belongs to who is logged in there, whatever other tabs logged in
\* or out meanwhile and however late the answers: the services in the navigation, the
\* links of an order of the list, the terms taken as accepted (features-context.tsx
\* 42-46, compte/page.tsx 185-192, CGUGate.tsx).
OneOwner ==
  \A t \in Tabs :
    /\ Shown(t) # None => OwnerOf[Shown(t)] = OwnerOf[tab[t].key]
    /\ tab[t].files # None => tab[t].key # None /\ OwnerOf[tab[t].files] = OwnerOf[tab[t].key]
    /\ tab[t].gate = "accepted" => OwnerOf[tab[t].key] \in accepted

\* Where logging out revokes, a token that some tab logged out of is refused by the
\* server, or its revocation is on its way or was lost; or another tab had stored
\* another credential over it, and that one was revoked in its place (logout,
\* auth-context.tsx 96-110).
LogoutEndsSession ==
  app.revokes => out \subseteq {s \in Sessions : session[s] = "ended"} \cup revoking \cup escaped
=============================================================================
