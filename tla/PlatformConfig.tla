--------------------------- MODULE PlatformConfig ---------------------------
(***************************************************************************)
(* The platform's credentials: internal/platformconfig, whose table every  *)
(* API replica keeps a copy of in memory.  A PUT writes the table and the  *)
(* copy of the replica that serves it; every replica reloads the table     *)
(* every 15 seconds.                                                       *)
(*                                                                         *)
(* Load is two actions, the SELECT (one statement, so a snapshot) and the  *)
(* swap of the map under the mutex; Set is two, the UPSERT's commit and    *)
(* the write to the map.  A value is named by the Set that wrote it.       *)
(***************************************************************************)
CONSTANTS
  Replicas,  \* API processes
  Keys,      \* configuration keys
  Writes     \* calls of Set that will ever be made (bounds a run)

ASSUME PlatformConfigAssumption == "unset" \notin Writes

VARIABLES
  db,        \* db[k]: the row of k in platform_config, or "unset"
  phase,     \* phase[r]: "down", "booting" (main's Load) or "serving"
  cache,     \* cache[r]: Service.cache
  loading,   \* replicas between the SELECT of Load and the swap
  snapshot,  \* snapshot[r]: what Load has read
  pc, on, key,  \* the calls of Set, the replica and the key of each
  committed  \* history: the values each key has had in the database

loadVars == <<loading, snapshot>>
setVars == <<pc, on, key>>
vars == <<db, phase, cache, loadVars, setVars, committed>>

Values == Writes \cup {"unset"}
Tables == [Keys -> Values]
Empty == [k \in Keys |-> "unset"]

TypeOK ==
  /\ db \in Tables
  /\ phase \in [Replicas -> {"down", "booting", "serving"}]
  /\ cache \in [Replicas -> Tables]
  /\ loading \subseteq Replicas
  /\ snapshot \in [Replicas -> Tables]
  /\ pc \in [Writes -> {"idle", "commit", "publish", "done", "error"}]
  /\ on \in [Writes -> Replicas \cup {"none"}]
  /\ key \in [Writes -> Keys \cup {"none"}]
  /\ committed \in [Keys -> SUBSET Writes]

Init ==
  /\ db = Empty
  /\ phase = [r \in Replicas |-> "down"]
  /\ cache = [r \in Replicas |-> Empty]
  /\ loading = {}
  /\ snapshot = [r \in Replicas |-> Empty]
  /\ pc = [w \in Writes |-> "idle"]
  /\ on = [w \in Writes |-> "none"]
  /\ key = [w \in Writes |-> "none"]
  /\ committed = [k \in Keys |-> {}]

-----------------------------------------------------------------------------
(* A replica's life *)

Boot(r) ==
  /\ phase[r] = "down"
  /\ phase' = [phase EXCEPT ![r] = "booting"]
  /\ UNCHANGED <<db, cache, loadVars, setVars, committed>>

\* The process ends: its memory is gone, and the calls of Set it was serving.
Crash(r) ==
  /\ phase[r] # "down"
  /\ phase' = [phase EXCEPT ![r] = "down"]
  /\ cache' = [cache EXCEPT ![r] = Empty]
  /\ loading' = loading \ {r}
  /\ pc' = [w \in Writes |->
             IF on[w] = r /\ pc[w] \in {"commit", "publish"} THEN "error" ELSE pc[w]]
  /\ UNCHANGED <<db, snapshot, on, key, committed>>

-----------------------------------------------------------------------------
(* Load: once before a replica serves, then at each tick *)

LoadRead(r) ==
  /\ phase[r] # "down"
  /\ r \notin loading
  /\ loading' = loading \cup {r}
  /\ snapshot' = [snapshot EXCEPT ![r] = db]
  /\ UNCHANGED <<db, phase, cache, setVars, committed>>

\* Wrong form of LoadSwap: keys already known are left alone.
WrongOnlyNew(r) ==
  /\ r \in loading
  /\ cache' = [cache EXCEPT ![r] =
                 [k \in Keys |-> IF @[k] = "unset" THEN snapshot[r][k] ELSE @[k]]]
  /\ loading' = loading \ {r}
  /\ phase' = [phase EXCEPT ![r] = "serving"]
  /\ UNCHANGED <<db, snapshot, setVars, committed>>

\* The map is replaced, whatever it holds by now.
LoadSwap(r) ==
  /\ r \in loading
  /\ cache' = [cache EXCEPT ![r] = snapshot[r]]
  /\ loading' = loading \ {r}
  /\ phase' = [phase EXCEPT ![r] = "serving"]
  /\ UNCHANGED <<db, snapshot, setVars, committed>>

\* Wrong forms of LoadFail: the map is swapped, for an empty one or for none.
WrongPartial(r) ==
  /\ r \in loading /\ phase[r] = "serving"
  /\ cache' = [cache EXCEPT ![r] = Empty]
  /\ loading' = loading \ {r}
  /\ UNCHANGED <<db, phase, snapshot, setVars, committed>>
WrongNil(r) ==
  /\ r \in loading /\ phase[r] = "serving"
  /\ cache' = [cache EXCEPT ![r] = << >>]
  /\ loading' = loading \ {r}
  /\ UNCHANGED <<db, phase, snapshot, setVars, committed>>

\* A refresh that fails is logged and skipped: the last good copy is kept.
\* At startup a failure ends the process: Crash.
LoadFail(r) ==
  /\ r \in loading
  /\ phase[r] = "serving"
  /\ loading' = loading \ {r}
  /\ UNCHANGED <<db, phase, cache, snapshot, setVars, committed>>

-----------------------------------------------------------------------------
(* PUT /admin/config/{key} *)

GoTo(w, step) == pc' = [pc EXCEPT ![w] = step]

Set(w, r, k) ==
  /\ pc[w] = "idle"
  /\ phase[r] = "serving"
  /\ GoTo(w, "commit")
  /\ on' = [on EXCEPT ![w] = r]
  /\ key' = [key EXCEPT ![w] = k]
  /\ UNCHANGED <<db, phase, cache, loadVars, committed>>

Commit(w) ==
  /\ pc[w] = "commit"
  /\ db' = [db EXCEPT ![key[w]] = w]
  /\ committed' = [committed EXCEPT ![key[w]] = @ \cup {w}]
  /\ GoTo(w, "publish")
  /\ UNCHANGED <<phase, cache, loadVars, on, key>>

Publish(w) ==
  /\ pc[w] = "publish"
  /\ cache' = [cache EXCEPT ![on[w]][key[w]] = w]
  /\ GoTo(w, "done")
  /\ UNCHANGED <<db, phase, loadVars, on, key, committed>>

\* Wrong form of SetFail: the error of the transaction is not looked at.
WrongUnchecked(w) ==
  /\ pc[w] = "commit"
  /\ GoTo(w, "publish")
  /\ UNCHANGED <<db, phase, cache, loadVars, on, key, committed>>

\* The transaction fails, and nothing is published.
SetFail(w) ==
  /\ pc[w] = "commit"
  /\ GoTo(w, "error")
  /\ UNCHANGED <<db, phase, cache, loadVars, on, key, committed>>

-----------------------------------------------------------------------------

Next ==
  \/ \E r \in Replicas :
       Boot(r) \/ Crash(r) \/ LoadRead(r) \/ LoadSwap(r) \/ LoadFail(r)
  \/ \E w \in Writes :
       \/ \E r \in Replicas, k \in Keys : Set(w, r, k)
       \/ Commit(w) \/ Publish(w) \/ SetFail(w)

\* The ticker keeps firing, and a refresh that is tried again and again
\* succeeds again and again: database failures are transient.
Fairness == \A r \in Replicas : WF_vars(LoadRead(r)) /\ SF_vars(LoadSwap(r))

Spec == Init /\ [][Next]_vars /\ Fairness

-----------------------------------------------------------------------------
(* Properties *)

\* No replica ever answers with a value that was not committed for that key: a
\* Set that failed leaves no trace in any copy, not even its own replica's.
CacheIsCommitted ==
  \A r \in Replicas, k \in Keys : cache[r][k] \in committed[k] \cup {"unset"}

\* Replica r is in step with the database on k, and nothing under way (a Set
\* between its commit and its write to the map, a refresh between its SELECT
\* and its swap) can put it out of step.
Settled(r, k) ==
  /\ phase[r] = "serving"
  /\ cache[r][k] = db[k]
  /\ r \in loading => snapshot[r][k] = db[k]
  /\ \A w \in Writes : (pc[w] = "publish" /\ on[w] = r /\ key[w] = k) => w = db[k]

\* Only a commit of another value, or the end of the process, puts a settled
\* replica out of step: no refresh does, not even one that fails.
SettledStays ==
  [][\A r \in Replicas, k \in Keys :
       Settled(r, k) => \/ Settled(r, k)'
                        \/ db'[k] # db[k]
                        \/ phase'[r] = "down"]_vars

\* When the Sets end, every serving replica comes to agree with the database
\* and stays so: a key set on one replica does not stay "not configured" on
\* the others, and whatever a race left in a copy is repaired.
Converges == <>[](\A r \in Replicas : phase[r] = "serving" => cache[r] = db)

=============================================================================
