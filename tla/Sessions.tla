---------------------------- MODULE Sessions ----------------------------
(***************************************************************************)
(* Server-side sessions: rows in sessions.json behind a cache trusted for  *)
(* CacheTTL, requests that look their session up and refresh it, the       *)
(* listing that sweeps expired ones, and the revocations.  Store and cache *)
(* have locks of their own; a step is one locked region, except that a     *)
(* refresh holds the cache's lock around its use of the store.  Times are  *)
(* ticks.                                                                  *)
(***************************************************************************)
EXTENDS Integers, FiniteSets

CONSTANTS
  Sids,
  Workers,     \* the threads that serve requests
  OwnerOf,     \* the user of each session
  CacheTTL,    \* cache_ttl_seconds
  Flush,       \* touch_flush_seconds
  Idle,        \* SESSION_TIMEOUT_MINUTES
  Absolute,    \* ABSOLUTE_SESSION_SECONDS
  Horizon,     \* bound: the clock
  MaxRequests  \* bound: requests served

Hours == 0..Horizon

ASSUME SessionAssumption ==
  /\ CacheTTL \in Nat \ {0} /\ Flush \in Nat \ {0} /\ Idle \in Nat \ {0} /\ Absolute \in Nat \ {0}
  /\ Horizon \in Nat /\ MaxRequests \in Nat /\ DOMAIN OwnerOf = Sids

VARIABLES
  time,
  rows,     \* sessions.json: a row or NoRow for each session
  cache,    \* _cache: an entry or NoEntry for each session
  cookie,   \* what the browser of each session holds, or NoRow
  work,     \* of each thread: the request it serves
  revoked,  \* of each session: when its first revocation finished, or -1
  alone,    \* sessions revoked while no other request on them was served
  requests

sessionVars == <<time, rows, cache, cookie, work, revoked, alone, requests>>

NoRow == [created |-> -1, active |-> -1]
Row == [created : Hours, active : Hours]
NoEntry == [row |-> NoRow, loaded |-> -1, persisted |-> -1]
NoWork == [op |-> "none", at |-> "idle", on |-> {}, row |-> NoRow, sent |-> NoRow, since |-> -1, alone |-> FALSE]
Ops == {"issue", "request", "revoke", "others", "user", "list"}

SessionTypeOK ==
  /\ time \in Hours /\ requests \in 0..MaxRequests /\ revoked \in [Sids -> Hours \cup {-1}]
  /\ rows \in [Sids -> Row \cup {NoRow}] /\ cookie \in [Sids -> Row \cup {NoRow}]
  /\ \A s \in Sids : cache[s] = NoEntry
                     \/ (cache[s].row \in Row /\ cache[s].loaded \in Hours /\ cache[s].persisted \in Hours)
  /\ \A t \in Workers : work[t] = NoWork \/ (work[t].op \in Ops /\ work[t].on \subseteq Sids)
  /\ alone \subseteq {s \in Sids : revoked[s] # -1}

SessionInit ==
  /\ time = 0 /\ rows = [s \in Sids |-> NoRow] /\ cache = [s \in Sids |-> NoEntry]
  /\ cookie = [s \in Sids |-> NoRow] /\ work = [t \in Workers |-> NoWork]
  /\ revoked = [s \in Sids |-> -1] /\ alone = {} /\ requests = 0

Expired(row) == time - row.active > Idle \/ time - row.created > Absolute
Entry(row, loaded) == [row |-> row, loaded |-> loaded, persisted |-> row.active]
Fresh(s) == cache[s] # NoEntry /\ time - cache[s].loaded <= CacheTTL
Drop(f, S, none) == [s \in Sids |-> IF s \in S THEN none ELSE f[s]]

Step(t, w) == work' = [work EXCEPT ![t] = w] /\ UNCHANGED <<time, requests>>

\* A thread takes up w, after which no other request on its sessions is alone.
Serve(t, w) ==
  /\ work[t] = NoWork /\ requests < MaxRequests /\ requests' = requests + 1
  /\ work' = [o \in Workers |-> IF o = t THEN [w EXCEPT !.since = time]
               ELSE IF work[o].on \cap w.on # {} THEN [work[o] EXCEPT !.alone = FALSE] ELSE work[o]]
  /\ UNCHANGED <<time, revoked, alone>>
Undisturbed(t, S) == \A o \in Workers \ {t} : work[o].on \cap S = {}

(***************************************************************************)
(* Signing in: the row is saved, then cached; then the cookie is set.      *)
(***************************************************************************)
Issue(t, s) ==
  /\ rows[s] = NoRow /\ cookie[s] = NoRow /\ revoked[s] = -1 /\ \A o \in Workers : s \notin work[o].on
  /\ rows' = [rows EXCEPT ![s] = [created |-> time, active |-> time]]
  /\ Serve(t, [NoWork EXCEPT !.op = "issue", !.at = "fill", !.on = {s}, !.row = rows'[s]])
  /\ UNCHANGED <<cache, cookie>>

(***************************************************************************)
(* _get_cached_or_load, at the start of every request on one session.      *)
(***************************************************************************)
LookUp(t, op, s) ==
  /\ cookie[s] # NoRow
  /\ Serve(t, [NoWork EXCEPT !.op = op, !.on = {s}, !.at = IF Fresh(s) THEN "found" ELSE "load",
                             !.row = IF Fresh(s) THEN cache[s].row ELSE NoRow, !.sent = cookie[s]])
  /\ UNCHANGED <<rows, cache, cookie>>

Load(t) ==
  LET w == work[t] IN
  /\ w.at = "load"
  /\ \E s \in w.on :
       IF rows[s] = NoRow
       THEN /\ Step(t, NoWork)
            /\ cache' = [cache EXCEPT ![s] = NoEntry]
            /\ cookie' = IF w.op = "request" THEN [cookie EXCEPT ![s] = NoRow] ELSE cookie
       ELSE Step(t, [w EXCEPT !.at = "fill", !.row = rows[s]]) /\ UNCHANGED <<cache, cookie>>
  /\ UNCHANGED <<rows, revoked, alone>>

Fill(t) ==
  LET w == work[t] IN
  /\ w.at = "fill"
  /\ \E s \in w.on :
       /\ cache' = [cache EXCEPT ![s] = Entry(w.row, w.since)]
       /\ cookie' = IF w.op = "issue" THEN [cookie EXCEPT ![s] = w.row] ELSE cookie
  /\ Step(t, IF w.op = "issue" THEN NoWork ELSE [w EXCEPT !.at = "found"])
  /\ UNCHANGED <<rows, revoked, alone>>

(***************************************************************************)
(* An authenticated request: the times in its cookie are checked, and if   *)
(* they pass the session is touched and the request goes through, whatever *)
(* the touch returns.                                                      *)
(***************************************************************************)
Touch(s) ==
  LET e == IF Fresh(s) THEN cache[s] ELSE IF rows[s] # NoRow THEN Entry(rows[s], time) ELSE NoEntry
      late == time - e.persisted >= Flush
      row == [e.row EXCEPT !.active = time]
  IN IF e = NoEntry THEN cache' = [cache EXCEPT ![s] = NoEntry] /\ UNCHANGED rows
     ELSE IF Expired(e.row)
     THEN cache' = [cache EXCEPT ![s] = NoEntry] /\ rows' = [rows EXCEPT ![s] = NoRow]
     ELSE /\ cache' = [cache EXCEPT ![s] = [row |-> row, loaded |-> time,
                                            persisted |-> IF late THEN time ELSE e.persisted]]
          /\ rows' = IF late THEN [rows EXCEPT ![s] = row] ELSE rows

Accept(t) ==
  LET w == work[t] IN
  /\ w.op = "request" /\ w.at = "found" /\ ~Expired(w.sent)
  /\ \E s \in w.on : Touch(s) /\ cookie' = [cookie EXCEPT ![s] = [w.sent EXCEPT !.active = time]]
  /\ Step(t, NoWork) /\ UNCHANGED <<revoked, alone>>

TimeOut(t) ==
  LET w == work[t] IN
  /\ w.op = "request" /\ w.at = "found" /\ Expired(w.sent)
  /\ cookie' = Drop(cookie, w.on, NoRow)
  /\ Step(t, [w EXCEPT !.at = "delete"]) /\ UNCHANGED <<rows, cache, revoked, alone>>

(***************************************************************************)
(* Removals: one session (revoke_session, logout, and expiry found by a    *)
(* request), the others of a user, all those of a deleted user, and the    *)
(* expired ones met by a listing.  The row goes first, the cache entry     *)
(* after it.                                                               *)
(***************************************************************************)
RevokeFound(t) ==
  /\ work[t].op = "revoke" /\ work[t].at = "found"
  /\ Step(t, [work[t] EXCEPT !.at = "delete"])
  /\ UNCHANGED <<rows, cache, cookie, revoked, alone>>

Delete(t) ==
  LET w == work[t] IN
  /\ w.at = "delete"
  /\ rows' = Drop(rows, w.on, NoRow)
  /\ Step(t, [w EXCEPT !.at = "pop", !.alone = w.op = "revoke" /\ Undisturbed(t, w.on)])
  /\ UNCHANGED <<cache, cookie, revoked, alone>>

DeleteMany(t, op, u, keep) ==
  LET gone == {s \in Sids : rows[s] # NoRow /\ OwnerOf[s] = u /\ s # keep} IN
  /\ op = "others" => cookie[keep] # NoRow /\ OwnerOf[keep] = u
  /\ rows' = Drop(rows, gone, NoRow)
  /\ Serve(t, [NoWork EXCEPT !.op = op, !.at = "pop", !.on = gone, !.alone = Undisturbed(t, gone)])
  /\ UNCHANGED <<cache, cookie>>

\* mutant of Pop: the cache entries stay
Pop_KeepsEntries(t) ==
  LET w == work[t] IN
  /\ w.at = "pop"
  /\ IF w.op \in {"revoke", "others", "user"}
     THEN /\ revoked' = [s \in Sids |-> IF s \in w.on /\ revoked[s] = -1 THEN time ELSE revoked[s]]
          /\ alone' = IF w.alone THEN alone \cup w.on ELSE alone
     ELSE UNCHANGED <<revoked, alone>>
  /\ Step(t, NoWork) /\ UNCHANGED <<rows, cookie, cache>>

Pop(t) ==
  LET w == work[t] IN
  /\ w.at = "pop"
  /\ cache' = Drop(cache, w.on, NoEntry)
  /\ IF w.op \in {"revoke", "others", "user"}
     THEN /\ revoked' = [s \in Sids |-> IF s \in w.on /\ revoked[s] = -1 THEN time ELSE revoked[s]]
          /\ alone' = IF w.alone THEN alone \cup w.on ELSE alone
     ELSE UNCHANGED <<revoked, alone>>
  /\ Step(t, NoWork) /\ UNCHANGED <<rows, cookie>>

ListRead(t) ==
  /\ Serve(t, [NoWork EXCEPT !.op = "list", !.at = "merge", !.on = {s \in Sids : rows[s] # NoRow /\ Expired(rows[s])}])
  /\ UNCHANGED <<rows, cache, cookie>>

ListMerge(t) ==
  LET w == work[t]
      gone == w.on \cup {s \in Sids : cache[s] # NoEntry /\ Expired(cache[s].row)} IN
  /\ w.at = "merge"
  /\ Step(t, IF gone = {} THEN NoWork ELSE [w EXCEPT !.at = "sweep", !.on = gone])
  /\ UNCHANGED <<rows, cache, cookie, revoked, alone>>

\* _expire of each one: the row, then the cache entry.
SweepRow(t) ==
  LET w == work[t] IN
  /\ w.at = "sweep"
  /\ \E s \in w.on : rows[s] # NoRow /\ rows' = [rows EXCEPT ![s] = NoRow]
  /\ UNCHANGED <<work, time, requests, cache, cookie, revoked, alone>>

SweepEntry(t) ==
  LET w == work[t] IN
  /\ w.at = "sweep"
  /\ \E s \in w.on : /\ rows[s] = NoRow
                     /\ cache' = [cache EXCEPT ![s] = NoEntry]
                     /\ Step(t, IF w.on = {s} THEN NoWork ELSE [w EXCEPT !.on = @ \ {s}])
  /\ UNCHANGED <<rows, cookie, revoked, alone>>

\* The server restarts: the cache and the requests in progress are gone.
RestartSessions ==
  /\ \E s \in Sids : cache[s] # NoEntry
  /\ cache' = [s \in Sids |-> NoEntry] /\ work' = [t \in Workers |-> NoWork]
  /\ UNCHANGED <<time, rows, cookie, revoked, alone, requests>>

PassTime == time < Horizon /\ time' = time + 1
            /\ UNCHANGED <<rows, cache, cookie, work, revoked, alone, requests>>

OnSession(t) ==
  \/ \E s \in Sids : Issue(t, s)
  \/ \E s \in Sids, op \in {"request", "revoke"} : LookUp(t, op, s)
  \/ \E s \in Sids : DeleteMany(t, "others", OwnerOf[s], s)
  \/ \E s \in Sids : DeleteMany(t, "user", OwnerOf[s], "none")
  \/ Load(t) \/ Fill(t) \/ Accept(t) \/ TimeOut(t) \/ RevokeFound(t) \/ Delete(t) \/ Pop(t)
  \/ ListRead(t) \/ ListMerge(t) \/ SweepRow(t) \/ SweepEntry(t)

SessionNext == (\E t \in Workers : OnSession(t)) \/ RestartSessions \/ PassTime
SessionSpec == SessionInit /\ [][SessionNext]_sessionVars

(***************************************************************************)
(* Properties                                                              *)
(***************************************************************************)
\* A session whose revocation no other request on it overlapped is neither
\* in the store nor in the cache ever again, whatever is refreshed, listed or
\* restarted afterwards.
RevokedStaysOut == \A s \in alone : rows[s] = NoRow /\ cache[s] = NoEntry

\* Once its revocation has been finished for longer than the cache is
\* trusted, a session is in neither.  A refresh between the deletion of the
\* row and of the cache entry saves the row again.
RevokedWithinTTL ==
  \A s \in Sids : revoked[s] # -1 /\ time > revoked[s] + CacheTTL => rows[s] = NoRow /\ ~Fresh(s)
=============================================================================
