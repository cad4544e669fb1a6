---------------------------- MODULE Accounts ----------------------------
(***************************************************************************)
(* Signing in with a password and a second factor, and the operations on   *)
(* user accounts.  Every handler reads a whole user row, decides on its    *)
(* copy and later saves the whole copy; the row may have changed between.  *)
(* The session store is Sessions' business: here a session is signed in or *)
(* not.  Time steps are the steps of one-time codes.                       *)
(***************************************************************************)
EXTENDS LoginRateLimiter, FiniteSets, FiniteSetsExt

CONSTANTS
  Users,
  Admins,       \* the users whose role is admin
  Threads,
  Passwords,    \* 1 is everyone's first one
  Ladder,       \* LOCKOUT_THRESHOLDS: records [at, for]
  Challenge,    \* CHALLENGE_TTL_SECONDS
  RecoveryKeys, \* the recovery codes of one batch
  RemotePolicy, \* settings.require_2fa_for_remote
  Founders,     \* the users there are at the start, all of them signed in
  Enrolled,     \* those enrolled at the start
  MaxIssued,    \* bound: secrets, batches of codes and sessions issued
  MaxHandled    \* bound: requests handled

ASSUME AccountAssumption ==
  /\ Admins \subseteq Users /\ Founders \subseteq Users /\ Enrolled \subseteq Founders /\ 1 \in Passwords /\ 0 \notin Passwords
  /\ \A l \in Ladder : l.at \in Nat \ {0} /\ l.for \in Nat
  /\ \A S \in SUBSET Ladder : S # {} => \E l \in S : \A k \in S : k.for <= l.for \* it is finite
  /\ IsFiniteSet(Threads)
  /\ Challenge \in Nat /\ RemotePolicy \in BOOLEAN /\ MaxIssued \in Nat /\ MaxHandled \in Nat

VARIABLES
  row,      \* users.json: of each user a row or Absent
  signed,   \* sessions signed in: [id, user, must]
  tokens,   \* challenge tokens handed out: [user, issued, remote]
  job,      \* of each thread: the request it handles
  issued,   \* secrets, batches and sessions issued
  handled,  \* requests handled
  intended, \* of each user: what the operations finished last set: [pw, totp, gone]
  spent,    \* codes accepted so far
  reused,   \* users one of whose codes was accepted twice
  lost,     \* users whose row was saved over a change made since it was read
  guesses,  \* times of the wrong passwords and codes judged at sign-in within Window
  reauths   \* the same of those judged for a user who is signed in

accountVars == <<clock, attempts, row, signed, tokens, job, issued, handled, intended, spent, reused, lost, guesses, reauths>>

Absent == [pw |-> 0, must |-> FALSE, fails |-> 0, until |-> 0, totp |-> 0, codes |-> {}, step |-> -1]
NewRow(u) == [Absent EXCEPT !.pw = 1, !.totp = IF u \in Enrolled THEN 1 ELSE 0,
                            !.codes = IF u \in Enrolled THEN {<<1, k>> : k \in RecoveryKeys} ELSE {}]
NoCode == [kind |-> "none", from |-> 0, of |-> 0]
Quiet == [at |-> "idle", user |-> "nobody", old |-> Absent, new |-> Absent, then |-> "end",
          code |-> NoCode, remote |-> FALSE, by |-> 0]
Begun == 1..(MaxIssued + 1)

AccountTypeOK ==
  /\ clock \in 0..Ticks /\ Len(attempts) <= Block /\ issued \in Begun /\ handled \in 0..MaxHandled
  /\ \A u \in Users : /\ row[u].pw \in Passwords \cup {0} /\ row[u].totp \in 0..(MaxIssued + 1)
                      /\ row[u].must \in BOOLEAN /\ row[u].fails \in Nat /\ row[u].until \in Nat
  /\ \A x \in signed : x.id \in Begun \cup {0} /\ x.user \in Users /\ x.must \in BOOLEAN
  /\ \A t \in Threads : /\ job[t].at \in {"idle", "read", "record", "save", "admit", "open", "drop"}
                        /\ job[t].then \in {"end", "save", "admit", "open", "unforce"}
  /\ reused \subseteq Users /\ lost \subseteq Users

AccountInit ==
  /\ clock = 1 /\ attempts = <<>> /\ row = [u \in Users |-> IF u \in Founders THEN NewRow(u) ELSE Absent]
  /\ signed = {[id |-> 0, user |-> u, must |-> FALSE] : u \in Founders} /\ tokens = {}
  /\ job = [t \in Threads |-> Quiet] /\ issued = 1 /\ handled = 0
  /\ intended = [u \in Users |-> [pw |-> 1, totp |-> NewRow(u).totp, gone |-> FALSE]]
  /\ spent = {} /\ reused = {} /\ lost = {} /\ guesses = <<>> /\ reauths = <<>>

Locked(r) == clock < r.until
Duration(fails) == Max({0} \cup {l.for : l \in {x \in Ladder : fails >= x.at}})
Failed(r) == [r EXCEPT !.fails = @ + 1,
                       !.until = IF Duration(r.fails + 1) > 0 THEN clock + Duration(r.fails + 1) ELSE @]
Cleared(r) == [r EXCEPT !.fails = 0, !.until = 0]
NoTotp(r) == [r EXCEPT !.totp = 0, !.codes = {}, !.step = -1]

\* mutant of Accepts: the step used last is accepted again
Accepts_SameStep(r, c) ==
  \/ c.kind = "totp" /\ r.totp # 0 /\ c.from = r.totp /\ c.of >= r.step /\ c.of \in (clock - 1)..(clock + 1)
  \/ c.kind = "recovery" /\ <<c.from, c.of>> \in r.codes
\* verify_code and consume_recovery_code: a step at most one away and later
\* than the last one used, or a code still in the list.
Accepts(r, c) ==
  \/ c.kind = "totp" /\ r.totp # 0 /\ c.from = r.totp /\ c.of > r.step /\ c.of \in (clock - 1)..(clock + 1)
  \/ c.kind = "recovery" /\ <<c.from, c.of>> \in r.codes
Using(r, c) == IF c.kind = "totp" THEN [r EXCEPT !.step = c.of] ELSE [r EXCEPT !.codes = @ \ {<<c.from, c.of>>}]
Wrong == [kind |-> "wrong", from |-> 0, of |-> 0]
Presented ==
  {Wrong} \cup [kind : {"totp"}, from : 1..issued, of : (clock - 1)..(clock + 1)]
  \cup [kind : {"recovery"}, from : 1..issued, of : RecoveryKeys]

Handle(t, j) == /\ job[t] = Quiet /\ handled < MaxHandled /\ handled' = handled + 1
                /\ job' = [job EXCEPT ![t] = j]
Proceed(t, at) == job' = [job EXCEPT ![t] = IF at = "end" THEN Quiet ELSE [job[t] EXCEPT !.at = at]]
Ghosts == <<intended, spent, reused, lost, reauths>>
Guess == guesses' = Append(InWindow(guesses), clock)

(***************************************************************************)
(* POST /auth/login                                                        *)
(***************************************************************************)
LoginCheck(t, u, p, remote) ==
  /\ Allowed
  /\ Handle(t, [Quiet EXCEPT !.at = "read", !.user = u, !.new = [Absent EXCEPT !.pw = p], !.remote = remote])
  /\ UNCHANGED <<clock, attempts, row, signed, tokens, issued, Ghosts, guesses>>

LoginRead(t) ==
  LET j == job[t]
      r == row[j.user]
      turned == [j EXCEPT !.at = "record", !.then = "end"]
  IN
  /\ j.at = "read"
  /\ \/ /\ r = Absent \/ Locked(r)
        /\ job' = [job EXCEPT ![t] = turned] /\ UNCHANGED guesses
     \/ /\ r # Absent /\ ~Locked(r) /\ r.pw # j.new.pw
        /\ job' = [job EXCEPT ![t] = [turned EXCEPT !.then = "save", !.old = r, !.new = Failed(r)]] /\ Guess
     \/ /\ r # Absent /\ ~Locked(r) /\ r.pw = j.new.pw
        /\ job' = [job EXCEPT ![t] = [j EXCEPT !.at = "save", !.then = "admit", !.old = r, !.new = Cleared(r)]]
        /\ UNCHANGED guesses
  /\ UNCHANGED <<clock, attempts, row, signed, tokens, issued, handled, Ghosts>>

RecordAttempt(t) ==
  /\ job[t].at = "record" /\ Record
  /\ job' = [job EXCEPT ![t] = IF job[t].then = "end" THEN Quiet ELSE [job[t] EXCEPT !.at = "save", !.then = "end"]]
  /\ UNCHANGED <<clock, row, signed, tokens, issued, handled, Ghosts, guesses>>

\* After the password: refused by the remote policy, sent to the second
\* factor, or signed in.
Admit(t) ==
  LET j == job[t]
      remote == RemotePolicy /\ j.remote
  IN
  /\ j.at = "admit"
  /\ \/ remote /\ j.new.totp = 0 /\ Proceed(t, "end") /\ UNCHANGED tokens
     \/ /\ j.new.totp # 0
        /\ tokens' = tokens \cup {[user |-> j.user, issued |-> clock, remote |-> remote]} /\ Proceed(t, "end")
     \/ ~remote /\ j.new.totp = 0 /\ Proceed(t, "open") /\ UNCHANGED tokens
  /\ UNCHANGED <<clock, attempts, row, signed, issued, handled, Ghosts, guesses>>

OpenSession(t) ==
  /\ job[t].at = "open" /\ issued <= MaxIssued
  /\ issued' = issued + 1
  /\ signed' = signed \cup {[id |-> issued, user |-> job[t].user, must |-> job[t].new.must]}
  /\ Proceed(t, "end") /\ UNCHANGED <<clock, attempts, row, tokens, handled, Ghosts, guesses>>

TokenValid(k) == clock - k.issued <= Challenge

(***************************************************************************)
(* POST /auth/totp/verify.  The lock of the account is not consulted.      *)
(***************************************************************************)
Verify(t, k, c) ==
  LET r == row[k.user]
      j == [Quiet EXCEPT !.user = k.user, !.old = r, !.code = c]
  IN
  /\ TokenValid(k) /\ r # Absent /\ Allowed
  /\ \/ /\ r.totp = 0 /\ ~k.remote
        /\ Handle(t, [j EXCEPT !.at = "record", !.code = NoCode]) /\ UNCHANGED guesses
     \/ /\ r.totp # 0 /\ Accepts(r, c)
        /\ Handle(t, [j EXCEPT !.at = "save", !.then = "open", !.new = Cleared(Using(r, c))]) /\ UNCHANGED guesses
     \/ /\ r.totp # 0 /\ ~Accepts(r, c)
        /\ Handle(t, [j EXCEPT !.at = "record", !.then = "save", !.new = Failed(r), !.code = NoCode]) /\ Guess
  /\ UNCHANGED <<clock, attempts, row, signed, tokens, issued, Ghosts>>

(***************************************************************************)
(* Saving a row: the whole copy, over whatever is there.                   *)
(***************************************************************************)
\* A user who has changed their own password may go on in that session.
Unforced(id) == {IF x.id = id THEN [x EXCEPT !.must = FALSE] ELSE x : x \in signed}

Save(t) ==
  LET j == job[t]
      u == j.user
  IN
  /\ j.at = "save"
  /\ row' = [row EXCEPT ![u] = j.new]
  /\ lost' = IF row[u] # j.old THEN lost \cup {u} ELSE lost
  /\ intended' = [intended EXCEPT
       ![u].pw = IF j.new.pw # j.old.pw THEN j.new.pw ELSE @,
       ![u].totp = IF j.new.totp # j.old.totp THEN j.new.totp ELSE @]
  /\ spent' = IF j.code = NoCode THEN spent ELSE spent \cup {[user |-> u, code |-> j.code]}
  /\ reused' = IF [user |-> u, code |-> j.code] \in spent THEN reused \cup {u} ELSE reused
  /\ signed' = IF j.then = "unforce" THEN Unforced(j.by) ELSE signed
  /\ Proceed(t, IF j.then = "unforce" THEN "end" ELSE j.then)
  /\ UNCHANGED <<clock, attempts, tokens, issued, handled, guesses, reauths>>

(***************************************************************************)
(* Operations of a signed-in user x.  A session that must change its       *)
(* password may only do that or sign out.                                  *)
(***************************************************************************)
MayAct(x) == ~x.must
Modify(t, x, u, new, c, then) ==
  /\ row[u] # Absent
  /\ Handle(t, [Quiet EXCEPT !.at = "save", !.user = u, !.old = row[u], !.new = new, !.code = c,
                             !.then = then, !.by = x.id])
Only == UNCHANGED <<clock, attempts, row, signed, tokens, Ghosts, guesses>>
OnlyAdmin(u) == u \in Admins /\ \A v \in Admins \ {u} : row[v] = Absent

ChangePassword(t, x, u, p, force) ==
  LET reset == x.user \in Admins /\ x.user # u /\ force IN
  /\ x.user \in Admins \/ x.user = u
  /\ MayAct(x) \/ x.user = u
  /\ ~(reset /\ OnlyAdmin(u)) /\ p # row[u].pw
  /\ Modify(t, x, u, [row[u] EXCEPT !.pw = p, !.must = reset], NoCode, IF x.user = u THEN "unforce" ELSE "end")
  /\ Only /\ UNCHANGED issued

\* enroll_start and enroll_confirm with a code of the pending secret
Enroll(t, x, c) ==
  /\ MayAct(x) /\ row[x.user].totp = 0 /\ issued <= MaxIssued /\ issued' = issued + 1
  /\ c.kind = "totp" /\ c.from = issued + 1 /\ c.of \in (clock - 1)..(clock + 1)
  /\ Modify(t, x, x.user, [row[x.user] EXCEPT !.totp = issued + 1, !.step = c.of,
                             !.codes = {<<issued + 1, k>> : k \in RecoveryKeys}], c, "end")
  /\ Only

\* Both need the password and a code once more; a refusal is neither checked
\* against the rate limit nor recorded.
Disable(t, x, p, c) ==
  /\ MayAct(x) /\ row[x.user].totp # 0 /\ row[x.user].pw = p /\ Accepts(row[x.user], c)
  /\ Modify(t, x, x.user, NoTotp(row[x.user]), c, "end") /\ Only /\ UNCHANGED issued

RegenerateCodes(t, x, p, c) ==
  /\ MayAct(x) /\ row[x.user].totp # 0 /\ row[x.user].pw = p /\ Accepts(row[x.user], c)
  /\ issued <= MaxIssued /\ issued' = issued + 1
  /\ Modify(t, x, x.user, [Using(row[x.user], c) EXCEPT !.codes = {<<issued + 1, k>> : k \in RecoveryKeys}], c, "end")
  /\ Only

\* either of the two with a wrong password or code
Refuse(x, p, c) ==
  /\ handled < MaxHandled /\ handled' = handled + 1
  /\ MayAct(x) /\ row[x.user].totp # 0 /\ ~(row[x.user].pw = p /\ Accepts(row[x.user], c))
  /\ reauths' = Append(InWindow(reauths), clock)
  /\ UNCHANGED <<clock, attempts, row, signed, tokens, job, issued, intended, spent, reused, lost, guesses>>

AdminReset(t, x, u) ==
  /\ x.user \in Admins /\ MayAct(x) /\ u # x.user /\ ~OnlyAdmin(u)
  /\ Modify(t, x, u, NoTotp(row[u]), NoCode, "end") /\ Only /\ UNCHANGED issued

\* mark_seen, notification preferences: other fields of the same row
SaveOtherFields(t, x) ==
  MayAct(x) /\ Modify(t, x, x.user, row[x.user], NoCode, "end") /\ Only /\ UNCHANGED issued

\* create_user, under an id never used before
CreateUser(t, x, u) ==
  /\ x.user \in Admins /\ MayAct(x) /\ row[u] = Absent /\ ~intended[u].gone
  /\ \A o \in Threads : job[o].user # u
  /\ Handle(t, [Quiet EXCEPT !.at = "save", !.user = u, !.new = NewRow(u)])
  /\ Only /\ UNCHANGED issued

DeleteUser(t, x, u) ==
  /\ x.user \in Admins /\ MayAct(x) /\ u # x.user /\ row[u] # Absent
  /\ row' = [row EXCEPT ![u] = Absent]
  /\ Handle(t, [Quiet EXCEPT !.at = "drop", !.user = u])
  /\ UNCHANGED <<clock, attempts, signed, tokens, issued, Ghosts, guesses>>

\* delete_sessions_for_user
DropSessions(t) ==
  /\ job[t].at = "drop"
  /\ signed' = {x \in signed : x.user # job[t].user}
  /\ intended' = [intended EXCEPT ![job[t].user].gone = TRUE]
  /\ Proceed(t, "end") /\ UNCHANGED <<clock, attempts, row, tokens, issued, handled, spent, reused, lost, guesses, reauths>>

Logout(x) ==
  /\ handled < MaxHandled /\ handled' = handled + 1
  /\ signed' = signed \ {x}
  /\ UNCHANGED <<clock, attempts, row, tokens, job, issued, Ghosts, guesses>>

NextStep == clock < Ticks /\ clock' = clock + 1
            /\ UNCHANGED <<attempts, row, signed, tokens, job, issued, handled, Ghosts, guesses>>

Account(t) ==
  \/ \E u \in Users, p \in Passwords, remote \in BOOLEAN : LoginCheck(t, u, p, remote)
  \/ LoginRead(t) \/ RecordAttempt(t) \/ Admit(t) \/ OpenSession(t) \/ Save(t) \/ DropSessions(t)
  \/ \E k \in tokens, c \in Presented : Verify(t, k, c)
  \/ \E x \in signed, u \in Users, p \in Passwords, force \in BOOLEAN : ChangePassword(t, x, u, p, force)
  \/ \E x \in signed, n \in (clock - 1)..(clock + 1) : Enroll(t, x, [kind |-> "totp", from |-> issued + 1, of |-> n])
  \/ \E x \in signed, p \in Passwords, c \in Presented : Disable(t, x, p, c) \/ RegenerateCodes(t, x, p, c)
  \/ \E x \in signed, u \in Users : AdminReset(t, x, u) \/ CreateUser(t, x, u) \/ DeleteUser(t, x, u)
  \/ \E x \in signed : SaveOtherFields(t, x)

AccountNext ==
  \/ \E t \in Threads : Account(t)
  \/ \E x \in signed : Logout(x) \/ \E p \in Passwords, c \in Presented : Refuse(x, p, c)
  \/ NextStep
AccountSpec == AccountInit /\ [][AccountNext]_accountVars

(***************************************************************************)
(* Properties                                                              *)
(***************************************************************************)
\* Within Window an address that is not signed in has at most
\* Block - 1 + |Threads| wrong passwords or codes judged by login and verify:
\* each thread may pass the check before the others record.
GuessesLimited == Len(InWindow(guesses)) <= Block - 1 + Cardinality(Threads)

\* The same of all wrong passwords and codes, those with which a session asks
\* to disable the second factor or for new recovery codes included.
EveryGuessLimited == Len(InWindow(guesses)) + Len(InWindow(reauths)) <= Block - 1 + Cardinality(Threads)

Kept(u) ==
  /\ u \notin reused
  /\ IF intended[u].gone THEN row[u] = Absent
     ELSE row[u] # Absent => row[u].pw = intended[u].pw /\ row[u].totp = intended[u].totp

\* Unless some save went over a change made since its read, a finished change
\* of password, enrolment, reset or deletion stays, and no one-time or
\* recovery code is accepted twice.
NothingUndone == \A u \in Users \ lost : Kept(u)

\* The same of every user.
ChangesKept == \A u \in Users : Kept(u)

\* A deleted user is signed in nowhere once the deletion has finished.
DeletedSignedOut == \A x \in signed : ~intended[x.user].gone

\* A lock is not lifted before its time.
LockLasts == [][\A u \in Users : Locked(row[u]) => row'[u] = Absent \/ row'[u].until # 0]_accountVars
=============================================================================
