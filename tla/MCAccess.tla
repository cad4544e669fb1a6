---------------------------- MODULE MCAccess ----------------------------
(***************************************************************************)
(* Instances of Sessions, Accounts and ShareLinks.  Accounts and           *)
(* ShareLinks share LoginRateLimiter's state; a behaviour is about one     *)
(* part.                                                                   *)
(***************************************************************************)
EXTENDS Sessions, Accounts, ShareLinks, TLC
VARIABLE part

Owners == [s \in Sids |-> "anna"]
Rungs == {[at |-> 1, for |-> 1], [at |-> 2, for |-> 2]}
SomeTerms == {[kind |-> "clip", pinIp |-> FALSE, pinUa |-> TRUE, ttl |-> 1],
              [kind |-> "camera", pinIp |-> TRUE, pinUa |-> TRUE, ttl |-> -1]}
SomeVisitors == [ip : {"i1"}, ua : {"none", "b1", "b2"}] \cup {[ip |-> "i2", ua |-> "b2"]}
ThreadsAlike == Permutations(Workers) \cup Permutations(Threads) \cup Permutations(Servers)

accessVars == <<sessionVars, accountVars, shareVars, part>>
InSessions(A) == part = "sessions" /\ A /\ UNCHANGED <<accountVars, shareVars, part>>
InAccounts(A) ==
  /\ part = "accounts" /\ A
  /\ UNCHANGED <<sessionVars, link, available, call, asked, ended, overlaid, served, part>>
InShares(A) ==
  /\ part = "shares" /\ A
  /\ UNCHANGED <<sessionVars, row, signed, tokens, job, issued, handled, intended, spent, reused, lost, guesses, reauths, part>>

MCInit == SessionInit /\ AccountInit /\ ShareInit /\ part \in {"sessions", "accounts", "shares"}
MCNext == InSessions(SessionNext) \/ InAccounts(AccountNext) \/ InShares(ShareNext)
MCSpec == MCInit /\ [][MCNext]_accessVars
MCTypeOK == SessionTypeOK /\ AccountTypeOK /\ ShareTypeOK

(* The types, and of sessions: one that was revoked while no other request *)
(* was using it is back neither in the store nor in a worker's cache,      *)
(* whatever is refreshed, listed or restarted later (RevokedStaysOut).     *)
AccessInv == MCTypeOK /\ RevokedStaysOut
=============================================================================
