---------------------------- MODULE ShareLinks ----------------------------
(***************************************************************************)
(* Public links to one clip or one camera: minted and revoked by an        *)
(* administrator, visited by browsers that hold the token.  A visit reads  *)
(* the link's row, decides on its copy, and saves the whole copy to pin    *)
(* the first visitor and to count the access.  Visitors share the address  *)
(* whose attempts LoginRateLimiter keeps.                                  *)
(***************************************************************************)
EXTENDS LoginRateLimiter, FiniteSets

CONSTANTS
  Links,
  Terms,      \* what an administrator may ask for: [kind, pinIp, pinUa, ttl]; ttl -1 is "never"
  Visitors,   \* browsers that hold a token: [ip, ua], the network of their address and the
              \* platform and family of their browser; ua "none" names neither
  Servers,    \* the threads that handle requests
  MaxAsked    \* bound: requests

ASSUME ShareAssumption ==
  /\ \A x \in Terms : x.kind \in {"clip", "camera"} /\ x.pinIp \in BOOLEAN /\ x.pinUa \in BOOLEAN /\ x.ttl \in Int
  /\ \A v \in Visitors : v.ip # "unset" /\ v.ua # "unset"
  /\ IsFiniteSet(Servers) /\ MaxAsked \in Nat

VARIABLES
  link,      \* share_links.json: of each link a row or NoLink
  available, \* links whose clip is there or whose camera is online
  call,      \* of each thread: the request it handles
  asked,
  ended,     \* links whose revocation has finished
  overlaid,  \* links whose row was saved over a change made since its read
  served     \* visits served: [link, visitor, late]

shareVars == <<clock, attempts, link, available, call, asked, ended, overlaid, served>>

NoLink == [kind |-> "none", pinIp |-> FALSE, pinUa |-> FALSE, expires |-> -1, ip |-> "unset", ua |-> "unset",
           revoked |-> FALSE, count |-> 0]
NoCall == [at |-> "idle", on |-> NoLink, want |-> "page", of |-> NoLink, who |-> [ip |-> "unset", ua |-> "none"],
           late |-> FALSE]
Wants == {"page", "asset"}  \* the viewer page; its media: video, WHEP, playlist and segments

ShareTypeOK ==
  /\ clock \in 0..Ticks /\ Len(attempts) <= Block /\ asked \in 0..MaxAsked /\ available \subseteq Links
  /\ \A l \in Links : link[l].kind \in {"none", "clip", "camera"} /\ link[l].count \in 0..MaxAsked
  /\ \A t \in Servers : call[t].at \in {"idle", "read", "pinIp", "pinUa", "resolve", "fail", "count", "revoke"}
  /\ ended \subseteq Links /\ overlaid \subseteq Links

ShareInit ==
  /\ clock = 1 /\ attempts = <<>> /\ link = [l \in Links |-> NoLink] /\ available = Links
  /\ call = [t \in Servers |-> NoCall] /\ asked = 0 /\ ended = {} /\ overlaid = {} /\ served = {}

Over(row) == row.expires # -1 /\ row.expires <= clock
Ask(t, c) == /\ call[t] = NoCall /\ asked < MaxAsked /\ asked' = asked + 1 /\ call' = [call EXCEPT ![t] = c]
Turn(t, c) == call' = [call EXCEPT ![t] = c] /\ UNCHANGED asked

\* save_share_link of a copy read as `old`
SaveLink(l, old, new) ==
  /\ link' = [link EXCEPT ![l] = new]
  /\ overlaid' = IF link[l] # old THEN overlaid \cup {l} ELSE overlaid

(***************************************************************************)
(* The administrator.                                                      *)
(***************************************************************************)
CreateLink(t, l, x) ==
  /\ link[l] = NoLink /\ l \in available /\ call[t] = NoCall /\ asked < MaxAsked /\ asked' = asked + 1
  /\ link' = [link EXCEPT ![l] = [NoLink EXCEPT !.kind = x.kind, !.pinIp = x.pinIp, !.pinUa = x.pinUa,
                                                !.expires = IF x.ttl = -1 THEN -1 ELSE clock + x.ttl]]
  /\ UNCHANGED <<clock, attempts, available, call, ended, overlaid, served>>

RevokeRead(t, l) ==
  /\ link[l] # NoLink
  /\ Ask(t, [NoCall EXCEPT !.at = "revoke", !.on = l, !.of = link[l]])
  /\ UNCHANGED <<clock, attempts, link, available, ended, overlaid, served>>

RevokeSave(t) ==
  LET c == call[t] IN
  /\ c.at = "revoke"
  /\ IF c.of.revoked THEN UNCHANGED <<link, overlaid>>
     ELSE SaveLink(c.on, c.of, [c.of EXCEPT !.revoked = TRUE])
  /\ ended' = ended \cup {c.on}
  /\ Turn(t, NoCall) /\ UNCHANGED <<clock, attempts, available, served>>

(***************************************************************************)
(* A visit.                                                                *)
(***************************************************************************)
Visit(t, l, v, w) ==
  /\ link[l] # NoLink /\ Allowed
  /\ Ask(t, [NoCall EXCEPT !.at = "read", !.on = l, !.who = v, !.want = w, !.late = l \in ended])
  /\ UNCHANGED <<clock, attempts, link, available, ended, overlaid, served>>

\* mutant of Refused: a pinned link admits any browser from the pinned address
Refused_AddressOnly(row, v) == row.revoked \/ Over(row) \/ (row.pinIp /\ row.ip \notin {"unset", v.ip})

\* _authorise_link up to the pins; an address or a browser pinned to another
\* visitor fails here as well.
Refused(row, v) ==
  \/ row.revoked \/ Over(row)
  \/ row.pinIp /\ row.ip \notin {"unset", v.ip}
  \/ row.pinUa /\ (v.ua = "none" \/ row.ua \notin {"unset", v.ua})

AuthoriseRead(t) ==
  LET c == call[t]
      row == link[c.on]
  IN
  /\ c.at = "read"
  /\ Turn(t, [c EXCEPT !.of = row,
       !.at = IF row.pinIp /\ row.ip = "unset" /\ ~row.revoked /\ ~Over(row) THEN "pinIp"
              ELSE IF Refused(row, c.who) THEN "fail"
              ELSE IF row.pinUa /\ row.ua = "unset" THEN "pinUa" ELSE "resolve"])
  /\ UNCHANGED <<clock, attempts, link, available, ended, overlaid, served>>

\* The address is saved before the browser's signature is judged.
PinIp(t) ==
  LET c == call[t]
      row == [c.of EXCEPT !.ip = c.who.ip]
  IN
  /\ c.at = "pinIp"
  /\ SaveLink(c.on, c.of, row)
  /\ Turn(t, [c EXCEPT !.of = row, !.at = IF Refused(row, c.who) THEN "fail"
                                         ELSE IF row.pinUa /\ row.ua = "unset" THEN "pinUa" ELSE "resolve"])
  /\ UNCHANGED <<clock, attempts, available, ended, served>>

PinUa(t) ==
  LET c == call[t]
      row == [c.of EXCEPT !.ua = c.who.ua]
  IN
  /\ c.at = "pinUa"
  /\ SaveLink(c.on, c.of, row) /\ Turn(t, [c EXCEPT !.of = row, !.at = "resolve"])
  /\ UNCHANGED <<clock, attempts, available, ended, served>>

\* A missing clip or an offline camera is no failure of the visitor's.
Resolve(t) ==
  LET c == call[t] IN
  /\ c.at = "resolve"
  /\ \/ c.on \notin available /\ Turn(t, NoCall) /\ UNCHANGED served
     \/ c.on \in available /\ c.want = "page" /\ Turn(t, [c EXCEPT !.at = "count"]) /\ UNCHANGED served
     \/ /\ c.on \in available /\ c.want = "asset" /\ Turn(t, NoCall)
        /\ served' = served \cup {[link |-> c.on, who |-> c.who, late |-> c.late]}
  /\ UNCHANGED <<clock, attempts, link, available, ended, overlaid>>

RecordAccess(t) ==
  LET c == call[t] IN
  /\ c.at = "count"
  /\ SaveLink(c.on, c.of, [c.of EXCEPT !.count = @ + 1])
  /\ served' = served \cup {[link |-> c.on, who |-> c.who, late |-> c.late]}
  /\ Turn(t, NoCall) /\ UNCHANGED <<clock, attempts, available, ended>>

Fail(t) == /\ call[t].at = "fail" /\ Record /\ Turn(t, NoCall)
           /\ UNCHANGED <<clock, link, available, ended, overlaid, served>>

\* The clip is deleted or the camera goes offline, or comes back.
Toggle(l) ==
  /\ asked < MaxAsked /\ asked' = asked + 1
  /\ available' = IF l \in available THEN available \ {l} ELSE available \cup {l}
  /\ UNCHANGED <<clock, attempts, link, call, ended, overlaid, served>>

Elapse == clock < Ticks /\ clock' = clock + 1
          /\ UNCHANGED <<attempts, link, available, call, asked, ended, overlaid, served>>

Share(t) ==
  \/ \E l \in Links, x \in Terms : CreateLink(t, l, x)
  \/ \E l \in Links : RevokeRead(t, l)
  \/ \E l \in Links, v \in Visitors, w \in Wants : Visit(t, l, v, w)
  \/ RevokeSave(t) \/ AuthoriseRead(t) \/ PinIp(t) \/ PinUa(t) \/ Resolve(t) \/ RecordAccess(t) \/ Fail(t)

ShareNext == (\E t \in Servers : Share(t)) \/ (\E l \in Links : Toggle(l)) \/ Elapse
ShareSpec == ShareInit /\ [][ShareNext]_shareVars

(***************************************************************************)
(* Properties                                                              *)
(***************************************************************************)
InTerms(l) ==
  LET visits == {x \in served : x.link = l} IN
  /\ l \in ended => link[l].revoked
  /\ \A x \in visits : ~x.late
  /\ link[l].pinIp => Cardinality({x.who.ip : x \in visits}) <= 1
  /\ link[l].pinUa => Cardinality({x.who.ua : x \in visits}) <= 1

\* Unless some save went over a change made since its read, a revoked link
\* stays revoked and serves no visit begun afterwards, and a pinned link
\* serves one address and one browser.
LinkKeepsTerms == \A l \in Links \ overlaid : InTerms(l)

\* The same of every link.
EveryLinkKeepsTerms == \A l \in Links : InTerms(l)
=============================================================================
