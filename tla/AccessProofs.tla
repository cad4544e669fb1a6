---------------------------- MODULE AccessProofs ----------------------------
(***************************************************************************)
(* Proofs about Sessions, Accounts and ShareLinks, for any users, sessions, *)
(* links, threads, times and bounds.                                       *)
(***************************************************************************)
EXTENDS MCAccess, FiniteSetTheorems, TLAPS

-----------------------------------------------------------------------------
(* Share links: types.                                                     *)

CallLabels == {"idle", "read", "pinIp", "pinUa", "resolve", "fail", "count", "revoke"}

Nets     == {"unset"} \cup {v.ip : v \in Visitors}
Browsers == {"unset"} \cup {v.ua : v \in Visitors}
LinkRow ==
  [kind : {"none", "clip", "camera"}, pinIp : BOOLEAN, pinUa : BOOLEAN, expires : Int,
   ip : Nets, ua : Browsers, revoked : BOOLEAN, count : Nat]

ShareCall ==
  [at : CallLabels, on : Links \cup {NoLink}, want : Wants, of : LinkRow,
   who : Visitors \cup {NoCall.who}, late : BOOLEAN]

\* who visits is one who holds a token, and what is called on is a minted link
Proper(c, table) ==
  /\ c.at = "idle" => c = NoCall
  /\ c.at # "idle" => c.on \in Links /\ table[c.on].kind # "none"
  /\ c.at \in {"pinIp", "pinUa", "resolve", "count", "revoke"} => c.of.kind # "none"
  /\ c.at \notin {"idle", "revoke"} => c.who \in Visitors

ShareTypes ==
  /\ clock \in 0..Ticks /\ asked \in 0..MaxAsked /\ available \subseteq Links /\ ended \subseteq Links
  /\ overlaid \subseteq Links /\ served \subseteq [link : Links, who : Visitors, late : BOOLEAN]
  /\ link \in [Links -> LinkRow] /\ call \in [Servers -> ShareCall]
  /\ \A l \in Links : link[l].kind = "none" => link[l] = NoLink
  /\ \A t \in Servers : Proper(call[t], link)

LEMMA NoLinkTyped == NoLink \in LinkRow
  BY DEF NoLink, LinkRow, Nets, Browsers

LEMMA NoCallTyped == NoCall \in ShareCall /\ Proper(NoCall, link)
  BY NoLinkTyped DEF NoCall, ShareCall, CallLabels, Wants, Proper

LEMMA InitShareTypes == ShareInit => ShareTypes
  <1>1. 1 \in 0..Ticks /\ 0 \in 0..MaxAsked
    BY ShareAssumption, LimiterAssumption
  <1> QED
    BY <1>1, NoLinkTyped, NoCallTyped DEF ShareInit, ShareTypes

\* a copy of a row that is saved or carried on is a row
LEMMA CopyTyped ==
  ASSUME NEW r \in LinkRow
  PROVE  /\ [r EXCEPT !.revoked = TRUE] \in LinkRow
         /\ \A x \in Nets : [r EXCEPT !.ip = x] \in LinkRow
         /\ \A x \in Browsers : [r EXCEPT !.ua = x] \in LinkRow
         /\ [r EXCEPT !.count = @ + 1] \in LinkRow
  <1>1. [r EXCEPT !.revoked = TRUE] \in LinkRow
    BY DEF LinkRow
  <1>2. \A x \in Nets : [r EXCEPT !.ip = x] \in LinkRow
    BY DEF LinkRow
  <1>3. \A x \in Browsers : [r EXCEPT !.ua = x] \in LinkRow
    BY DEF LinkRow
  <1>4. [r EXCEPT !.count = @ + 1] \in LinkRow
    BY DEF LinkRow
  <1> QED
    BY <1>1, <1>2, <1>3, <1>4

\* what the actions do to the rows and the calls, once for all of them
LEMMA ShareUpdates ==
  ASSUME ShareTypes, NEW t \in Servers, NEW c \in ShareCall,
         call' = [call EXCEPT ![t] = c],
         \/ UNCHANGED link
         \/ \E l \in Links, r \in LinkRow : link' = [link EXCEPT ![l] = r] /\ r.kind # "none",
         Proper(c, link')
  PROVE  /\ link' \in [Links -> LinkRow] /\ call' \in [Servers -> ShareCall]
         /\ \A l \in Links : link'[l].kind = "none" => link'[l] = NoLink
         /\ \A o \in Servers : Proper(call'[o], link')
         /\ \A l \in Links : link[l].kind # "none" => link'[l].kind # "none"
  <1>1. link' \in [Links -> LinkRow] /\ call' \in [Servers -> ShareCall]
    BY DEF ShareTypes
  <1>2. \A l \in Links : /\ link'[l].kind = "none" => link'[l] = NoLink
                         /\ link[l].kind # "none" => link'[l].kind # "none"
    BY DEF ShareTypes
  <1>3. ASSUME NEW o \in Servers PROVE Proper(call'[o], link')
    <2>1. CASE o = t
      BY <2>1 DEF ShareTypes
    <2>2. CASE o # t
      <3>1. call'[o] = call[o] /\ Proper(call[o], link)
        BY <2>2 DEF ShareTypes
      <3> QED
        BY <1>2, <3>1 DEF Proper
    <2> QED
      BY <2>1, <2>2
  <1> QED
    BY <1>1, <1>2, <1>3

LEMMA ShareCallTypes ==
  ASSUME ShareTypes, NEW t \in Servers, Share(t)
  PROVE  ShareTypes'
  <1>0. /\ call[t] \in ShareCall /\ Proper(call[t], link) /\ clock \in Int
        /\ asked \in 0..MaxAsked /\ ended \subseteq Links /\ overlaid \subseteq Links
        /\ served \subseteq [link : Links, who : Visitors, late : BOOLEAN]
        /\ MaxAsked \in Nat
    BY ShareAssumption, LimiterAssumption DEF ShareTypes
  <1>a. ASSUME NEW c \in ShareCall, call' = [call EXCEPT ![t] = c], Proper(c, link'),
               \/ UNCHANGED link
               \/ \E l \in Links, r \in LinkRow :
                     link' = [link EXCEPT ![l] = r] /\ r.kind # "none",
               clock' = clock, asked' \in 0..MaxAsked, available' = available,
               ended' \subseteq Links, overlaid' \subseteq Links,
               served' \subseteq [link : Links, who : Visitors, late : BOOLEAN]
        PROVE  ShareTypes'
    BY <1>a, ShareUpdates DEF ShareTypes
  <1>1. ASSUME NEW l \in Links, NEW x \in Terms, CreateLink(t, l, x)
        PROVE  ShareTypes'
    <2> DEFINE r == [NoLink EXCEPT !.kind = x.kind, !.pinIp = x.pinIp, !.pinUa = x.pinUa,
                                   !.expires = IF x.ttl = -1 THEN -1 ELSE clock + x.ttl]
    <2>1. x.kind \in {"clip", "camera"} /\ (IF x.ttl = -1 THEN -1 ELSE clock + x.ttl) \in Int
      BY <1>0, ShareAssumption
    <2>2. r \in LinkRow /\ r.kind # "none"
      BY <2>1, NoLinkTyped, ShareAssumption DEF LinkRow
    <2>3. link' = [link EXCEPT ![l] = r] /\ call[t] = NoCall /\ asked' \in 0..MaxAsked
      BY <1>0, <1>1 DEF CreateLink
    <2>4. call' = [call EXCEPT ![t] = NoCall] /\ Proper(NoCall, link')
      BY <1>1, <2>3, NoCallTyped DEF CreateLink, ShareTypes, Proper, NoCall
    <2>5. /\ clock' = clock /\ available' = available /\ ended' = ended
          /\ overlaid' = overlaid /\ served' = served
      BY <1>1 DEF CreateLink
    <2> HIDE DEF r
    <2> QED
      BY <1>a, <1>0, <2>2, <2>3, <2>4, <2>5, NoCallTyped
  <1>2. ASSUME NEW l \in Links, RevokeRead(t, l)
        PROVE  ShareTypes'
    <2> DEFINE c == [NoCall EXCEPT !.at = "revoke", !.on = l, !.of = link[l]]
    <2>1. c \in ShareCall /\ Proper(c, link')
      BY <1>2, NoCallTyped DEF RevokeRead, ShareTypes, ShareCall, CallLabels, Proper, NoCall
    <2>2. call' = [call EXCEPT ![t] = c] /\ asked' \in 0..MaxAsked
      BY <1>0, <1>2 DEF RevokeRead, Ask
    <2>3. UNCHANGED <<clock, available, link, ended, overlaid, served>>
      BY <1>2 DEF RevokeRead
    <2> HIDE DEF c
    <2> QED
      BY <1>a, <1>0, <2>1, <2>2, <2>3
  <1>3. ASSUME NEW l \in Links, NEW v \in Visitors, NEW w \in Wants, Visit(t, l, v, w)
        PROVE  ShareTypes'
    <2> DEFINE c == [NoCall EXCEPT !.at = "read", !.on = l, !.who = v, !.want = w,
                                   !.late = l \in ended]
    <2>0. (l \in ended) \in BOOLEAN
      OBVIOUS
    <2>1. c \in ShareCall
      BY <2>0, NoCallTyped DEF ShareCall, CallLabels
    <2>4. c.at = "read" /\ c.on = l /\ c.who = v
      BY DEF NoCall
    <2>5. UNCHANGED <<clock, available, link, ended, overlaid, served>> /\ link[l].kind # "none"
      BY <1>3 DEF Visit, ShareTypes
    <2>6. Proper(c, link')
      BY <2>4, <2>5 DEF Proper
    <2>2. call' = [call EXCEPT ![t] = c] /\ asked' \in 0..MaxAsked
      BY <1>0, <1>3 DEF Visit, Ask
    <2> HIDE DEF c
    <2> QED
      BY <1>a, <1>0, <2>1, <2>2, <2>5, <2>6
  <1>4. CASE RevokeSave(t)
    <2>1. /\ call' = [call EXCEPT ![t] = NoCall] /\ Proper(NoCall, link')
          /\ call[t].on \in Links /\ call[t].of \in LinkRow /\ call[t].of.kind # "none"
      BY <1>0, <1>4, NoCallTyped DEF RevokeSave, Turn, Proper, NoCall, ShareCall
    <2>2. \/ UNCHANGED link
          \/ \E l \in Links, r \in LinkRow : link' = [link EXCEPT ![l] = r] /\ r.kind # "none"
      <3>1. /\ [call[t].of EXCEPT !.revoked = TRUE] \in LinkRow
            /\ [call[t].of EXCEPT !.revoked = TRUE].kind # "none"
        BY <2>1, CopyTyped DEF LinkRow
      <3> QED
        BY <1>4, <2>1, <3>1 DEF RevokeSave, SaveLink
    <2>3. overlaid' \subseteq Links /\ ended' \subseteq Links
      BY <1>4, <2>1 DEF RevokeSave, SaveLink, ShareTypes
    <2>4. UNCHANGED <<clock, available, asked, served>>
      BY <1>4 DEF RevokeSave, Turn
    <2> QED
      BY <1>a, <1>0, <2>1, <2>2, <2>3, <2>4, NoCallTyped
  <1>5. CASE AuthoriseRead(t)
    <2>1. PICK a \in {"pinIp", "fail", "pinUa", "resolve"} :
             call' = [call EXCEPT ![t] = [call[t] EXCEPT !.of = link[call[t].on], !.at = a]]
      BY <1>5 DEF AuthoriseRead, Turn
    <2> DEFINE c == [call[t] EXCEPT !.of = link[call[t].on], !.at = a]
    <2>2. call[t].on \in Links /\ link[call[t].on].kind # "none" /\ call[t].who \in Visitors
      BY <1>0, <1>5 DEF AuthoriseRead, Proper
    <2>3. c \in ShareCall
      BY <1>0, <2>1, <2>2 DEF ShareTypes, ShareCall, CallLabels
    <2>4. Proper(c, link')
      BY <1>0, <1>5, <2>1, <2>2 DEF AuthoriseRead, Proper, ShareCall
    <2>5. call' = [call EXCEPT ![t] = c]
      BY <2>1
    <2>6. UNCHANGED <<clock, available, asked, link, ended, overlaid, served>>
      BY <1>5 DEF AuthoriseRead, Turn
    <2> HIDE DEF c
    <2> QED
      BY <1>a, <1>0, <2>3, <2>4, <2>5, <2>6
  <1>6. CASE PinIp(t) \/ PinUa(t)
    <2>1. call[t].on \in Links /\ call[t].who \in Visitors /\ call[t].of \in LinkRow
          /\ call[t].of.kind # "none"
      BY <1>0, <1>6 DEF PinIp, PinUa, Proper, ShareCall
    <2>2. PICK r \in LinkRow, a \in {"fail", "pinUa", "resolve"} :
             /\ r.kind # "none"
             /\ link' = [link EXCEPT ![call[t].on] = r]
             /\ call' = [call EXCEPT ![t] = [call[t] EXCEPT !.of = r, !.at = a]]
      <3>0. call[t].who.ip \in Nets /\ call[t].who.ua \in Browsers
        BY <2>1 DEF Nets, Browsers
      <3>1. /\ [call[t].of EXCEPT !.ip = call[t].who.ip] \in LinkRow
            /\ [call[t].of EXCEPT !.ip = call[t].who.ip].kind # "none"
            /\ [call[t].of EXCEPT !.ua = call[t].who.ua] \in LinkRow
            /\ [call[t].of EXCEPT !.ua = call[t].who.ua].kind # "none"
        <4>1. /\ [call[t].of EXCEPT !.ip = call[t].who.ip] \in LinkRow
              /\ [call[t].of EXCEPT !.ua = call[t].who.ua] \in LinkRow
          BY <2>1, <3>0, CopyTyped
        <4> QED
          BY <2>1, <4>1 DEF LinkRow
      <3>2. CASE PinIp(t)
        BY <3>1, <3>2 DEF PinIp, SaveLink, Turn
      <3>3. CASE PinUa(t)
        BY <3>1, <3>3 DEF PinUa, SaveLink, Turn
      <3> QED
        BY <1>6, <3>2, <3>3
    <2> DEFINE c == [call[t] EXCEPT !.of = r, !.at = a]
    <2>3. c \in ShareCall
      BY <1>0, <2>2 DEF ShareCall, CallLabels
    <2>4. link'[call[t].on].kind # "none"
      BY <2>1, <2>2 DEF ShareTypes
    <2>5. Proper(c, link')
      BY <1>0, <2>1, <2>2, <2>4 DEF Proper, ShareCall
    <2>6. overlaid' \subseteq Links
      BY <1>6, <2>1 DEF PinIp, PinUa, SaveLink, ShareTypes
    <2>7. UNCHANGED <<clock, available, asked, ended, served>>
      BY <1>6 DEF PinIp, PinUa, Turn
    <2>8. call' = [call EXCEPT ![t] = c]
      BY <2>2
    <2> HIDE DEF c
    <2> QED
      BY <1>a, <1>0, <2>1, <2>2, <2>3, <2>5, <2>6, <2>7, <2>8
  <1>7. CASE Resolve(t)
    <2>1. /\ call[t].on \in Links /\ call[t].who \in Visitors /\ call[t].late \in BOOLEAN
          /\ link[call[t].on].kind # "none" /\ call[t].of.kind # "none"
      BY <1>0, <1>7 DEF Resolve, Proper, ShareCall
    <2> DEFINE c == [call[t] EXCEPT !.at = "count"]
    <2>2. c \in ShareCall
      BY <1>0 DEF ShareCall, CallLabels
    <2>0. c.at = "count" /\ c.on = call[t].on /\ c.who = call[t].who /\ c.of = call[t].of
      BY <1>0 DEF ShareCall
    <2>6. UNCHANGED <<clock, available, asked, ended, overlaid, link>>
      BY <1>7 DEF Resolve, Turn
    <2>3. Proper(c, link') /\ Proper(NoCall, link')
      <3>1. Proper(c, link')
        BY <2>0, <2>1, <2>6 DEF Proper
      <3>2. Proper(NoCall, link')
        BY DEF Proper, NoCall
      <3> QED
        BY <3>1, <3>2
    <2>4. served' \subseteq [link : Links, who : Visitors, late : BOOLEAN]
      BY <1>0, <1>7, <2>1 DEF Resolve
    <2>5. \E d \in {c, NoCall} : call' = [call EXCEPT ![t] = d]
      BY <1>7 DEF Resolve, Turn
    <2> HIDE DEF c
    <2> QED
      BY <1>a, <1>0, <2>2, <2>3, <2>4, <2>5, <2>6, NoCallTyped
  <1>8. CASE RecordAccess(t)
    <2>1. /\ call[t].on \in Links /\ call[t].who \in Visitors /\ call[t].late \in BOOLEAN
          /\ call[t].of \in LinkRow /\ call[t].of.kind # "none"
      BY <1>0, <1>8 DEF RecordAccess, Proper, ShareCall
    <2>2. /\ [call[t].of EXCEPT !.count = @ + 1] \in LinkRow
          /\ [call[t].of EXCEPT !.count = @ + 1].kind # "none"
      BY <2>1, CopyTyped DEF LinkRow
    <2>3. Proper(NoCall, link') /\ call' = [call EXCEPT ![t] = NoCall]
      BY <1>8 DEF RecordAccess, Turn, Proper, NoCall
    <2>4. served' \subseteq [link : Links, who : Visitors, late : BOOLEAN]
      BY <1>0, <1>8, <2>1 DEF RecordAccess
    <2>5. overlaid' \subseteq Links
      BY <1>8, <2>1 DEF RecordAccess, SaveLink, ShareTypes
    <2>6. \E l \in Links, r \in LinkRow : link' = [link EXCEPT ![l] = r] /\ r.kind # "none"
      BY <1>8, <2>1, <2>2 DEF RecordAccess, SaveLink
    <2>7. UNCHANGED <<clock, available, asked, ended>>
      BY <1>8 DEF RecordAccess, Turn
    <2> QED
      BY <1>a, <1>0, <2>3, <2>4, <2>5, <2>6, <2>7, NoCallTyped
  <1>9. CASE Fail(t)
    <2>1. Proper(NoCall, link') /\ call' = [call EXCEPT ![t] = NoCall]
      BY <1>9 DEF Fail, Turn, Proper, NoCall
    <2>2. UNCHANGED <<clock, available, asked, ended, link, overlaid, served>>
      BY <1>9 DEF Fail, Turn
    <2> QED
      BY <1>a, <1>0, <2>1, <2>2, NoCallTyped
  <1> QED
    BY <1>1, <1>2, <1>3, <1>4, <1>5, <1>6, <1>7, <1>8, <1>9 DEF Share
LEMMA ShareStepTypes == ShareTypes /\ [ShareNext]_shareVars => ShareTypes'
  <1> SUFFICES ASSUME ShareTypes, [ShareNext]_shareVars PROVE ShareTypes'
    OBVIOUS
  <1>1. CASE \E t \in Servers : Share(t)
    BY <1>1, ShareCallTypes
  <1>2. CASE UNCHANGED shareVars
    BY <1>2 DEF ShareTypes, shareVars
  <1>3. ASSUME NEW l \in Links, Toggle(l) PROVE ShareTypes'
    <2>1. asked' \in 0..MaxAsked /\ available' \subseteq Links
      BY <1>3, ShareAssumption DEF Toggle, ShareTypes
    <2> QED
      BY <1>3, <2>1 DEF Toggle, ShareTypes
  <1>4. CASE Elapse
    <2>1. clock' \in 0..Ticks
      BY <1>4, LimiterAssumption DEF Elapse, ShareTypes
    <2> QED
      BY <1>4, <2>1 DEF Elapse, ShareTypes
  <1> QED
    BY <1>1, <1>2, <1>3, <1>4 DEF ShareNext

-----------------------------------------------------------------------------
(* Share links: what a link that no save went over keeps.                  *)

Holding == {"pinIp", "pinUa", "resolve", "count"}  \* visits that have read a row and were not refused

\* of the copy a call holds of a row: once a pin is set or the link revoked, it stays so
Agrees(copy, r) ==
  /\ copy.pinIp = r.pinIp /\ copy.pinUa = r.pinUa
  /\ copy.ip \in {"unset", r.ip} /\ copy.ua \in {"unset", r.ua}
  /\ copy.revoked => r.revoked

\* what a visit that was not refused so far has made sure of
Passed(c) ==
  /\ ~c.of.revoked /\ ~c.late
  /\ c.at = "pinIp" => c.of.ip = "unset"
  /\ c.at # "pinIp" /\ c.of.pinIp => c.of.ip = c.who.ip
  /\ c.at = "pinUa" => c.of.ua = "unset"
  /\ c.at \in {"resolve", "count"} /\ c.of.pinUa => c.of.ua = c.who.ua

Unminted == \A l \in Links : link[l].kind = "none" => l \notin ended /\ \A x \in served : x.link # l
LateAfterEnd == \A t \in Servers : call[t].late => call[t].on \in ended
CopiesAgree ==
  \A t \in Servers :
    /\ call[t].at \in Holding \cup {"revoke"} /\ call[t].on \notin overlaid =>
         Agrees(call[t].of, link[call[t].on])
    /\ call[t].at \in Holding /\ call[t].on \notin overlaid => Passed(call[t])
VisitsInTerms ==
  \A l \in Links \ overlaid :
    /\ l \in ended => link[l].revoked
    /\ \A x \in served : x.link = l =>
         /\ ~x.late
         /\ link[l].pinIp => x.who.ip = link[l].ip
         /\ link[l].pinUa => x.who.ua = link[l].ua

ShareInv == ShareTypes /\ Unminted /\ LateAfterEnd /\ CopiesAgree /\ VisitsInTerms
\* visit x keeps to the terms of row r
Within(x, r) == ~x.late /\ (r.pinIp => x.who.ip = r.ip) /\ (r.pinUa => x.who.ua = r.ua)

LEMMA AgreesSelf == \A r : Agrees(r, r)
  BY DEF Agrees

LEMMA AgreesOn ==
  ASSUME NEW a, NEW b, NEW c, Agrees(a, b), Agrees(b, c)
  PROVE  Agrees(a, c)
  BY DEF Agrees

LEMMA SaveKeeps ==
  ASSUME ShareTypes, NEW l \in Links, NEW old, NEW new \in LinkRow, SaveLink(l, old, new),
         l \notin overlaid => Agrees(old, new)
  PROVE  /\ overlaid \subseteq overlaid'
         /\ \A k \in Links \ overlaid' : Agrees(link[k], link'[k])
         /\ l \notin overlaid' => link[l] = old /\ link'[l] = new
  <1>1. overlaid \subseteq overlaid' /\ (l \notin overlaid' => link[l] = old)
    BY DEF SaveLink
  <1>2. link'[l] = new /\ \A k \in Links \ {l} : link'[k] = link[k]
    BY DEF SaveLink, ShareTypes
  <1> QED
    BY <1>1, <1>2, AgreesSelf

\* a thread's step keeps the invariant when rows only grow, and what it adds is in terms
LEMMA ShareInvStep ==
  ASSUME ShareInv, ShareTypes', NEW t \in Servers, NEW c \in ShareCall,
         call' = [call EXCEPT ![t] = c],
         overlaid \subseteq overlaid', ended \subseteq ended',
         \A l \in Links : link[l].kind # "none" => link'[l].kind # "none",
         \A l \in Links \ overlaid' : link[l].kind # "none" => Agrees(link[l], link'[l]),
         \A l \in ended' \ ended :
           link'[l].kind # "none" /\ (l \notin overlaid' => link'[l].revoked),
         \A x \in served' \ served :
           link'[x.link].kind # "none" /\ (x.link \notin overlaid' => Within(x, link'[x.link])),
         c.late => c.on \in ended',
         c.at \in Holding \cup {"revoke"} /\ c.on \notin overlaid' => Agrees(c.of, link'[c.on]),
         c.at \in Holding /\ c.on \notin overlaid' => Passed(c)
  PROVE  ShareInv'
  <1>1. Unminted'
    BY DEF ShareInv, Unminted
  <1>2. LateAfterEnd'
    BY DEF ShareInv, LateAfterEnd, ShareTypes
  <1>3. CopiesAgree'
    <2> SUFFICES ASSUME NEW o \in Servers
                 PROVE  /\ call'[o].at \in Holding \cup {"revoke"} /\ call'[o].on \notin overlaid' =>
                             Agrees(call'[o].of, link'[call'[o].on])
                        /\ call'[o].at \in Holding /\ call'[o].on \notin overlaid' => Passed(call'[o])
      BY DEF CopiesAgree
    <2>1. CASE o = t
      BY <2>1 DEF ShareInv, ShareTypes
    <2>2. CASE o # t
      <3>1. call'[o] = call[o]
        BY <2>2 DEF ShareInv, ShareTypes
      <3>2. call[o].at \in Holding \cup {"revoke"} =>
              call[o].on \in Links /\ link[call[o].on].kind # "none"
        BY DEF ShareInv, ShareTypes, Proper, Holding
      <3> QED
        BY <3>1, <3>2, AgreesOn DEF ShareInv, CopiesAgree
    <2> QED
      BY <2>1, <2>2
  <1>4. VisitsInTerms'
    <2> SUFFICES ASSUME NEW l \in Links \ overlaid'
                 PROVE  /\ l \in ended' => link'[l].revoked
                        /\ \A x \in served' : x.link = l => Within(x, link'[l])
      BY DEF VisitsInTerms, Within
    <2>1. l \in ended' => link'[l].revoked
      BY DEF ShareInv, VisitsInTerms, Unminted, Agrees
    <2>2. ASSUME NEW x \in served', x.link = l PROVE Within(x, link'[l])
      <3>1. CASE x \in served' \ served
        BY <2>2, <3>1
      <3>2. CASE x \in served
        <4>1. link[l].kind # "none" /\ x.who.ip # "unset" /\ x.who.ua # "unset"
          BY <2>2, <3>2, ShareAssumption DEF ShareInv, ShareTypes, Unminted
        <4>2. Within(x, link[l])
          BY <2>2, <3>2 DEF ShareInv, VisitsInTerms, Within
        <4> QED
          BY <4>1, <4>2 DEF Agrees, Within
      <3> QED
        BY <3>1, <3>2
    <2> QED
      BY <2>1, <2>2
  <1> QED
    BY <1>1, <1>2, <1>3, <1>4 DEF ShareInv
\* the rows an action of thread t may leave as they are
LEMMA RowsStay ==
  ASSUME ShareTypes, UNCHANGED link
  PROVE  /\ \A l \in Links : link[l].kind # "none" => link'[l].kind # "none"
         /\ \A l \in Links : Agrees(link[l], link'[l])
  BY AgreesSelf

LEMMA AdministratorKeepsTerms ==
  ASSUME ShareInv, ShareTypes', NEW t \in Servers,
         \/ \E l \in Links, x \in Terms : CreateLink(t, l, x)
         \/ \E l \in Links : RevokeRead(t, l)
         \/ RevokeSave(t)
  PROVE  ShareInv'
  <1>0. ShareTypes /\ call[t] \in ShareCall /\ Proper(call[t], link) /\ ~NoCall.late /\ NoCall.at = "idle"
    BY DEF ShareInv, ShareTypes, NoCall
  <1>1. ASSUME NEW l \in Links, NEW x \in Terms, CreateLink(t, l, x) PROVE ShareInv'
    <2>1. link[l].kind = "none" /\ call' = [call EXCEPT ![t] = NoCall]
      <3>1. link[l] = NoLink /\ call' = call /\ call[t] = NoCall
        BY <1>1 DEF CreateLink
      <3>2. NoLink.kind = "none"
        BY DEF NoLink
      <3>3. call \in [Servers -> ShareCall]
        BY <1>0 DEF ShareTypes
      <3> QED
        BY <3>1, <3>2, <3>3
    <2>2. \A k \in Links : link[k].kind # "none" => link'[k] = link[k]
      BY <1>1, <1>0, <2>1 DEF CreateLink, ShareTypes
    <2>3. UNCHANGED <<ended, overlaid, served>>
      BY <1>1 DEF CreateLink
    <2>4. "idle" \notin Holding \cup {"revoke"}
      BY DEF Holding
    <2> QED
      BY <1>0, <2>1, <2>2, <2>3, <2>4, AgreesSelf, NoCallTyped, ShareInvStep
  <1>2. ASSUME NEW l \in Links, RevokeRead(t, l) PROVE ShareInv'
    <2> DEFINE c == [NoCall EXCEPT !.at = "revoke", !.on = l, !.of = link[l]]
    <2>1. call' = [call EXCEPT ![t] = c] /\ UNCHANGED <<link, ended, overlaid, served>>
      BY <1>2 DEF RevokeRead, Ask
    <2>2. c.at = "revoke" /\ c.on = l /\ c.of = link[l] /\ ~c.late /\ "revoke" \notin Holding
      BY DEF NoCall, Holding
    <2>3. c \in ShareCall
      BY <1>0, NoCallTyped DEF ShareTypes, ShareCall, CallLabels
    <2> HIDE DEF c
    <2> QED
      BY <1>0, <2>1, <2>2, <2>3, AgreesSelf, RowsStay, ShareInvStep
  <1>3. CASE RevokeSave(t)
    <2> DEFINE l == call[t].on
               new == [call[t].of EXCEPT !.revoked = TRUE]
    <2>1. /\ l \in Links /\ call[t].of \in LinkRow /\ call' = [call EXCEPT ![t] = NoCall]
          /\ link[l].kind # "none" /\ ended' = ended \cup {l} /\ served' = served
          /\ call[t].at = "revoke"
      BY <1>0, <1>3 DEF RevokeSave, Turn, Proper, ShareCall
    <2>2. "idle" \notin Holding \cup {"revoke"}
      BY DEF Holding
    <2>3. CASE call[t].of.revoked
      <3>1. UNCHANGED <<link, overlaid>>
        BY <1>3, <2>3 DEF RevokeSave
      <3>2. l \notin overlaid => link[l].revoked
        BY <2>1, <2>3 DEF ShareInv, CopiesAgree, Agrees
      <3> HIDE DEF l
      <3> QED
        BY <1>0, <2>1, <2>2, <3>1, <3>2, RowsStay, NoCallTyped, ShareInvStep
    <2>4. CASE ~call[t].of.revoked
      <3>1. SaveLink(l, call[t].of, new)
        BY <1>3, <2>4 DEF RevokeSave
      <3>2. new \in LinkRow /\ new.revoked /\ Agrees(call[t].of, new) /\ new.kind = call[t].of.kind
        <4>1. new \in LinkRow
          BY <2>1, CopyTyped
        <4> QED
          BY <2>1, <4>1 DEF LinkRow, Agrees
      <3>3. call[t].of.kind # "none"
        BY <1>0, <2>1 DEF Proper
      <3>4. \A k \in Links : link[k].kind # "none" => link'[k].kind # "none"
        BY <1>0, <2>1, <3>1, <3>2, <3>3 DEF SaveLink, ShareTypes
      <3> HIDE DEF l, new
      <3>5. /\ overlaid \subseteq overlaid' /\ \A k \in Links \ overlaid' : Agrees(link[k], link'[k])
            /\ l \notin overlaid' => link'[l].revoked
        BY <1>0, <2>1, <3>1, <3>2, SaveKeeps
      <3> QED
        BY <1>0, <2>1, <2>2, <3>4, <3>5, NoCallTyped, ShareInvStep
    <2> QED
      BY <2>3, <2>4
  <1> QED
    BY <1>1, <1>2, <1>3
\* what a save of the copy c.of as `new` does, and what the visit then holds
LEMMA VisitSaves ==
  ASSUME ShareInv, ShareTypes', NEW t \in Servers, NEW c \in ShareCall, NEW new \in LinkRow,
         call[t].at \in Holding, SaveLink(call[t].on, call[t].of, new),
         Passed(call[t]) => Agrees(call[t].of, new),
         new.kind = call[t].of.kind,
         call' = [call EXCEPT ![t] = c], UNCHANGED ended, UNCHANGED served,
         c.at = "idle" => c = NoCall,
         c.at # "idle" => c.on = call[t].on /\ c.of = new /\ c.late = call[t].late,
         c.at \in Holding /\ Passed(call[t]) => Passed(c)
  PROVE  ShareInv'
  <1> DEFINE l == call[t].on
  <1>1. /\ l \in Links /\ call[t].of.kind # "none" /\ ShareTypes /\ ~NoCall.late
        /\ call[t].of \in LinkRow
    BY DEF ShareInv, ShareTypes, Proper, Holding, NoCall, ShareCall
  <1>2. \A k \in Links : link[k].kind # "none" => link'[k].kind # "none"
    BY <1>1 DEF SaveLink, ShareTypes
  <1>3. (call[t].late => l \in ended) /\ (l \notin overlaid => Passed(call[t]))
    BY DEF ShareInv, LateAfterEnd, CopiesAgree
  <1>4. c.late => c.on \in ended'
    BY <1>1, <1>3
  <1>5. "idle" \notin Holding \cup {"revoke"}
    BY DEF Holding
  <1> HIDE DEF l
  <1>6. /\ overlaid \subseteq overlaid' /\ \A k \in Links \ overlaid' : Agrees(link[k], link'[k])
        /\ l \notin overlaid' => link'[l] = new
    BY <1>1, <1>3, SaveKeeps DEF l
  <1>7. c.at \in Holding \cup {"revoke"} /\ c.on \notin overlaid' => Agrees(c.of, link'[c.on])
    BY <1>5, <1>6, AgreesSelf DEF l
  <1>8. c.at \in Holding /\ c.on \notin overlaid' => Passed(c)
    BY <1>3, <1>5, <1>6 DEF l
  <1> QED
    BY <1>1, <1>2, <1>4, <1>6, <1>7, <1>8, ShareInvStep

LEMMA VisitorKeepsTerms ==
  ASSUME ShareInv, ShareTypes', NEW t \in Servers,
         \/ \E l \in Links, v \in Visitors, w \in Wants : Visit(t, l, v, w)
         \/ AuthoriseRead(t) \/ PinIp(t) \/ PinUa(t) \/ Fail(t)
  PROVE  ShareInv'
  <1>0. /\ ShareTypes /\ call[t] \in ShareCall /\ Proper(call[t], link) /\ ~NoCall.late /\ NoCall.at = "idle"
        /\ call[t].of \in LinkRow /\ "idle" \notin Holding \cup {"revoke"}
    BY DEF ShareInv, ShareTypes, NoCall, ShareCall, Holding
  <1>1. ASSUME NEW l \in Links, NEW v \in Visitors, NEW w \in Wants, Visit(t, l, v, w) PROVE ShareInv'
    <2> DEFINE c == [NoCall EXCEPT !.at = "read", !.on = l, !.who = v, !.want = w,
                                   !.late = l \in ended]
    <2>0. (l \in ended) \in BOOLEAN
      OBVIOUS
    <2>1. c \in ShareCall
      BY <2>0, NoCallTyped DEF ShareCall, CallLabels
    <2>2. c.at = "read" /\ c.on = l /\ c.late = (l \in ended) /\ "read" \notin Holding \cup {"revoke"}
      BY DEF NoCall, Holding
    <2>3. call' = [call EXCEPT ![t] = c] /\ UNCHANGED <<link, ended, overlaid, served>>
      BY <1>1 DEF Visit, Ask
    <2> HIDE DEF c
    <2> QED
      BY <1>0, <2>1, <2>2, <2>3, RowsStay, ShareInvStep
  <1>2. CASE AuthoriseRead(t)
    <2> DEFINE l == call[t].on
               r == link[l]
               a == IF r.pinIp /\ r.ip = "unset" /\ ~r.revoked /\ ~Over(r) THEN "pinIp"
                    ELSE IF Refused(r, call[t].who) THEN "fail"
                    ELSE IF r.pinUa /\ r.ua = "unset" THEN "pinUa" ELSE "resolve"
               c == [call[t] EXCEPT !.of = r, !.at = a]
    <2>1. call' = [call EXCEPT ![t] = c] /\ UNCHANGED <<link, ended, overlaid, served>>
      BY <1>2 DEF AuthoriseRead, Turn
    <2>2. l \in Links /\ call[t].who \in Visitors /\ r \in LinkRow
      BY <1>0, <1>2 DEF AuthoriseRead, Proper, ShareTypes
    <2>3. c \in ShareCall /\ c.at = a /\ c.on = l /\ c.of = r /\ c.late = call[t].late /\ c.who = call[t].who
      <3>1. a \in CallLabels
        BY DEF CallLabels
      <3> HIDE DEF a
      <3> QED
        BY <1>0, <2>2, <3>1 DEF ShareCall
    <2>4. c.late => l \in ended
      BY <2>3 DEF ShareInv, LateAfterEnd
    <2>5. a \in Holding /\ l \notin overlaid => Passed(c)
      <3>1. SUFFICES ASSUME a \in Holding, l \notin overlaid PROVE Passed(c)
        OBVIOUS
      <3>2. ~r.revoked /\ a # "fail"
        BY <3>1 DEF Refused, Holding
      <3>3. ~c.late
        BY <2>2, <2>4, <3>1, <3>2 DEF ShareInv, VisitsInTerms
      <3>4. /\ a = "pinIp" => r.ip = "unset"
            /\ a # "pinIp" /\ r.pinIp => r.ip = call[t].who.ip
            /\ a = "pinUa" => r.ua = "unset"
            /\ a = "resolve" /\ r.pinUa => r.ua = call[t].who.ua
            /\ a # "count"
        <4>1. CASE r.pinIp /\ r.ip = "unset" /\ ~r.revoked /\ ~Over(r)
          BY <4>1
        <4>2. CASE ~(r.pinIp /\ r.ip = "unset" /\ ~r.revoked /\ ~Over(r))
          <5>1. ~Refused(r, call[t].who)
            BY <3>2, <4>2
          <5>2. a \in {"pinUa", "resolve"} /\ (a = "resolve" => ~(r.pinUa /\ r.ua = "unset"))
                /\ (a = "pinUa" => r.ua = "unset")
            BY <4>2, <5>1
          <5> HIDE DEF a
          <5> QED
            BY <4>2, <5>1, <5>2 DEF Refused
        <4> QED
          BY <4>1, <4>2
      <3> HIDE DEF a, c
      <3> QED
        BY <2>3, <3>2, <3>3, <3>4 DEF Passed
    <2> HIDE DEF c, a
    <2> QED
      BY <1>0, <2>1, <2>2, <2>3, <2>4, <2>5, AgreesSelf, RowsStay, ShareInvStep
  <1>3. CASE PinIp(t)
    <2> DEFINE new == [call[t].of EXCEPT !.ip = call[t].who.ip]
               a == IF Refused(new, call[t].who) THEN "fail"
                    ELSE IF new.pinUa /\ new.ua = "unset" THEN "pinUa" ELSE "resolve"
               c == [call[t] EXCEPT !.of = new, !.at = a]
    <2>1. /\ call' = [call EXCEPT ![t] = c] /\ SaveLink(call[t].on, call[t].of, new)
          /\ UNCHANGED ended /\ UNCHANGED served
      BY <1>3 DEF PinIp, Turn
    <2>2. call[t].who \in Visitors /\ call[t].at = "pinIp" /\ "pinIp" \in Holding
      BY <1>0, <1>3 DEF PinIp, Proper, Holding
    <2>3. /\ new \in LinkRow /\ new.kind = call[t].of.kind /\ new.ip = call[t].who.ip
          /\ new.revoked = call[t].of.revoked /\ new.pinIp = call[t].of.pinIp
          /\ new.pinUa = call[t].of.pinUa /\ new.ua = call[t].of.ua
      <3>1. call[t].who.ip \in Nets
        BY <2>2 DEF Nets
      <3>2. new \in LinkRow
        BY <1>0, <3>1, CopyTyped
      <3> QED
        BY <1>0, <3>2 DEF LinkRow
    <2>4. a \in {"fail", "pinUa", "resolve"}
      OBVIOUS
    <2>5. a # "fail" => ~Refused(new, call[t].who) /\ (a = "pinUa" <=> new.pinUa /\ new.ua = "unset")
      OBVIOUS
    <2> HIDE DEF a
    <2>6. c \in ShareCall /\ c.at = a /\ c.on = call[t].on /\ c.of = new /\ c.late = call[t].late
          /\ c.who = call[t].who
      BY <1>0, <2>3, <2>4 DEF ShareCall, CallLabels
    <2>7. a \in Holding /\ Passed(call[t]) => Passed(c)
      <3>1. "fail" \notin Holding
        BY DEF Holding
      <3> HIDE DEF c, new
      <3>2. a \in Holding => (new.pinUa => new.ua \in {"unset", call[t].who.ua}) /\ a # "fail"
        BY <2>5, <3>1 DEF Refused
      <3> QED
        BY <2>2, <2>3, <2>4, <2>5, <2>6, <3>2 DEF Passed
    <2>8. Passed(call[t]) => Agrees(call[t].of, new)
      <3> HIDE DEF new
      <3> QED
        BY <2>2, <2>3 DEF Passed, Agrees
    <2>9. c.at # "idle"
      BY <2>4, <2>6
    <2> HIDE DEF c, new
    <2> QED
      BY <2>1, <2>2, <2>3, <2>6, <2>7, <2>8, <2>9, VisitSaves
  <1>4. CASE PinUa(t)
    <2> DEFINE new == [call[t].of EXCEPT !.ua = call[t].who.ua]
               c == [call[t] EXCEPT !.of = new, !.at = "resolve"]
    <2>1. /\ call' = [call EXCEPT ![t] = c] /\ SaveLink(call[t].on, call[t].of, new)
          /\ UNCHANGED ended /\ UNCHANGED served
      BY <1>4 DEF PinUa, Turn
    <2>2. call[t].who \in Visitors /\ call[t].at = "pinUa" /\ "pinUa" \in Holding
      BY <1>0, <1>4 DEF PinUa, Proper, Holding
    <2>3. /\ new \in LinkRow /\ new.kind = call[t].of.kind /\ new.ip = call[t].of.ip
          /\ new.revoked = call[t].of.revoked /\ new.pinIp = call[t].of.pinIp
          /\ new.pinUa = call[t].of.pinUa /\ new.ua = call[t].who.ua
      <3>1. call[t].who.ua \in Browsers
        BY <2>2 DEF Browsers
      <3>2. new \in LinkRow
        BY <1>0, <3>1, CopyTyped
      <3> QED
        BY <1>0, <3>2 DEF LinkRow
    <2>4. c \in ShareCall /\ c.at = "resolve" /\ c.on = call[t].on /\ c.of = new /\ c.late = call[t].late
          /\ c.who = call[t].who
      BY <1>0, <2>3 DEF ShareCall, CallLabels
    <2> HIDE DEF c, new
    <2>5. Passed(call[t]) => Passed(c) /\ Agrees(call[t].of, new)
      BY <2>2, <2>3, <2>4 DEF Passed, Agrees
    <2> QED
      BY <2>1, <2>2, <2>3, <2>4, <2>5, VisitSaves
  <1>5. CASE Fail(t)
    <2>1. call' = [call EXCEPT ![t] = NoCall] /\ UNCHANGED <<link, ended, overlaid, served>>
      BY <1>5 DEF Fail, Turn
    <2> QED
      BY <1>0, <2>1, NoCallTyped, RowsStay, ShareInvStep
  <1> QED
    BY <1>1, <1>2, <1>3, <1>4, <1>5

LEMMA ServingKeepsTerms ==
  ASSUME ShareInv, ShareTypes', NEW t \in Servers, Resolve(t) \/ RecordAccess(t)
  PROVE  ShareInv'
  <1> DEFINE l == call[t].on
             x == [link |-> l, who |-> call[t].who, late |-> call[t].late]
  <1>0. /\ ShareTypes /\ call[t] \in ShareCall /\ Proper(call[t], link) /\ ~NoCall.late /\ NoCall.at = "idle"
        /\ call[t].of \in LinkRow /\ "idle" \notin Holding \cup {"revoke"}
    BY DEF ShareInv, ShareTypes, NoCall, ShareCall, Holding
  <1>1. /\ l \in Links /\ link[l].kind # "none" /\ call[t].of.kind # "none" /\ call[t].who \in Visitors
        /\ call[t].at \in {"resolve", "count"} /\ call[t].at \in Holding /\ call[t].at # "pinIp"
    BY <1>0 DEF Resolve, RecordAccess, Proper, Holding
  <1>2. l \notin overlaid => Passed(call[t]) /\ Agrees(call[t].of, link[l])
    BY <1>1 DEF ShareInv, CopiesAgree
  <1>3. l \notin overlaid => Within(x, call[t].of) /\ Within(x, link[l])
    <2>1. call[t].who.ip # "unset" /\ call[t].who.ua # "unset"
      BY <1>1, ShareAssumption
    <2> QED
      BY <1>1, <1>2, <2>1 DEF Passed, Agrees, Within
  <1>4. CASE Resolve(t)
    <2> DEFINE c == [call[t] EXCEPT !.at = "count"]
    <2>1. UNCHANGED <<link, ended, overlaid>> /\ call[t].at = "resolve"
      BY <1>4 DEF Resolve
    <2>2. CASE call' = [call EXCEPT ![t] = NoCall] /\ served' \subseteq served \cup {x}
      <3>1. \A y \in served' \ served : y = x
        BY <2>2
      <3>2. x.link = l
        OBVIOUS
      <3> HIDE DEF x
      <3> QED
        BY <1>0, <1>1, <1>3, <2>1, <2>2, <3>1, <3>2, NoCallTyped, RowsStay, ShareInvStep
    <2>3. CASE call' = [call EXCEPT ![t] = c] /\ UNCHANGED served
      <3>1. /\ c \in ShareCall /\ c.at = "count" /\ c.on = l /\ c.of = call[t].of /\ c.late = call[t].late
            /\ c.who = call[t].who
        BY <1>0 DEF ShareCall, CallLabels
      <3>2. c.late => l \in ended
        BY <3>1 DEF ShareInv, LateAfterEnd
      <3> HIDE DEF c
      <3>3. l \notin overlaid => Passed(c)
        BY <1>1, <1>2, <2>1, <3>1 DEF Passed
      <3> HIDE DEF l
      <3> QED
        BY <1>0, <1>1, <1>2, <2>1, <2>3, <3>1, <3>2, <3>3, RowsStay, ShareInvStep
    <2> QED
      BY <1>4, <2>2, <2>3 DEF Resolve, Turn
  <1>5. CASE RecordAccess(t)
    <2> DEFINE new == [call[t].of EXCEPT !.count = @ + 1]
    <2>1. /\ call' = [call EXCEPT ![t] = NoCall] /\ SaveLink(l, call[t].of, new)
          /\ UNCHANGED ended /\ served' = served \cup {x}
      BY <1>5 DEF RecordAccess, Turn
    <2>2. /\ new \in LinkRow /\ new.kind = call[t].of.kind /\ Agrees(call[t].of, new)
          /\ Within(x, call[t].of) => Within(x, new)
      <3>1. new \in LinkRow
        BY <1>0, CopyTyped
      <3> QED
        BY <1>0, <3>1 DEF LinkRow, Agrees, Within
    <2>3. \A k \in Links : link[k].kind # "none" => link'[k].kind # "none"
      BY <1>0, <1>1, <2>1, <2>2 DEF SaveLink, ShareTypes
    <2>4. x.link = l
      OBVIOUS
    <2> HIDE DEF l, x, new
    <2>5. /\ overlaid \subseteq overlaid' /\ \A k \in Links \ overlaid' : Agrees(link[k], link'[k])
          /\ l \notin overlaid' => link'[l] = new /\ l \notin overlaid
      BY <1>0, <1>1, <2>1, <2>2, SaveKeeps
    <2> QED
      BY <1>0, <1>1, <1>3, <2>1, <2>2, <2>3, <2>4, <2>5, NoCallTyped, ShareInvStep
  <1> QED
    BY <1>4, <1>5

LEMMA ShareInvKept == ShareInv /\ [ShareNext]_shareVars => ShareInv'
  <1> SUFFICES ASSUME ShareInv, [ShareNext]_shareVars PROVE ShareInv'
    OBVIOUS
  <1>0. ShareTypes /\ ShareTypes'
    BY ShareStepTypes DEF ShareInv
  <1>1. ASSUME NEW t \in Servers, Share(t) PROVE ShareInv'
    BY <1>0, <1>1, AdministratorKeepsTerms, VisitorKeepsTerms, ServingKeepsTerms DEF Share
  <1>2. CASE UNCHANGED <<link, call, ended, overlaid, served>>
    BY <1>0, <1>2 DEF ShareInv, Unminted, LateAfterEnd, CopiesAgree, VisitsInTerms, Agrees, Passed
  <1>3. ASSUME NEW l \in Links, Toggle(l) PROVE ShareInv'
    BY <1>2, <1>3 DEF Toggle
  <1>4. CASE Elapse
    BY <1>2, <1>4 DEF Elapse
  <1>5. CASE UNCHANGED shareVars
    BY <1>2, <1>5 DEF shareVars
  <1> QED
    BY <1>1, <1>3, <1>4, <1>5 DEF ShareNext

LEMMA InitShareInv == ShareInit => ShareInv
  BY InitShareTypes DEF ShareInit, ShareInv, Unminted, LateAfterEnd, CopiesAgree, VisitsInTerms, Holding, NoCall

\* at most one address and one browser were served: all of them are the link's
LEMMA TermsFromInv == ShareInv => LinkKeepsTerms
  <1> SUFFICES ASSUME ShareInv, NEW l \in Links \ overlaid PROVE InTerms(l)
    BY DEF LinkKeepsTerms
  <1> DEFINE visits == {x \in served : x.link = l}
  <1>1. \A x \in visits : Within(x, link[l])
    BY DEF ShareInv, VisitsInTerms, Within
  <1>2. \A S, e : S \subseteq {e} => Cardinality(S) <= 1
    <2> SUFFICES ASSUME NEW S, NEW e, S \subseteq {e} PROVE Cardinality(S) <= 1
      OBVIOUS
    <2>1. Cardinality({e}) = 1 /\ Cardinality({}) = 0
      BY FS_Singleton, FS_EmptySet
    <2>2. S = {} \/ S = {e}
      OBVIOUS
    <2> QED
      BY <2>1, <2>2
  <1>3. link[l].pinIp => Cardinality({x.who.ip : x \in visits}) <= 1
    <2>1. link[l].pinIp => {x.who.ip : x \in visits} \subseteq {link[l].ip}
      BY <1>1 DEF Within
    <2> QED
      BY <1>2, <2>1
  <1>4. link[l].pinUa => Cardinality({x.who.ua : x \in visits}) <= 1
    <2>1. link[l].pinUa => {x.who.ua : x \in visits} \subseteq {link[l].ua}
      BY <1>1 DEF Within
    <2> QED
      BY <1>2, <2>1
  <1>5. (l \in ended => link[l].revoked) /\ \A x \in visits : ~x.late
    BY <1>1 DEF ShareInv, VisitsInTerms, Within
  <1> QED
    BY <1>3, <1>4, <1>5 DEF InTerms

\* However many threads serve visitors and administrators, a link no save went
\* over stays revoked once it is, serves no visit begun after that, and serves
\* one address and one browser when it is pinned (authorise, _pin_link,
\* revoke_link of ShareLinkService).
THEOREM LinksKeepTerms == ShareSpec => []LinkKeepsTerms
  BY InitShareInv, ShareInvKept, TermsFromInv, PTL DEF ShareSpec
-----------------------------------------------------------------------------
(* Sessions.                                                               *)

Rows == Row \cup {NoRow}
CacheEntry == [row : Row, loaded : Hours, persisted : Hours]
WorkLabels == {"idle", "fill", "load", "found", "delete", "pop", "merge", "sweep"}
Task ==
  [op : Ops, at : WorkLabels, on : SUBSET Sids, row : Rows, sent : Rows, since : Hours, alone : BOOLEAN]

\* what a request brings is there when it is needed
Ready(w) ==
  /\ w.at = "fill" => w.row \in Row
  /\ w.at = "load" => \A a, b \in w.on : a = b
  /\ w.op = "request" => w.sent \in Row

SessionTypes ==
  /\ time \in Hours /\ requests \in 0..MaxRequests /\ revoked \in [Sids -> Hours \cup {-1}]
  /\ rows \in [Sids -> Rows] /\ cookie \in [Sids -> Rows] /\ cache \in [Sids -> CacheEntry \cup {NoEntry}]
  /\ work \in [Workers -> Task \cup {NoWork}] /\ \A t \in Workers : Ready(work[t])
  /\ alone \subseteq {s \in Sids : revoked[s] # -1}

\* nothing is left of a session revoked alone, and nobody is about to cache it
AloneGone ==
  \A s \in alone :
    /\ rows[s] = NoRow /\ cache[s] = NoEntry
    /\ \A t \in Workers : s \in work[t].on => work[t].at # "fill"

\* a removal that is still alone has deleted the rows, and no other thread can bring them back
StillAlone ==
  \A t \in Workers : work[t].at = "pop" /\ work[t].alone =>
    \A s \in work[t].on :
      /\ rows[s] = NoRow
      /\ \A o \in Workers \ {t} : s \in work[o].on => work[o].at \notin {"load", "fill", "found"}

SessionInv == SessionTypes /\ AloneGone /\ StillAlone
Tasks == Task \cup {NoWork}

\* thread t goes on with v; the others' requests stay, or are no longer alone
Turns(t, v) ==
  /\ work' \in [Workers -> Tasks] /\ (\A o \in Workers : Ready(work'[o]))
  /\ time' = time /\ requests' \in 0..MaxRequests /\ work'[t] = v
  /\ \A o \in Workers \ {t} :
       work'[o].on = work[o].on /\ work'[o].at = work[o].at /\ (work'[o].alone => work[o].alone)

LEMMA NoWorkReady == NoWork.at = "idle" /\ NoWork.op = "none" /\ NoWork.on = {} /\ Ready(NoWork)
  BY DEF NoWork, Ready

LEMMA StepTurns ==
  ASSUME SessionTypes, NEW t \in Workers, NEW v \in Tasks, Ready(v), Step(t, v)
  PROVE  Turns(t, v)
  BY DEF SessionTypes, Step, Turns, Tasks

LEMMA ServeTurns ==
  ASSUME SessionTypes, NEW t \in Workers, NEW w, NEW v \in Task, v = [w EXCEPT !.since = time],
         v.on = w.on, Ready(v), Serve(t, w)
  PROVE  /\ Turns(t, v) /\ UNCHANGED <<revoked, alone>> /\ work[t] = NoWork
         /\ \A o \in Workers \ {t} : work'[o].alone => work[o].on \cap v.on = {}
  <1>1. \A o \in Workers \ {t} :
          /\ work'[o] \in Tasks /\ Ready(work'[o])
          /\ work'[o].on = work[o].on /\ work'[o].at = work[o].at /\ (work'[o].alone => work[o].alone)
          /\ work'[o].alone => work[o].on \cap v.on = {}
    <2> SUFFICES ASSUME NEW o \in Workers \ {t}
                 PROVE  /\ work'[o] \in Tasks /\ Ready(work'[o])
                        /\ work'[o].on = work[o].on /\ work'[o].at = work[o].at
                        /\ work'[o].alone => work[o].alone
                        /\ work'[o].alone => work[o].on \cap v.on = {}
      OBVIOUS
    <2>0. work[o] \in Tasks /\ Ready(work[o])
      BY DEF SessionTypes, Tasks
    <2>1. CASE work[o].on \cap w.on = {}
      BY <2>0, <2>1 DEF Serve
    <2>2. CASE work[o].on \cap w.on # {}
      <3>1. work[o] \in Task /\ work'[o] = [work[o] EXCEPT !.alone = FALSE]
        BY <2>0, <2>2, NoWorkReady DEF Serve, Tasks
      <3>2. work'[o] \in Task
        BY <3>1 DEF Task
      <3>3. /\ work'[o].on = work[o].on /\ work'[o].at = work[o].at /\ ~work'[o].alone
            /\ work'[o].row = work[o].row /\ work'[o].op = work[o].op /\ work'[o].sent = work[o].sent
        BY <3>1 DEF Task
      <3> QED
        BY <2>0, <3>2, <3>3 DEF Ready, Tasks
    <2> QED
      BY <2>1, <2>2
  <1>2. work'[t] = v /\ time' = time /\ requests' \in 0..MaxRequests /\ work[t] = NoWork
        /\ UNCHANGED <<revoked, alone>>
    BY SessionAssumption DEF Serve, SessionTypes
  <1>3. work' \in [Workers -> Tasks]
    <2>1. \A o \in Workers : work'[o] \in Tasks
      BY <1>1, <1>2 DEF Tasks
    <2>2. work' = [o \in Workers |-> work'[o]]
      BY DEF Serve
    <2> QED
      BY <2>1, <2>2
  <1> QED
    BY <1>1, <1>2, <1>3 DEF Turns

\* a thread's step that revives nothing others count on keeps the invariant
LEMMA SessionInvStep ==
  ASSUME SessionInv, NEW t \in Workers, NEW v \in Tasks, Turns(t, v),
         revoked' \in [Sids -> Hours \cup {-1}], rows' \in [Sids -> Rows], cookie' \in [Sids -> Rows],
         cache' \in [Sids -> CacheEntry \cup {NoEntry}], alone' \subseteq {s \in Sids : revoked'[s] # -1},
         \A s \in alone' : rows'[s] = NoRow /\ cache'[s] = NoEntry,
         \A s \in alone' \ alone, o \in Workers \ {t} : s \in work[o].on => work[o].at # "fill",
         v.at = "fill" => v.on \cap alone' = {},
         \A s \in Sids : rows'[s] # NoRow =>
           \/ rows[s] # NoRow
           \/ s \in work[t].on /\ work[t].at = "found"
           \/ \A o \in Workers : s \notin work[o].on,
         v.at \in {"load", "fill", "found"} =>
           \/ v.on \subseteq work[t].on /\ work[t].at \in {"load", "fill", "found"}
           \/ \A o \in Workers \ {t} : work'[o].alone => work[o].on \cap v.on = {},
         v.at = "pop" /\ v.alone =>
           \A s \in v.on : rows'[s] = NoRow /\ \A o \in Workers \ {t} : s \notin work[o].on
  PROVE  SessionInv'
  <1>1. SessionTypes'
    BY DEF SessionInv, SessionTypes, Turns, Tasks
  <1>2. AloneGone'
    <2> SUFFICES ASSUME NEW s \in alone', NEW o \in Workers, s \in work'[o].on
                 PROVE  work'[o].at # "fill"
      BY DEF AloneGone
    <2>1. CASE o = t
      BY <2>1 DEF Turns
    <2>2. CASE o # t
      BY <2>2 DEF Turns, SessionInv, AloneGone
    <2> QED
      BY <2>1, <2>2
  <1>3. StillAlone'
    <2> SUFFICES ASSUME NEW p \in Workers, work'[p].at = "pop", work'[p].alone, NEW s \in work'[p].on
                 PROVE  /\ rows'[s] = NoRow
                        /\ \A o \in Workers \ {p} :
                             s \in work'[o].on => work'[o].at \notin {"load", "fill", "found"}
      BY DEF StillAlone
    <2>1. CASE p = t
      BY <2>1 DEF Turns
    <2>2. CASE p # t
      <3>1. /\ work[p].at = "pop" /\ work[p].alone /\ s \in work[p].on /\ s \in Sids
        BY <2>2, NoWorkReady DEF Turns, SessionInv, SessionTypes, Task
      <3>2. /\ rows[s] = NoRow
            /\ \A o \in Workers \ {p} : s \in work[o].on => work[o].at \notin {"load", "fill", "found"}
        BY <3>1 DEF SessionInv, StillAlone
      <3>3. rows'[s] = NoRow
        BY <2>2, <3>1, <3>2
      <3>4. ASSUME NEW o \in Workers \ {p}, s \in work'[o].on
            PROVE  work'[o].at \notin {"load", "fill", "found"}
        BY <2>2, <3>1, <3>2, <3>4 DEF Turns
      <3> QED
        BY <3>3, <3>4
    <2> QED
      BY <2>1, <2>2
  <1> QED
    BY <1>1, <1>2, <1>3 DEF SessionInv
LEMMA SessionTypesOf ==
  ASSUME SessionInv, NEW t \in Workers
  PROVE  /\ SessionTypes /\ work[t] \in Tasks /\ Ready(work[t]) /\ time \in Hours /\ time \in Int
         /\ revoked \in [Sids -> Hours \cup {-1}] /\ rows \in [Sids -> Rows] /\ cookie \in [Sids -> Rows]
         /\ cache \in [Sids -> CacheEntry \cup {NoEntry}] /\ alone \subseteq {s \in Sids : revoked[s] # -1}
         /\ \A s \in alone : rows[s] = NoRow /\ cache[s] = NoEntry
         /\ \A s \in alone : s \in work[t].on => work[t].at # "fill"
         /\ work[t].on \subseteq Sids
  BY SessionAssumption, NoWorkReady DEF SessionInv, SessionTypes, AloneGone, Tasks, Hours, Task

\* requests that only begin, and the deletions of many rows
LEMMA BeginningsKeep ==
  ASSUME SessionInv, NEW t \in Workers,
         \/ \E s \in Sids : Issue(t, s)
         \/ \E s \in Sids, op \in {"request", "revoke"} : LookUp(t, op, s)
         \/ \E s \in Sids : DeleteMany(t, "others", OwnerOf[s], s)
         \/ \E s \in Sids : DeleteMany(t, "user", OwnerOf[s], "none")
         \/ ListRead(t)
  PROVE  SessionInv'
  <1>0. /\ SessionTypes /\ time \in Hours
         /\ revoked \in [Sids -> Hours \cup {-1}] /\ rows \in [Sids -> Rows] /\ cookie \in [Sids -> Rows]
         /\ cache \in [Sids -> CacheEntry \cup {NoEntry}] /\ alone \subseteq {s \in Sids : revoked[s] # -1}
         /\ \A s \in alone : rows[s] = NoRow /\ cache[s] = NoEntry
    BY SessionTypesOf
  <1>1. ASSUME NEW s \in Sids, Issue(t, s) PROVE SessionInv'
    <2> DEFINE r == [created |-> time, active |-> time]
               w == [NoWork EXCEPT !.op = "issue", !.at = "fill", !.on = {s}, !.row = r]
               v == [w EXCEPT !.since = time]
    <2>1. r \in Row
      BY <1>0 DEF Row
    <2>2. rows' = [rows EXCEPT ![s] = r] /\ UNCHANGED <<cache, cookie>> /\ revoked[s] = -1
          /\ \A o \in Workers : s \notin work[o].on
      BY <1>1 DEF Issue
    <2>3. rows'[s] = r
      BY <1>0, <2>2
    <2>4. Serve(t, w)
      BY <1>1, <2>3 DEF Issue
    <2>5. v \in Task /\ v.on = w.on /\ v.on = {s} /\ v.at = "fill" /\ v.row = r /\ v.op = "issue"
      BY <1>0, <2>1 DEF Task, NoWork, Ops, WorkLabels, Rows
    <2>6. Ready(v)
      BY <2>1, <2>5 DEF Ready
    <2> HIDE DEF w, v, r
    <2>7. Turns(t, v) /\ UNCHANGED <<revoked, alone>>
          /\ \A o \in Workers \ {t} : work'[o].alone => work[o].on \cap v.on = {}
      BY <1>0, <2>4, <2>5, <2>6, ServeTurns DEF v
    <2>8. rows' \in [Sids -> Rows] /\ s \notin alone
      BY <1>0, <2>1, <2>2 DEF Rows
    <2>9. \A k \in alone : rows'[k] = NoRow
      BY <1>0, <2>2, <2>8
    <2> QED
      BY <1>0, <2>2, <2>5, <2>7, <2>8, <2>9, SessionInvStep DEF Tasks
  <1>2. ASSUME NEW s \in Sids, NEW op \in {"request", "revoke"}, LookUp(t, op, s) PROVE SessionInv'
    <2> DEFINE w == [NoWork EXCEPT !.op = op, !.on = {s}, !.at = IF Fresh(s) THEN "found" ELSE "load",
                             !.row = IF Fresh(s) THEN cache[s].row ELSE NoRow, !.sent = cookie[s]]
               v == [w EXCEPT !.since = time]
    <2>1. Serve(t, w) /\ UNCHANGED <<rows, cache, cookie>> /\ cookie[s] \in Row
      BY <1>0, <1>2 DEF LookUp, Rows
    <2>2. PICK a \in {"found", "load"}, r \in Rows :
             w = [NoWork EXCEPT !.op = op, !.on = {s}, !.at = a, !.row = r, !.sent = cookie[s]]
      <3>1. Fresh(s) => cache[s].row \in Rows
        BY <1>0 DEF Fresh, CacheEntry, Rows
      <3> QED
        BY <3>1 DEF Rows
    <2> HIDE DEF w
    <2>3. v \in Task /\ v.on = w.on /\ v.on = {s} /\ v.at \in {"found", "load"} /\ v.sent = cookie[s]
      BY <1>0, <2>1, <2>2 DEF Task, NoWork, Ops, WorkLabels, Rows
    <2>4. Ready(v)
      BY <2>1, <2>3 DEF Ready
    <2> HIDE DEF v
    <2>5. Turns(t, v) /\ UNCHANGED <<revoked, alone>>
          /\ \A o \in Workers \ {t} : work'[o].alone => work[o].on \cap v.on = {}
      BY <1>0, <2>1, <2>3, <2>4, ServeTurns DEF v
    <2> QED
      BY <1>0, <2>1, <2>3, <2>5, SessionInvStep DEF Tasks
  <1>3. ASSUME NEW op \in {"others", "user"}, NEW u, NEW keep, DeleteMany(t, op, u, keep) PROVE SessionInv'
    <2> DEFINE gone == {s \in Sids : rows[s] # NoRow /\ OwnerOf[s] = u /\ s # keep}
               w == [NoWork EXCEPT !.op = op, !.at = "pop", !.on = gone, !.alone = Undisturbed(t, gone)]
               v == [w EXCEPT !.since = time]
    <2>1. Serve(t, w) /\ UNCHANGED <<cache, cookie>> /\ rows' = Drop(rows, gone, NoRow)
      BY <1>3 DEF DeleteMany
    <2>2. rows' \in [Sids -> Rows] /\ \A k \in Sids : rows'[k] = IF k \in gone THEN NoRow ELSE rows[k]
      <3> HIDE DEF gone
      <3> QED
        BY <1>0, <2>1 DEF Drop, Rows
    <2>3. gone \subseteq Sids
      OBVIOUS
    <2>4. Undisturbed(t, gone) \in BOOLEAN
      BY DEF Undisturbed
    <2> HIDE DEF gone
    <2>5. v \in Task /\ v.on = w.on /\ v.on = gone /\ v.at = "pop" /\ v.alone = Undisturbed(t, gone)
          /\ v.op = op
      BY <1>0, <2>3, <2>4 DEF Task, NoWork, Ops, WorkLabels, Rows
    <2>6. Ready(v)
      BY <2>5 DEF Ready
    <2> HIDE DEF w, v
    <2>7. Turns(t, v) /\ UNCHANGED <<revoked, alone>>
      BY <1>0, <2>1, <2>5, <2>6, ServeTurns DEF v
    <2>8. v.alone => \A s \in v.on : \A o \in Workers \ {t} : s \notin work[o].on
      BY <2>5 DEF Undisturbed
    <2> QED
      BY <1>0, <2>1, <2>2, <2>3, <2>5, <2>7, <2>8, SessionInvStep DEF Tasks
  <1>4. CASE ListRead(t)
    <2> DEFINE met == {s \in Sids : rows[s] # NoRow /\ Expired(rows[s])}
               w == [NoWork EXCEPT !.op = "list", !.at = "merge", !.on = met]
               v == [w EXCEPT !.since = time]
    <2>1. Serve(t, w) /\ UNCHANGED <<rows, cache, cookie>>
      BY <1>4 DEF ListRead
    <2>2. met \subseteq Sids
      OBVIOUS
    <2> HIDE DEF met
    <2>3. v \in Task /\ v.on = w.on /\ v.at = "merge" /\ v.op = "list"
      BY <1>0, <2>2 DEF Task, NoWork, Ops, WorkLabels, Rows
    <2>4. Ready(v)
      BY <2>3 DEF Ready
    <2> HIDE DEF w, v
    <2>5. Turns(t, v) /\ UNCHANGED <<revoked, alone>>
      BY <1>0, <2>1, <2>3, <2>4, ServeTurns DEF v
    <2> QED
      BY <1>0, <2>1, <2>3, <2>5, SessionInvStep DEF Tasks
  <1> QED
    BY <1>1, <1>2, <1>3, <1>4
\* what a refresh may do to the session's row and cache entry
LEMMA TouchTypes ==
  ASSUME SessionTypes, NEW s \in Sids, Touch(s)
  PROVE  /\ rows' \in [Sids -> Rows] /\ cache' \in [Sids -> CacheEntry \cup {NoEntry}]
         /\ \A k \in Sids \ {s} : rows'[k] = rows[k] /\ cache'[k] = cache[k]
         /\ rows[s] = NoRow /\ cache[s] = NoEntry => rows'[s] = NoRow /\ cache'[s] = NoEntry
  <1> DEFINE e == IF Fresh(s) THEN cache[s] ELSE IF rows[s] # NoRow THEN Entry(rows[s], time) ELSE NoEntry
             late == time - e.persisted >= Flush
             r == [e.row EXCEPT !.active = time]
  <1>0. /\ rows \in [Sids -> Rows] /\ cache \in [Sids -> CacheEntry \cup {NoEntry}] /\ time \in Hours
        /\ NoRow \in Rows /\ Row \subseteq Rows
    BY DEF SessionTypes, Rows
  <1>1. e # NoEntry => e \in CacheEntry
    <2>1. CASE Fresh(s)
      BY <1>0, <2>1 DEF Fresh
    <2>2. CASE ~Fresh(s) /\ rows[s] # NoRow
      <3>1. rows[s] \in Row /\ rows[s].active \in Hours
        BY <1>0, <2>2 DEF Rows, Row
      <3> QED
        BY <1>0, <2>2, <3>1 DEF Entry, CacheEntry
    <2>3. CASE ~Fresh(s) /\ rows[s] = NoRow
      BY <2>3
    <2> QED
      BY <2>1, <2>2, <2>3
  <1>2. rows[s] = NoRow /\ cache[s] = NoEntry => e = NoEntry
    BY DEF Fresh
  <1>3. \/ e = NoEntry /\ cache' = [cache EXCEPT ![s] = NoEntry] /\ UNCHANGED rows
        \/ /\ e # NoEntry /\ cache' = [cache EXCEPT ![s] = NoEntry] /\ rows' = [rows EXCEPT ![s] = NoRow]
        \/ /\ e # NoEntry
           /\ cache' = [cache EXCEPT ![s] = [row |-> r, loaded |-> time,
                                              persisted |-> IF late THEN time ELSE e.persisted]]
           /\ rows' = IF late THEN [rows EXCEPT ![s] = r] ELSE rows
    BY DEF Touch
  <1> HIDE DEF e
  <1>4. CASE e # NoEntry /\ cache' # [cache EXCEPT ![s] = NoEntry]
    <2>1. e \in CacheEntry
      BY <1>1, <1>4
    <2>2. r \in Row /\ (IF late THEN time ELSE e.persisted) \in Hours
      BY <1>0, <2>1 DEF CacheEntry, Row
    <2>3. [row |-> r, loaded |-> time, persisted |-> IF late THEN time ELSE e.persisted] \in CacheEntry
      BY <1>0, <2>2 DEF CacheEntry
    <2> HIDE DEF r, late
    <2> QED
      BY <1>0, <1>2, <1>3, <1>4, <2>2, <2>3
  <1>5. CASE cache' = [cache EXCEPT ![s] = NoEntry] /\ (UNCHANGED rows \/ rows' = [rows EXCEPT ![s] = NoRow])
    BY <1>0, <1>5
  <1>6. CASE cache' = [cache EXCEPT ![s] = NoEntry] /\ e # NoEntry
    <2>1. CASE rows' = [rows EXCEPT ![s] = NoRow]
      BY <1>5, <1>6, <2>1
    <2>2. CASE rows' # [rows EXCEPT ![s] = NoRow]
      <3>1. e \in CacheEntry
        BY <1>1, <1>6
      <3>2. r \in Row
        BY <1>0, <3>1 DEF CacheEntry, Row
      <3> HIDE DEF r, late
      <3> QED
        BY <1>0, <1>2, <1>3, <1>6, <2>2, <3>2
    <2> QED
      BY <2>1, <2>2
  <1> QED
    BY <1>3, <1>4, <1>5, <1>6

\* a request goes on with its copy, changed in one respect
LEMMA TaskGoesOn ==
  ASSUME NEW w \in Tasks, NEW a \in WorkLabels, w # NoWork
  PROVE  /\ [w EXCEPT !.at = a] \in Task /\ [w EXCEPT !.at = a].at = a
         /\ [w EXCEPT !.at = a].on = w.on /\ [w EXCEPT !.at = a].op = w.op
         /\ [w EXCEPT !.at = a].row = w.row /\ [w EXCEPT !.at = a].sent = w.sent
         /\ [w EXCEPT !.at = a].alone = w.alone
  BY DEF Tasks, Task

LEMMA LookingUpKeeps ==
  ASSUME SessionInv, NEW t \in Workers,
         Load(t) \/ Fill(t) \/ Accept(t) \/ TimeOut(t) \/ RevokeFound(t)
  PROVE  SessionInv'
  <1> DEFINE w == work[t]
  <1>0. /\ SessionTypes /\ w \in Tasks /\ Ready(w) /\ time \in Hours
        /\ revoked \in [Sids -> Hours \cup {-1}] /\ rows \in [Sids -> Rows] /\ cookie \in [Sids -> Rows]
        /\ cache \in [Sids -> CacheEntry \cup {NoEntry}] /\ alone \subseteq {s \in Sids : revoked[s] # -1}
        /\ \A s \in alone : rows[s] = NoRow /\ cache[s] = NoEntry
        /\ \A s \in alone : s \in w.on => w.at # "fill"
        /\ w.on \subseteq Sids /\ NoRow \in Rows /\ Row \subseteq Rows
    BY SessionTypesOf DEF Rows
  <1>a. NoWork \in Tasks /\ NoWork.at = "idle" /\ NoWork.on = {} /\ Ready(NoWork)
    BY NoWorkReady DEF Tasks
  <1>b. w # NoWork /\ w.at \in {"load", "fill", "found"} /\ w \in Task
    BY <1>0, NoWorkReady DEF Load, Fill, Accept, TimeOut, RevokeFound, Tasks
  <1>1. CASE Load(t)
    <2>1. PICK s \in w.on :
            IF rows[s] = NoRow
            THEN /\ Step(t, NoWork)
                 /\ cache' = [cache EXCEPT ![s] = NoEntry]
                 /\ cookie' = IF w.op = "request" THEN [cookie EXCEPT ![s] = NoRow] ELSE cookie
            ELSE Step(t, [w EXCEPT !.at = "fill", !.row = rows[s]]) /\ UNCHANGED <<cache, cookie>>
      BY <1>1 DEF Load
    <2>2. UNCHANGED <<rows, revoked, alone>> /\ s \in Sids /\ w.at = "load"
      BY <1>0, <1>1 DEF Load
    <2>3. CASE rows[s] = NoRow
      <3>1. /\ Turns(t, NoWork) /\ cache' \in [Sids -> CacheEntry \cup {NoEntry}]
            /\ cookie' \in [Sids -> Rows] /\ \A k \in alone : cache'[k] = NoEntry
        BY <1>0, <1>a, <2>1, <2>2, <2>3, StepTurns
      <3> QED
        BY <1>0, <1>a, <2>2, <3>1, SessionInvStep
    <2>4. CASE rows[s] # NoRow
      <3> DEFINE v == [w EXCEPT !.at = "fill", !.row = rows[s]]
      <3>0. rows[s] \in Row
        BY <1>0, <2>2, <2>4 DEF Rows
      <3>1. v \in Task /\ v.at = "fill" /\ v.on = w.on /\ v.row = rows[s] /\ v.op = w.op /\ v.sent = w.sent
        BY <1>0, <1>b, <3>0 DEF Task, WorkLabels
      <3>2. Ready(v)
        BY <1>0, <3>0, <3>1 DEF Ready
      <3>3. Step(t, v) /\ UNCHANGED <<cache, cookie>>
        BY <2>1, <2>4
      <3> HIDE DEF v
      <3>4. Turns(t, v) /\ v \in Tasks
        BY <1>0, <3>1, <3>2, <3>3, StepTurns DEF Tasks
      <3>5. v.on \cap alone = {}
        <4>1. w.on = {s}
          BY <1>0, <2>2 DEF Ready
        <4> QED
          BY <1>0, <2>2, <2>4, <3>1, <4>1
      <3> QED
        BY <1>0, <1>b, <2>2, <3>1, <3>3, <3>4, <3>5, SessionInvStep
    <2> QED
      BY <2>3, <2>4
  <1>2. CASE Fill(t)
    <2>1. PICK s \in w.on :
            /\ cache' = [cache EXCEPT ![s] = Entry(w.row, w.since)]
            /\ cookie' = IF w.op = "issue" THEN [cookie EXCEPT ![s] = w.row] ELSE cookie
      BY <1>2 DEF Fill
    <2> DEFINE v == IF w.op = "issue" THEN NoWork ELSE [w EXCEPT !.at = "found"]
    <2>2. /\ UNCHANGED <<rows, revoked, alone>> /\ s \in Sids /\ w.at = "fill" /\ w.row \in Row
          /\ w.since \in Hours /\ Step(t, v)
      BY <1>0, <1>b, <1>2 DEF Fill, Ready, Task
    <2>3. Entry(w.row, w.since) \in CacheEntry
      BY <2>2 DEF Entry, CacheEntry, Row
    <2>4. v \in Tasks /\ Ready(v) /\ v.at \in {"idle", "found"} /\ v.on \subseteq w.on
      <3>1. CASE w.op = "issue"
        BY <3>1, <1>a
      <3>2. CASE w.op # "issue"
        <4>1. "found" \in WorkLabels
          BY DEF WorkLabels
        <4>2. v = [w EXCEPT !.at = "found"]
          BY <3>2
        <4> HIDE DEF v, w
        <4>3. v \in Task /\ v.at = "found" /\ v.on = w.on /\ v.op = w.op /\ v.row = w.row /\ v.sent = w.sent
          BY <1>0, <1>b, <4>1, <4>2, TaskGoesOn
        <4> QED
          BY <1>0, <4>3 DEF Ready, Tasks
      <3> QED
        BY <3>1, <3>2
    <2> HIDE DEF v
    <2>5. Turns(t, v)
      BY <1>0, <2>2, <2>4, StepTurns
    <2>6. /\ cache' \in [Sids -> CacheEntry \cup {NoEntry}] /\ cookie' \in [Sids -> Rows]
          /\ \A k \in alone : cache'[k] = NoEntry
      BY <1>0, <2>1, <2>2, <2>3
    <2> QED
      BY <1>0, <1>b, <2>2, <2>4, <2>5, <2>6, SessionInvStep
  <1>3. CASE Accept(t)
    <2>1. PICK s \in w.on : Touch(s) /\ cookie' = [cookie EXCEPT ![s] = [w.sent EXCEPT !.active = time]]
      BY <1>3 DEF Accept
    <2>2. UNCHANGED <<revoked, alone>> /\ s \in Sids /\ w.at = "found" /\ w.sent \in Row /\ Step(t, NoWork)
      BY <1>0, <1>3 DEF Accept, Ready
    <2>3. [w.sent EXCEPT !.active = time] \in Row
      BY <1>0, <2>2 DEF Row
    <2>4. cookie' \in [Sids -> Rows]
      BY <1>0, <2>1, <2>2, <2>3
    <2>5. /\ rows' \in [Sids -> Rows] /\ cache' \in [Sids -> CacheEntry \cup {NoEntry}]
          /\ \A k \in Sids \ {s} : rows'[k] = rows[k] /\ cache'[k] = cache[k]
          /\ rows[s] = NoRow /\ cache[s] = NoEntry => rows'[s] = NoRow /\ cache'[s] = NoEntry
      BY <1>0, <2>1, <2>2, TouchTypes
    <2>6. \A k \in alone : rows'[k] = NoRow /\ cache'[k] = NoEntry
      BY <1>0, <2>5
    <2>7. \A k \in Sids : rows'[k] # NoRow => rows[k] # NoRow \/ (k \in w.on /\ w.at = "found")
      BY <2>1, <2>2, <2>5
    <2>8. Turns(t, NoWork)
      BY <1>0, <1>a, <2>2, StepTurns
    <2> QED
      BY <1>0, <1>a, <2>2, <2>4, <2>5, <2>6, <2>7, <2>8, SessionInvStep
  <1>4. CASE TimeOut(t) \/ RevokeFound(t)
    <2> DEFINE v == [w EXCEPT !.at = "delete"]
    <2>1. Step(t, v) /\ UNCHANGED <<rows, cache, revoked, alone>> /\ cookie' \in [Sids -> Rows]
      <3>1. CASE TimeOut(t)
        BY <1>0, <3>1 DEF TimeOut, Drop
      <3>2. CASE RevokeFound(t)
        BY <1>0, <3>2 DEF RevokeFound
      <3> QED
        BY <1>4, <3>1, <3>2
    <2>2. "delete" \in WorkLabels
      BY DEF WorkLabels
    <2> HIDE DEF w
    <2>3. v \in Task /\ v.at = "delete" /\ v.on = w.on /\ v.op = w.op /\ v.row = w.row /\ v.sent = w.sent
      BY <1>0, <1>b, <2>2, TaskGoesOn
    <2> HIDE DEF v
    <2>4. Ready(v) /\ v \in Tasks
      BY <1>0, <2>3 DEF Ready, Tasks
    <2>5. Turns(t, v)
      BY <1>0, <2>1, <2>4, StepTurns
    <2> QED
      BY <1>0, <2>1, <2>3, <2>4, <2>5, SessionInvStep
  <1> QED
    BY <1>1, <1>2, <1>3, <1>4
LEMMA RemovalsKeep ==
  ASSUME SessionInv, NEW t \in Workers,
         Delete(t) \/ Pop(t) \/ ListMerge(t) \/ SweepRow(t) \/ SweepEntry(t)
  PROVE  SessionInv'
  <1> DEFINE w == work[t]
  <1>0. /\ SessionTypes /\ w \in Tasks /\ Ready(w) /\ time \in Hours /\ time # -1
        /\ revoked \in [Sids -> Hours \cup {-1}] /\ rows \in [Sids -> Rows] /\ cookie \in [Sids -> Rows]
        /\ cache \in [Sids -> CacheEntry \cup {NoEntry}] /\ alone \subseteq {s \in Sids : revoked[s] # -1}
        /\ \A s \in alone : rows[s] = NoRow /\ cache[s] = NoEntry
        /\ w.on \subseteq Sids /\ NoRow \in Rows
    BY SessionTypesOf DEF Rows, Hours
  <1>a. NoWork \in Tasks /\ NoWork.at = "idle" /\ NoWork.on = {} /\ Ready(NoWork)
    BY NoWorkReady DEF Tasks
  <1>b. w # NoWork /\ w \in Task
    BY <1>0, NoWorkReady DEF Delete, Pop, ListMerge, SweepRow, SweepEntry, Tasks
  <1>1. CASE Delete(t)
    <2> DEFINE b == w.op = "revoke" /\ Undisturbed(t, w.on)
               v == [w EXCEPT !.at = "pop", !.alone = b]
    <2>1. Step(t, v) /\ rows' = Drop(rows, w.on, NoRow) /\ UNCHANGED <<cache, cookie, revoked, alone>>
      BY <1>1 DEF Delete
    <2>2. rows' \in [Sids -> Rows] /\ \A k \in Sids : rows'[k] = IF k \in w.on THEN NoRow ELSE rows[k]
      BY <1>0, <2>1 DEF Drop
    <2>3. b \in BOOLEAN /\ (b => \A s \in w.on : \A o \in Workers \ {t} : s \notin work[o].on)
      BY DEF Undisturbed
    <2> HIDE DEF b
    <2>4. v \in Task /\ v.at = "pop" /\ v.on = w.on /\ v.op = w.op /\ v.sent = w.sent /\ v.alone = b
      BY <1>b, <2>3 DEF Task, WorkLabels
    <2> HIDE DEF v
    <2>5. Ready(v) /\ v \in Tasks
      BY <1>0, <2>4 DEF Ready, Tasks
    <2>6. Turns(t, v)
      BY <1>0, <2>1, <2>5, StepTurns
    <2> QED
      BY <1>0, <2>1, <2>2, <2>3, <2>4, <2>5, <2>6, SessionInvStep
  <1>2. CASE Pop(t)
    <2>1. /\ Step(t, NoWork) /\ cache' = Drop(cache, w.on, NoEntry) /\ UNCHANGED <<rows, cookie>>
          /\ w.at = "pop"
      BY <1>2 DEF Pop
    <2>2. /\ cache' \in [Sids -> CacheEntry \cup {NoEntry}]
          /\ \A k \in Sids : cache'[k] = IF k \in w.on THEN NoEntry ELSE cache[k]
      BY <1>0, <2>1 DEF Drop
    <2>3. revoked' \in [Sids -> Hours \cup {-1}] /\ \A k \in Sids : revoked[k] # -1 => revoked'[k] = revoked[k]
      <3>1. CASE UNCHANGED revoked
        BY <1>0, <3>1
      <3>2. CASE revoked' = [s \in Sids |-> IF s \in w.on /\ revoked[s] = -1 THEN time ELSE revoked[s]]
        BY <1>0, <3>2
      <3> QED
        BY <1>2, <3>1, <3>2 DEF Pop
    <2>4. alone' = alone \/ (w.alone /\ alone' = alone \cup w.on /\ \A k \in w.on : revoked'[k] # -1)
      BY <1>0, <1>2 DEF Pop
    <2>5. \A s \in alone' : rows[s] = NoRow
      BY <1>0, <2>1, <2>4 DEF SessionInv, StillAlone
    <2>6. \A s \in alone' : cache'[s] = NoEntry
      BY <1>0, <2>2, <2>4
    <2>7. \A s \in alone' \ alone, o \in Workers \ {t} : s \in work[o].on => work[o].at # "fill"
      BY <2>1, <2>4 DEF SessionInv, StillAlone
    <2>8. alone' \subseteq {s \in Sids : revoked'[s] # -1}
      BY <1>0, <2>3, <2>4
    <2>9. Turns(t, NoWork)
      BY <1>0, <1>a, <2>1, StepTurns
    <2> HIDE DEF w
    <2> QED
      BY <1>0, <1>a, <2>1, <2>2, <2>3, <2>5, <2>6, <2>7, <2>8, <2>9, SessionInvStep
  <1>3. CASE ListMerge(t)
    <2> DEFINE gone == w.on \cup {s \in Sids : cache[s] # NoEntry /\ Expired(cache[s].row)}
               v == IF gone = {} THEN NoWork ELSE [w EXCEPT !.at = "sweep", !.on = gone]
    <2>1. Step(t, v) /\ UNCHANGED <<rows, cache, cookie, revoked, alone>>
      BY <1>3 DEF ListMerge
    <2>2. gone \subseteq Sids
      BY <1>0
    <2> HIDE DEF gone
    <2>3. v \in Tasks /\ v.at \in {"idle", "sweep"} /\ Ready(v)
      <3> DEFINE d == [w EXCEPT !.at = "sweep", !.on = gone]
      <3>1. d \in Task /\ d.at = "sweep" /\ d.op = w.op /\ d.sent = w.sent
        BY <1>b, <2>2 DEF Task, WorkLabels
      <3> HIDE DEF d
      <3>2. Ready(d)
        BY <1>0, <3>1 DEF Ready
      <3> QED
        BY <1>a, <3>1, <3>2 DEF d, Tasks
    <2> HIDE DEF v
    <2>4. Turns(t, v)
      BY <1>0, <2>1, <2>3, StepTurns
    <2> QED
      BY <1>0, <2>1, <2>3, <2>4, SessionInvStep
  <1>4. CASE SweepRow(t)
    <2>1. /\ UNCHANGED <<work, time, requests, cache, cookie, revoked, alone>> /\ w.at = "sweep"
          /\ \E s \in Sids : rows' = [rows EXCEPT ![s] = NoRow]
      BY <1>0, <1>4 DEF SweepRow
    <2>2. Turns(t, w)
      BY <1>0, <2>1 DEF Turns, SessionTypes, Tasks
    <2>3. rows' \in [Sids -> Rows] /\ \A k \in Sids : rows'[k] = rows[k] \/ rows'[k] = NoRow
      BY <1>0, <2>1
    <2> HIDE DEF w
    <2>4. \A k \in alone : rows'[k] = NoRow
      BY <1>0, <2>3
    <2>5. \A k \in Sids : rows'[k] # NoRow => rows[k] # NoRow
      BY <2>3
    <2> QED
      BY <1>0, <2>1, <2>2, <2>3, <2>4, <2>5, SessionInvStep
  <1>5. CASE SweepEntry(t)
    <2>1. PICK s \in w.on : /\ rows[s] = NoRow
                            /\ cache' = [cache EXCEPT ![s] = NoEntry]
                            /\ Step(t, IF w.on = {s} THEN NoWork ELSE [w EXCEPT !.on = @ \ {s}])
      BY <1>5 DEF SweepEntry
    <2> DEFINE v == IF w.on = {s} THEN NoWork ELSE [w EXCEPT !.on = @ \ {s}]
    <2>2. UNCHANGED <<rows, cookie, revoked, alone>> /\ s \in Sids /\ w.at = "sweep"
      BY <1>0, <1>5 DEF SweepEntry
    <2>3. /\ cache' \in [Sids -> CacheEntry \cup {NoEntry}] /\ \A k \in alone : cache'[k] = NoEntry
      BY <1>0, <2>1, <2>2
    <2>4. v \in Tasks /\ v.at \in {"idle", "sweep"} /\ Ready(v)
      <3> DEFINE d == [w EXCEPT !.on = @ \ {s}]
      <3>1. d \in Task /\ d.at = "sweep" /\ d.op = w.op /\ d.sent = w.sent
        BY <1>0, <1>b, <2>2 DEF Task
      <3> HIDE DEF d
      <3>2. Ready(d)
        BY <1>0, <3>1 DEF Ready
      <3> QED
        BY <1>a, <3>1, <3>2 DEF d, Tasks
    <2> HIDE DEF v
    <2>5. Turns(t, v)
      BY <1>0, <2>1, <2>4, StepTurns DEF v
    <2> QED
      BY <1>0, <2>2, <2>3, <2>4, <2>5, SessionInvStep
  <1> QED
    BY <1>1, <1>2, <1>3, <1>4, <1>5

LEMMA InitSessionInv == SessionInit => SessionInv
  <1>1. 0 \in Hours /\ 0 \in 0..MaxRequests
    BY SessionAssumption DEF Hours
  <1>2. SessionInit => SessionTypes
    BY <1>1, NoWorkReady DEF SessionInit, SessionTypes, Rows
  <1> QED
    BY <1>2, NoWorkReady DEF SessionInit, SessionInv, AloneGone, StillAlone

LEMMA SessionInvKept == SessionInv /\ [SessionNext]_sessionVars => SessionInv'
  <1> SUFFICES ASSUME SessionInv, [SessionNext]_sessionVars PROVE SessionInv'
    OBVIOUS
  <1>1. ASSUME NEW t \in Workers, OnSession(t) PROVE SessionInv'
    BY <1>1, BeginningsKeep, LookingUpKeeps, RemovalsKeep DEF OnSession
  <1>2. CASE RestartSessions
    <2>1. SessionTypes'
      BY <1>2, NoWorkReady DEF RestartSessions, SessionInv, SessionTypes
    <2> QED
      BY <1>2, <2>1, NoWorkReady DEF RestartSessions, SessionInv, SessionTypes, AloneGone, StillAlone
  <1>3. CASE PassTime
    <2>1. time' \in Hours
      BY <1>3, SessionAssumption DEF PassTime, SessionInv, SessionTypes, Hours
    <2> QED
      BY <1>3, <2>1 DEF PassTime, SessionInv, SessionTypes, AloneGone, StillAlone
  <1>4. CASE UNCHANGED sessionVars
    BY <1>4 DEF sessionVars, SessionInv, SessionTypes, AloneGone, StillAlone
  <1> QED
    BY <1>1, <1>2, <1>3, <1>4 DEF SessionNext

LEMMA SessionsFromInv == SessionInv => SessionTypeOK /\ RevokedStaysOut
  <1> SUFFICES ASSUME SessionInv PROVE SessionTypeOK /\ RevokedStaysOut
    OBVIOUS
  <1>1. \A s \in Sids : cache[s] = NoEntry
                     \/ (cache[s].row \in Row /\ cache[s].loaded \in Hours /\ cache[s].persisted \in Hours)
    BY DEF SessionInv, SessionTypes, CacheEntry
  <1>2. \A t \in Workers : work[t] = NoWork \/ (work[t].op \in Ops /\ work[t].on \subseteq Sids)
    BY DEF SessionInv, SessionTypes, Task
  <1> QED
    BY <1>1, <1>2 DEF SessionInv, SessionTypes, SessionTypeOK, AloneGone, RevokedStaysOut, Rows

\* However requests, refreshes, listings and restarts overlap, a session that
\* was revoked while no other request was on it is in neither the store nor the
\* cache ever again (SessionStore, revoke_session, touch, list_active).
THEOREM RevokedSessionsStayOut == SessionSpec => [](SessionTypeOK /\ RevokedStaysOut)
  BY InitSessionInv, SessionInvKept, SessionsFromInv, PTL DEF SessionSpec
-----------------------------------------------------------------------------
(* The rate limiter: how many recorded times are not before w.             *)

Times(s) == s \in Seq(Int) /\ \A i, j \in 1..Len(s) : i <= j => s[i] <= s[j]
UpTo(s, c) == Times(s) /\ \A i \in 1..Len(s) : s[i] <= c
Below(s, w) == Cardinality({i \in DOMAIN s : s[i] < w})
Since(s, w) == Len(s) - Below(s, w)

\* of times in their order those before w come first, so they can be counted off
LEMMA BelowSplit ==
  ASSUME NEW s, Times(s), NEW w \in Int
  PROVE  Below(s, w) \in 0..Len(s) /\ \A i \in 1..Len(s) : s[i] < w <=> i <= Below(s, w)
  <1> DEFINE S == {i \in DOMAIN s : s[i] < w}
             n == Cardinality(S)
  <1>0. s \in Seq(Int) /\ DOMAIN s = 1..Len(s) /\ Len(s) \in Nat
    BY DEF Times
  <1>1. S \subseteq 1..Len(s) /\ IsFiniteSet(1..Len(s)) /\ Cardinality(1..Len(s)) = Len(s)
    BY <1>0, FS_Interval
  <1>2. IsFiniteSet(S) /\ n \in Nat /\ n <= Len(s)
    BY <1>1, FS_Subset, FS_CardinalityType
  <1>3. ASSUME NEW i \in 1..Len(s), s[i] < w PROVE i <= n
    <2>1. 1..i \subseteq S
      <3> SUFFICES ASSUME NEW j \in 1..i PROVE j \in S
        OBVIOUS
      <3>1. j \in 1..Len(s) /\ s[j] <= s[i] /\ s[j] \in Int /\ s[i] \in Int
        BY <1>0, <1>3 DEF Times
      <3> QED
        BY <1>0, <1>3, <3>1
    <2>2. Cardinality(1..i) = i
      BY <1>0, FS_Interval
    <2> QED
      BY <1>2, <2>1, <2>2, FS_Subset
  <1>4. ASSUME NEW i \in 1..Len(s), ~(s[i] < w) PROVE n < i
    <2>1. S \subseteq 1..(i - 1)
      <3> SUFFICES ASSUME NEW j \in S PROVE j \in 1..(i - 1)
        OBVIOUS
      <3>1. j \in 1..Len(s) /\ s[j] < w /\ s[j] \in Int /\ s[i] \in Int
        BY <1>0
      <3>2. ~(i <= j)
        BY <1>4, <3>1 DEF Times
      <3> QED
        BY <1>0, <3>1, <3>2
    <2>2. IsFiniteSet(1..(i - 1)) /\ Cardinality(1..(i - 1)) = i - 1
      <3>1. i \in Int /\ i - 1 \in Int /\ 1 <= i
        BY <1>0
      <3>2. IsFiniteSet(1..(i - 1)) /\ Cardinality(1..(i - 1)) = IF 1 > i - 1 THEN 0 ELSE (i - 1) - 1 + 1
        BY <3>1, FS_Interval
      <3> QED
        BY <3>1, <3>2
    <2>3. n <= i - 1
      BY <2>1, <2>2, FS_Subset
    <2> QED
      BY <1>0, <1>2, <2>3
  <1>5. Below(s, w) = n
    BY DEF Below
  <1> HIDE DEF n, S
  <1> QED
    BY <1>0, <1>2, <1>3, <1>4, <1>5

LEMMA BelowIs ==
  ASSUME NEW s, Times(s), NEW w \in Int, NEW n \in 0..Len(s),
         \A i \in 1..Len(s) : s[i] < w <=> i <= n
  PROVE  Below(s, w) = n
  <1>1. Below(s, w) \in 0..Len(s) /\ (\A i \in 1..Len(s) : s[i] < w <=> i <= Below(s, w)) /\ Len(s) \in Nat
    BY BelowSplit DEF Times
  <1> DEFINE m == Below(s, w)
  <1> HIDE DEF m
  <1>2. CASE m < n
    BY <1>1, <1>2 DEF m
  <1>3. CASE n < m
    BY <1>1, <1>3 DEF m
  <1> QED
    BY <1>1, <1>2, <1>3 DEF m

\* pruned and extended by the present time, as record and Guess do
Extended(s) == Append(InWindow(s), clock)

LEMMA WindowOf ==
  ASSUME NEW s, Times(s), clock \in Int
  PROVE  /\ Outdated(s) = Below(s, clock - Window) /\ Outdated(s) \in 0..Len(s)
         /\ InWindow(s) \in Seq(Int) /\ Len(InWindow(s)) = Len(s) - Outdated(s)
         /\ \A i \in 1..(Len(s) - Outdated(s)) : InWindow(s)[i] = s[i + Outdated(s)]
  <1> DEFINE n == Outdated(s)
  <1>1. n = Below(s, clock - Window) /\ clock - Window \in Int
    BY LimiterAssumption DEF Outdated, Below
  <1>2. n \in 0..Len(s) /\ s \in Seq(Int) /\ Len(s) \in Nat
    BY <1>1, BelowSplit DEF Times
  <1>3. InWindow(s) = SubSeq(s, n + 1, Len(s))
    BY DEF InWindow
  <1> HIDE DEF n
  <1>4. InWindow(s) \in Seq(Int) /\ Len(InWindow(s)) = Len(s) - n
    BY <1>2, <1>3
  <1>5. \A i \in 1..(Len(s) - n) : InWindow(s)[i] = s[i + n]
    BY <1>2, <1>3
  <1> QED
    BY <1>1, <1>2, <1>4, <1>5 DEF n

LEMMA ExtendedIs ==
  ASSUME NEW s, clock \in Int, UpTo(s, clock)
  PROVE  /\ UpTo(Extended(s), clock)
         /\ \A w \in Int : clock - Window <= w /\ w <= clock => Since(Extended(s), w) = Since(s, w) + 1
         /\ \A w \in Int : w > clock => Since(Extended(s), w) = 0
  <1> DEFINE n == Outdated(s)
             p == InWindow(s)
             q == Extended(s)
             k == Len(s) - n
  <1>0. Times(s) /\ Len(s) \in Nat /\ \A i \in 1..Len(s) : s[i] \in Int /\ s[i] <= clock
    BY DEF UpTo, Times
  <1>1. /\ n = Below(s, clock - Window) /\ n \in 0..Len(s) /\ p \in Seq(Int) /\ Len(p) = k /\ k \in Nat
        /\ \A i \in 1..k : p[i] = s[i + n]
    BY <1>0, WindowOf
  <1>2. q \in Seq(Int) /\ Len(q) = k + 1 /\ q[k + 1] = clock /\ \A i \in 1..k : q[i] = s[i + n]
    <2>1. q = Append(p, clock)
      BY DEF Extended
    <2> HIDE DEF p, q, k, n
    <2> QED
      BY <1>1, <2>1
  <1> HIDE DEF n, p, q, k
  <1>3. \A i \in 1..(k + 1) : q[i] <= clock
    <2> SUFFICES ASSUME NEW i \in 1..(k + 1) PROVE q[i] <= clock
      OBVIOUS
    <2>1. CASE i = k + 1
      BY <1>2, <2>1
    <2>2. CASE i # k + 1
      <3>1. i \in 1..k /\ i + n \in 1..Len(s)
        BY <1>1, <2>2 DEF k
      <3> QED
        BY <1>0, <1>2, <3>1
    <2> QED
      BY <2>1, <2>2
  <1>4. \A i, j \in 1..(k + 1) : i <= j => q[i] <= q[j]
    <2> SUFFICES ASSUME NEW i \in 1..(k + 1), NEW j \in 1..(k + 1), i <= j PROVE q[i] <= q[j]
      OBVIOUS
    <2>1. CASE j = k + 1
      BY <1>2, <1>3, <2>1
    <2>2. CASE j # k + 1
      <3>1. i \in 1..k /\ j \in 1..k /\ i + n \in 1..Len(s) /\ j + n \in 1..Len(s) /\ i + n <= j + n
        BY <1>1, <2>2 DEF k
      <3>2. s[i + n] <= s[j + n]
        BY <1>0, <3>1 DEF Times
      <3> QED
        BY <1>2, <3>1, <3>2
    <2> QED
      BY <2>1, <2>2
  <1>5. UpTo(q, clock) /\ Times(q)
    BY <1>2, <1>3, <1>4 DEF UpTo, Times
  <1>6. ASSUME NEW w \in Int, clock - Window <= w, w <= clock PROVE Since(q, w) = Since(s, w) + 1
    <2> DEFINE b == Below(s, w)
    <2>1. b \in 0..Len(s) /\ \A i \in 1..Len(s) : s[i] < w <=> i <= b
      BY <1>0, BelowSplit
    <2>2. \A i \in 1..Len(s) : s[i] < clock - Window <=> i <= n
      <3>1. clock - Window \in Int
        BY LimiterAssumption
      <3> QED
        BY <1>0, <1>1, <3>1, BelowSplit
    <2> HIDE DEF b
    <2>3. n <= b
      <3>1. CASE n = 0
        BY <2>1, <3>1
      <3>2. CASE n # 0
        <4>1. n \in 1..Len(s) /\ s[n] < clock - Window /\ s[n] \in Int
          BY <1>0, <1>1, <2>2, <3>2
        <4>2. s[n] < w
          BY <1>6, <4>1, LimiterAssumption
        <4> QED
          BY <2>1, <4>1, <4>2
      <3> QED
        BY <3>1, <3>2
    <2>4. b - n \in 0..(k + 1) /\ \A i \in 1..(k + 1) : q[i] < w <=> i <= b - n
      <3>1. b - n \in 0..k
        BY <1>1, <2>1, <2>3 DEF k
      <3>2. ASSUME NEW i \in 1..k PROVE q[i] < w <=> i <= b - n
        <4>1. i + n \in 1..Len(s)
          BY <1>1 DEF k
        <4>2. s[i + n] < w <=> i + n <= b
          BY <2>1, <4>1
        <4>3. q[i] = s[i + n]
          BY <1>2
        <4>4. i + n <= b <=> i <= b - n
          BY <1>1, <2>1
        <4> QED
          BY <4>2, <4>3, <4>4
      <3>3. ~(q[k + 1] < w) /\ ~(k + 1 <= b - n)
        BY <1>1, <1>2, <1>6, <3>1
      <3> QED
        BY <1>1, <3>1, <3>2, <3>3
    <2>5. Below(q, w) = b - n
      BY <1>2, <1>5, <2>4, BelowIs
    <2> QED
      BY <1>1, <1>2, <2>1, <2>5 DEF Since, b, k
  <1>7. ASSUME NEW w \in Int, w > clock PROVE Since(q, w) = 0
    <2>1. k + 1 \in 0..(k + 1) /\ \A i \in 1..(k + 1) : q[i] < w <=> i <= k + 1
      BY <1>1, <1>2, <1>3, <1>7
    <2>2. Below(q, w) = k + 1
      BY <1>2, <1>5, <2>1, BelowIs
    <2> QED
      BY <1>1, <1>2, <2>2 DEF Since
  <1> QED
    BY <1>5, <1>6, <1>7 DEF q
LEMMA SinceIn ==
  ASSUME NEW s, Times(s), NEW w \in Int
  PROVE  Since(s, w) \in 0..Len(s)
  <1>1. Below(s, w) \in 0..Len(s) /\ Len(s) \in Nat
    BY BelowSplit DEF Times
  <1> QED
    BY <1>1 DEF Since

\* keeping the last ones forgets only what is more than the block
LEMMA LastOnesAre ==
  ASSUME NEW s, NEW c \in Int, UpTo(s, c), NEW B \in Nat \ {0}
  PROVE  /\ UpTo(LastOnes(s, B), c) /\ Len(LastOnes(s, B)) <= B
         /\ \A w \in Int : Since(LastOnes(s, B), w) >= B \/ Since(LastOnes(s, B), w) = Since(s, w)
  <1> DEFINE d == IF Len(s) > B THEN Len(s) - B ELSE 0
             q == LastOnes(s, B)
             k == Len(s) - d
  <1>0. Times(s) /\ s \in Seq(Int) /\ Len(s) \in Nat /\ \A i \in 1..Len(s) : s[i] \in Int /\ s[i] <= c
    BY DEF UpTo, Times
  <1>1. q = SubSeq(s, d + 1, Len(s)) /\ d \in 0..Len(s) /\ k <= B /\ k \in 0..Len(s) /\ (d # 0 => k = B)
    <2>1. (IF Len(s) > B THEN Len(s) - B + 1 ELSE 1) = d + 1
      BY <1>0
    <2> QED
      BY <1>0, <2>1 DEF LastOnes
  <1> HIDE DEF d, q
  <1>2. q \in Seq(Int) /\ Len(q) = k /\ \A i \in 1..k : q[i] = s[i + d]
    BY <1>0, <1>1
  <1> HIDE DEF k
  <1>3. \A i \in 1..k : i + d \in 1..Len(s)
    BY <1>0, <1>1 DEF k
  <1>4. \A i \in 1..k : q[i] <= c
    BY <1>0, <1>2, <1>3
  <1>5. \A i, j \in 1..k : i <= j => q[i] <= q[j]
    <2> SUFFICES ASSUME NEW i \in 1..k, NEW j \in 1..k, i <= j PROVE q[i] <= q[j]
      OBVIOUS
    <2>0. i \in Int /\ j \in Int /\ d \in Int
      BY <1>0, <1>1
    <2>1. i + d \in 1..Len(s) /\ j + d \in 1..Len(s) /\ i + d <= j + d
      <3>1. i + d <= j + d
        BY <2>0
      <3> QED
        BY <1>3, <3>1
    <2>2. s[i + d] <= s[j + d]
      BY <1>0, <2>1 DEF Times
    <2> QED
      BY <1>2, <2>2
  <1>6. UpTo(q, c) /\ Times(q)
    BY <1>2, <1>4, <1>5 DEF UpTo, Times
  <1>7. ASSUME NEW w \in Int PROVE Since(q, w) >= B \/ Since(q, w) = Since(s, w)
    <2> DEFINE b == Below(s, w)
    <2>1. b \in 0..Len(s) /\ \A i \in 1..Len(s) : s[i] < w <=> i <= b
      BY <1>0, BelowSplit
    <2>2. Since(s, w) = Len(s) - b
      BY DEF Since
    <2> HIDE DEF b
    <2>3. CASE d <= b
      <3>1. b - d \in 0..k
        BY <1>0, <1>1, <2>1, <2>3 DEF k
      <3>2. ASSUME NEW i \in 1..k PROVE q[i] < w <=> i <= b - d
        <4>1. s[i + d] < w <=> i + d <= b
          BY <1>3, <2>1
        <4>2. q[i] = s[i + d]
          BY <1>2
        <4>3. i + d <= b <=> i <= b - d
          BY <1>1, <2>1
        <4> QED
          BY <4>1, <4>2, <4>3
      <3>3. Below(q, w) = b - d
        BY <1>2, <1>6, <3>1, <3>2, BelowIs
      <3> QED
        BY <1>0, <1>1, <1>2, <2>1, <2>2, <3>3 DEF Since, k
    <2>4. CASE b < d
      <3>1. 0 \in 0..k /\ k = B
        BY <1>0, <1>1, <2>1, <2>4
      <3>2. ASSUME NEW i \in 1..k PROVE q[i] < w <=> i <= 0
        <4>1. i + d \in 1..Len(s) /\ ~(i + d <= b)
          BY <1>1, <1>3, <2>1, <2>4
        <4>2. ~(s[i + d] < w)
          BY <2>1, <4>1
        <4> QED
          BY <1>2, <4>2
      <3>3. Below(q, w) = 0
        BY <1>2, <1>6, <3>1, <3>2, BelowIs
      <3> QED
        BY <1>2, <3>1, <3>3 DEF Since
    <2> QED
      BY <1>1, <2>1, <2>3, <2>4
  <1> QED
    BY <1>1, <1>2, <1>6, <1>7 DEF q

\* recording an attempt
LEMMA Recorded ==
  ASSUME UpTo(attempts, clock), clock \in Int, Record
  PROVE  /\ UpTo(attempts', clock) /\ Len(attempts') <= Block
         /\ \A w \in Int : clock - Window <= w /\ w <= clock =>
              Since(attempts', w) >= Block \/ Since(attempts', w) = Since(attempts, w) + 1
  <1>1. attempts' = LastOnes(Extended(attempts), Block) /\ Block \in Nat \ {0}
    BY LimiterAssumption DEF Record, Extended
  <1>2. /\ UpTo(Extended(attempts), clock)
        /\ \A w \in Int : clock - Window <= w /\ w <= clock =>
             Since(Extended(attempts), w) = Since(attempts, w) + 1
    BY ExtendedIs
  <1> QED
    BY <1>1, <1>2, LastOnesAre

\* an allowed attempt: fewer than the block are in the window, and in any shorter one
LEMMA AllowedMeans ==
  ASSUME Times(attempts), clock \in Int, Allowed
  PROVE  \A w \in Int : clock - Window <= w => Since(attempts, w) < Block
  <1> SUFFICES ASSUME NEW w \in Int, clock - Window <= w PROVE Since(attempts, w) < Block
    OBVIOUS
  <1> DEFINE s == attempts
             v == clock - Window
  <1>1. v \in Int /\ Len(s) \in Nat /\ \A i \in 1..Len(s) : s[i] \in Int
    BY LimiterAssumption DEF Times
  <1>2. /\ Below(s, v) \in 0..Len(s) /\ \A i \in 1..Len(s) : s[i] < v <=> i <= Below(s, v)
        /\ Below(s, w) \in 0..Len(s) /\ \A i \in 1..Len(s) : s[i] < w <=> i <= Below(s, w)
    BY <1>1, BelowSplit
  <1>3. Len(s) - Below(s, v) < Block
    BY WindowOf DEF Allowed
  <1>4. Below(s, v) <= Below(s, w)
    <2>1. CASE Below(s, v) = 0
      BY <1>2, <2>1
    <2>2. CASE Below(s, v) # 0
      BY <1>1, <1>2, <2>2
    <2> QED
      BY <2>1, <2>2
  <1> QED
    BY <1>1, <1>2, <1>3, <1>4, LimiterAssumption DEF Since
-----------------------------------------------------------------------------
(* Accounts.                                                               *)

Serials == 0..(MaxIssued + 1)
AccRow ==
  [pw : Passwords \cup {0}, must : BOOLEAN, fails : Nat, until : Nat, totp : Serials,
   codes : SUBSET (Begun \X RecoveryKeys), step : Int]
Code ==
  {c \in [kind : {"none", "wrong", "totp", "recovery"}, from : Serials, of : Int \cup RecoveryKeys] :
     c.kind = "totp" => c.of \in Int}
JobLabels == {"idle", "read", "record", "save", "admit", "open", "drop"}
Job ==
  [at : JobLabels, user : Users \cup {"nobody"}, old : AccRow, new : AccRow,
   then : {"end", "save", "admit", "open", "unforce"}, code : Code, remote : BOOLEAN, by : Serials]

Placed(j) ==
  /\ j.at = "idle" => j = Quiet
  /\ j.at # "idle" => j.user \in Users
  /\ j.at = "save" => j.then # "save"
  /\ j.at = "record" => j.then \in {"end", "save"}
  /\ j.at = "read" => j.code = NoCode

AccountBooks ==
  /\ clock \in 0..Ticks /\ issued \in Begun /\ handled \in 0..MaxHandled /\ row \in [Users -> AccRow]
  /\ signed \subseteq [id : Serials, user : Users, must : BOOLEAN]
  /\ tokens \subseteq [user : Users, issued : Int, remote : BOOLEAN]
  /\ intended \in [Users -> [pw : Passwords \cup {0}, totp : Serials, gone : BOOLEAN]]
  /\ spent \subseteq [user : Users, code : Code] /\ reused \subseteq Users /\ lost \subseteq Users

AccountTypes == AccountBooks /\ job \in [Threads -> Job] /\ \A t \in Threads : Placed(job[t])

\* threads that were let in and have yet to judge, and that have judged and have yet to record
Reading == {t \in Threads : job[t].at = "read"}
Recording == {t \in Threads : job[t].at = "record"}

\* In no window are there more wrong guesses than recorded attempts and the
\* threads yet to record, unless the window is blocked; so those who are let
\* in cannot guess more often than the block and the threads allow.
Paced ==
  \A w \in Int : clock - Window <= w =>
    /\ Since(attempts, w) >= Block \/ Since(guesses, w) <= Since(attempts, w) + Cardinality(Recording)
    /\ Since(guesses, w) + Cardinality(Reading) <= Block - 1 + Cardinality(Threads)
PaceInv == UpTo(attempts, clock) /\ UpTo(guesses, clock) /\ Len(attempts) <= Block /\ Paced

\* the secrets and batches of codes a row holds
Ids(r) == ({r.totp} \ {0}) \cup {p[1] : p \in r.codes}
Pending(j) == j.at = "save" \/ (j.at = "record" /\ j.then = "save")
NewIds(j) == Ids(j.new) \ Ids(j.old)
Creates(j) == Pending(j) /\ j.old = Absent

\* a code that no longer opens the row
UsedUp(c, r) ==
  /\ c.kind = "totp" /\ c.from = r.totp => c.of <= r.step
  /\ c.kind = "recovery" => <<c.from, c.of>> \notin r.codes

\* how the copy to be saved differs from the row that was read: nothing is
\* opened again except by secrets and codes issued for it, and the code that
\* was presented is used up
Rightly(old, new, c) ==
  /\ new.pw # 0
  /\ \/ new.totp \in {0} \cup (Ids(new) \ Ids(old))
     \/ new.totp = old.totp /\ new.step >= old.step
  /\ \A p \in new.codes : p \in old.codes \/ p[1] \in Ids(new) \ Ids(old)
  /\ c # NoCode =>
       /\ c.kind \in {"totp", "recovery"} /\ c.from # 0 /\ c.from \in Ids(old) \cup Ids(new)
       /\ c.from \in Ids(old) => ~UsedUp(c, old)
       /\ UsedUp(c, new)
SavesRightly(j) ==
  IF j.old = Absent THEN j.new = NewRow(j.user) /\ j.code = NoCode /\ j.at = "save"
  ELSE Rightly(j.old, j.new, j.code)

Whole == \A u \in Users : row[u] # Absent => row[u].pw # 0
Numbered ==
  /\ \A u \in Users : Ids(row[u]) \subseteq 1..issued
  /\ \A t \in Threads : Ids(job[t].old) \cup Ids(job[t].new) \cup ({job[t].code.from} \ {0}) \subseteq 1..issued
  /\ \A x \in spent : x.code.kind \in {"totp", "recovery"} /\ x.code.from \in 1..issued

SavesRight == \A t \in Threads : Pending(job[t]) => SavesRightly(job[t])
SpentStaySpent == \A x \in spent : x.user \notin lost => UsedUp(x.code, row[x.user])
DroppedAreGone == \A t \in Threads : job[t].at = "drop" /\ job[t].user \notin lost => row[job[t].user] = Absent
Untouched(u) == row[u] = Absent /\ u \notin Founders /\ ~intended[u].gone /\ intended[u].totp = 0
AbsentAre ==
  \A u \in Users \ lost : row[u] = Absent =>
    intended[u].gone \/ Untouched(u) \/ \E t \in Threads : job[t].at = "drop" /\ job[t].user = u
CreatedAreNew ==
  \A t \in Threads : Creates(job[t]) /\ job[t].user \notin lost =>
    /\ Untouched(job[t].user)
    /\ \A o \in Threads \ {t} : job[o].user = job[t].user => ~Pending(job[o]) /\ job[o].at # "drop"
NewIdsAreNew ==
  \A t \in Threads : Pending(job[t]) /\ job[t].user \notin lost => \A i \in NewIds(job[t]) :
    /\ i \notin Ids(row[job[t].user])
    /\ \A o \in Threads \ {t} : job[o].user = job[t].user =>
         i \notin Ids(job[o].old) \cup Ids(job[o].new) \cup {job[o].code.from}
    /\ \A x \in spent : x.user = job[t].user => x.code.from # i

AccountInv ==
  /\ AccountTypes /\ Whole /\ Numbered /\ SavesRight /\ SpentStaySpent /\ DroppedAreGone /\ AbsentAre
  /\ CreatedAreNew /\ NewIdsAreNew /\ NothingUndone
(* Rows, codes and jobs.                                                   *)

LEMMA RowsAre ==
  /\ Absent \in AccRow /\ (\A u \in Users : NewRow(u) \in AccRow) /\ NoCode \in Code /\ Quiet \in Job
  /\ Placed(Quiet) /\ 0 \in Serials /\ Begun \subseteq Serials /\ Serials \subseteq Int /\ 1 \in Begun
  <1>0. MaxIssued \in Nat /\ 1 \in Passwords
    BY AccountAssumption
  <1>1. 0 \in Serials /\ Begun \subseteq Serials /\ Serials \subseteq Int /\ 1 \in Begun
    BY <1>0 DEF Serials, Begun
  <1>2. Absent \in AccRow
    BY <1>1 DEF Absent, AccRow
  <1>3. ASSUME NEW u \in Users PROVE NewRow(u) \in AccRow
    <2> DEFINE k == IF u \in Enrolled THEN 1 ELSE 0
               c == IF u \in Enrolled THEN {<<1, x>> : x \in RecoveryKeys} ELSE {}
    <2>1. k \in Serials /\ c \in SUBSET (Begun \X RecoveryKeys)
      BY <1>1
    <2>2. NewRow(u) = [Absent EXCEPT !.pw = 1, !.totp = k, !.codes = c]
      BY DEF NewRow
    <2> HIDE DEF k, c
    <2> QED
      BY <1>0, <1>2, <2>1, <2>2 DEF AccRow
  <1>4. NoCode \in Code
    BY <1>1 DEF NoCode, Code
  <1>5. Quiet \in Job /\ Placed(Quiet)
    BY <1>1, <1>2, <1>4 DEF Quiet, Job, JobLabels, Placed
  <1> QED
    BY <1>1, <1>2, <1>3, <1>4, <1>5

LEMMA DurationIs == \A n \in Nat : Duration(n) \in Nat
  <1> SUFFICES ASSUME NEW n \in Nat PROVE Duration(n) \in Nat
    OBVIOUS
  <1> DEFINE L == {x \in Ladder : n >= x.at}
             S == {0} \cup {l.for : l \in L}
  <1>1. L \in SUBSET Ladder /\ \A l \in L : l.for \in Nat
    BY AccountAssumption
  <1>2. L # {} => \E l \in L : \A k \in L : k.for <= l.for
    BY <1>1, AccountAssumption
  <1> HIDE DEF L
  <1>3. \E x \in S : \A y \in S : x >= y
    <2>1. CASE L = {}
      BY <2>1
    <2>2. CASE L # {}
      <3>1. PICK l \in L : \A k \in L : k.for <= l.for
        BY <1>2, <2>2
      <3>2. l.for \in S /\ \A y \in S : l.for >= y
        BY <1>1, <3>1
      <3> QED
        BY <3>2
    <2> QED
      BY <2>1, <2>2
  <1>4. S \subseteq Nat
    BY <1>1
  <1>5. Duration(n) = CHOOSE x \in S : \A y \in S : x >= y
    BY DEF Duration, Max, L
  <1> HIDE DEF S
  <1> QED
    BY <1>3, <1>4, <1>5

\* the copies that handlers make of a row
LEMMA CopiesAre ==
  ASSUME NEW r \in AccRow, clock \in Nat
  PROVE  /\ Failed(r) \in AccRow /\ Cleared(r) \in AccRow /\ NoTotp(r) \in AccRow
         /\ \A p \in Passwords, b \in BOOLEAN : [r EXCEPT !.pw = p, !.must = b] \in AccRow
         /\ \A i \in Begun, n \in Int :
              [r EXCEPT !.totp = i, !.step = n, !.codes = {<<i, k>> : k \in RecoveryKeys}] \in AccRow
         /\ \A i \in Begun : [r EXCEPT !.codes = {<<i, k>> : k \in RecoveryKeys}] \in AccRow
         /\ \A c : (c.kind = "totp" => c.of \in Int) => Using(r, c) \in AccRow
  <1>1. Failed(r) \in AccRow
    <2> DEFINE d == Duration(r.fails + 1)
               z == IF d > 0 THEN clock + d ELSE r.until
    <2>1. r.fails + 1 \in Nat /\ r.until \in Nat
      BY DEF AccRow
    <2>2. d \in Nat
      BY <2>1, DurationIs
    <2>3. z \in Nat
      BY <2>1, <2>2
    <2>4. Failed(r) = [r EXCEPT !.fails = r.fails + 1, !.until = z]
      BY DEF Failed, AccRow
    <2> HIDE DEF z
    <2> QED
      BY <2>1, <2>3, <2>4 DEF AccRow
  <1>2. Cleared(r) \in AccRow
    BY DEF Cleared, AccRow
  <1>3. NoTotp(r) \in AccRow
    <2> DEFINE c == {}
    <2>1. 0 \in Serials /\ -1 \in Int /\ c \in SUBSET (Begun \X RecoveryKeys)
      BY RowsAre
    <2>2. NoTotp(r) = [r EXCEPT !.totp = 0, !.codes = c, !.step = -1]
      BY DEF NoTotp
    <2> HIDE DEF c
    <2> QED
      BY <2>1, <2>2 DEF AccRow
  <1>4. \A p \in Passwords, b \in BOOLEAN : [r EXCEPT !.pw = p, !.must = b] \in AccRow
    BY DEF AccRow
  <1>5. ASSUME NEW i \in Begun, NEW n \in Int
        PROVE  /\ [r EXCEPT !.totp = i, !.step = n, !.codes = {<<i, k>> : k \in RecoveryKeys}] \in AccRow
               /\ [r EXCEPT !.codes = {<<i, k>> : k \in RecoveryKeys}] \in AccRow
    <2> DEFINE c == {<<i, k>> : k \in RecoveryKeys}
    <2>1. c \in SUBSET (Begun \X RecoveryKeys) /\ i \in Serials
      BY RowsAre
    <2> HIDE DEF c
    <2>2. [r EXCEPT !.totp = i, !.step = n, !.codes = c] \in AccRow
      BY <2>1 DEF AccRow
    <2>3. [r EXCEPT !.codes = c] \in AccRow
      BY <2>1 DEF AccRow
    <2> QED
      BY <2>2, <2>3 DEF c
  <1>6. ASSUME NEW c, c.kind = "totp" => c.of \in Int PROVE Using(r, c) \in AccRow
    <2>1. CASE c.kind = "totp"
      BY <1>6, <2>1 DEF Using, AccRow
    <2>2. CASE c.kind # "totp"
      BY <2>2 DEF Using, AccRow
    <2> QED
      BY <2>1, <2>2
  <1>7. \A i \in Begun : [r EXCEPT !.codes = {<<i, k>> : k \in RecoveryKeys}] \in AccRow
    <2>1. \A i \in Begun, n \in Int : [r EXCEPT !.codes = {<<i, k>> : k \in RecoveryKeys}] \in AccRow
      BY <1>5
    <2>2. 0 \in Int
      OBVIOUS
    <2> QED
      BY <2>1, <2>2
  <1> QED
    BY <1>1, <1>2, <1>3, <1>4, <1>5, <1>6, <1>7
LEMMA IdsOf ==
  ASSUME NEW r \in AccRow
  PROVE  /\ Ids(r) \subseteq Begun /\ (r.totp # 0 => r.totp \in Ids(r)) /\ (\A p \in r.codes : p[1] \in Ids(r))
         /\ \A i \in Ids(r) : i = r.totp \/ \E p \in r.codes : p[1] = i
  BY AccountAssumption DEF Ids, AccRow, Serials, Begun

\* a copy that differs in neither secret nor codes
LEMMA SameSecrets ==
  ASSUME NEW r \in AccRow, NEW n \in AccRow, n.totp = r.totp, n.codes = r.codes, n.step = r.step, n.pw # 0
  PROVE  Rightly(r, n, NoCode) /\ Ids(n) = Ids(r)
  BY DEF Rightly, Ids, AccRow

LEMMA PlainCopies ==
  ASSUME NEW r \in AccRow, r.pw # 0, clock \in Nat
  PROVE  /\ Rightly(r, Failed(r), NoCode) /\ Ids(Failed(r)) = Ids(r)
         /\ Rightly(r, Cleared(r), NoCode) /\ Ids(Cleared(r)) = Ids(r)
         /\ Rightly(r, r, NoCode)
         /\ \A p \in Passwords, b \in BOOLEAN :
              /\ Rightly(r, [r EXCEPT !.pw = p, !.must = b], NoCode)
              /\ Ids([r EXCEPT !.pw = p, !.must = b]) = Ids(r)
         /\ Rightly(r, NoTotp(r), NoCode) /\ Ids(NoTotp(r)) = {}
  <1>1. Rightly(r, Failed(r), NoCode) /\ Ids(Failed(r)) = Ids(r)
    <2>1. Failed(r).totp = r.totp /\ Failed(r).codes = r.codes /\ Failed(r).step = r.step /\ Failed(r).pw = r.pw
      BY DEF Failed, AccRow
    <2> QED
      BY <2>1, SameSecrets, CopiesAre
  <1>2. Rightly(r, Cleared(r), NoCode) /\ Ids(Cleared(r)) = Ids(r)
    <2>1. Cleared(r).totp = r.totp /\ Cleared(r).codes = r.codes /\ Cleared(r).step = r.step /\ Cleared(r).pw = r.pw
      BY DEF Cleared, AccRow
    <2> QED
      BY <2>1, SameSecrets, CopiesAre
  <1>3. Rightly(r, r, NoCode)
    BY SameSecrets
  <1>4. ASSUME NEW p \in Passwords, NEW b \in BOOLEAN
        PROVE  /\ Rightly(r, [r EXCEPT !.pw = p, !.must = b], NoCode)
               /\ Ids([r EXCEPT !.pw = p, !.must = b]) = Ids(r)
    <2> DEFINE n == [r EXCEPT !.pw = p, !.must = b]
    <2>1. n.totp = r.totp /\ n.codes = r.codes /\ n.step = r.step /\ n.pw # 0
      BY AccountAssumption DEF AccRow
    <2>2. n \in AccRow
      BY CopiesAre
    <2> HIDE DEF n
    <2>3. Rightly(r, n, NoCode) /\ Ids(n) = Ids(r)
      BY <2>1, <2>2, SameSecrets
    <2> QED
      BY <2>3 DEF n
  <1>5. Rightly(r, NoTotp(r), NoCode) /\ Ids(NoTotp(r)) = {}
    <2>1. NoTotp(r).totp = 0 /\ NoTotp(r).codes = {} /\ NoTotp(r).pw # 0
      BY DEF NoTotp, AccRow
    <2> QED
      BY <2>1 DEF Rightly, Ids
  <1> QED
    BY <1>1, <1>2, <1>3, <1>4, <1>5

\* what presents itself, and what an accepted code is
LEMMA AcceptedIs ==
  ASSUME NEW r \in AccRow, NEW c \in Code, Accepts(r, c), clock \in Nat
  PROVE  /\ c # NoCode /\ c.kind \in {"totp", "recovery"} /\ c.from # 0 /\ c.from \in Ids(r) /\ ~UsedUp(c, r)
         /\ c.kind = "totp" => c.of \in Int /\ c.of > r.step /\ c.from = r.totp
         /\ c.kind = "recovery" => <<c.from, c.of>> \in r.codes
  <1>1. CASE c.kind = "totp"
    <2>1. r.totp # 0 /\ c.from = r.totp /\ c.of > r.step /\ c.of \in Int /\ r.step \in Int
      BY <1>1 DEF Accepts, AccRow
    <2>2. c # NoCode
      BY <1>1 DEF NoCode
    <2>3. ~UsedUp(c, r)
      BY <1>1, <2>1 DEF UsedUp
    <2> QED
      BY <1>1, <2>1, <2>2, <2>3, IdsOf
  <1>2. CASE c.kind # "totp"
    <2>1. c.kind = "recovery" /\ <<c.from, c.of>> \in r.codes
      BY <1>2 DEF Accepts
    <2>2. c.from \in Begun /\ c.from # 0
      BY <2>1, AccountAssumption DEF AccRow, Begun
    <2>3. c.from \in Ids(r)
      BY <2>1 DEF Ids
    <2>4. c # NoCode
      BY <2>1 DEF NoCode
    <2> QED
      BY <2>1, <2>2, <2>3, <2>4 DEF UsedUp
  <1> QED
    BY <1>1, <1>2

LEMMA CodeCopies ==
  ASSUME NEW r \in AccRow, r.pw # 0, NEW c \in Code, Accepts(r, c), clock \in Nat
  PROVE  /\ Cleared(Using(r, c)) \in AccRow /\ Rightly(r, Cleared(Using(r, c)), c)
         /\ Ids(Cleared(Using(r, c))) \subseteq Ids(r)
         /\ Rightly(r, NoTotp(r), c)
         /\ \A i \in Begun \ Ids(r) : LET n == [Using(r, c) EXCEPT !.codes = {<<i, k>> : k \in RecoveryKeys}] IN
              n \in AccRow /\ Rightly(r, n, c) /\ Ids(n) \subseteq Ids(r) \cup {i}
  <1> DEFINE u == Using(r, c)
  <1>0. /\ c # NoCode /\ c.kind \in {"totp", "recovery"} /\ c.from # 0 /\ c.from \in Ids(r) /\ ~UsedUp(c, r)
        /\ c.kind = "totp" => c.of \in Int /\ c.of > r.step /\ c.from = r.totp
        /\ c.kind = "recovery" => <<c.from, c.of>> \in r.codes
    BY AcceptedIs
  <1>1. u \in AccRow
    BY <1>0, CopiesAre
  <1>2. /\ u.pw = r.pw /\ u.totp = r.totp /\ u.codes \subseteq r.codes /\ u.step >= r.step
        /\ c.kind = "totp" => u.step = c.of
        /\ c.kind = "recovery" => <<c.from, c.of>> \notin u.codes
    BY <1>0 DEF Using, AccRow
  <1> HIDE DEF u
  <1>3. Cleared(u) \in AccRow /\ Rightly(r, Cleared(u), c) /\ Ids(Cleared(u)) \subseteq Ids(r)
    <2> DEFINE n == Cleared(u)
    <2>1. n \in AccRow
      BY <1>1, CopiesAre
    <2>2. n.pw = u.pw /\ n.totp = u.totp /\ n.codes = u.codes /\ n.step = u.step
      BY <1>1 DEF Cleared, AccRow
    <2> HIDE DEF n
    <2>3. UsedUp(c, n)
      BY <1>0, <1>1, <1>2, <2>2 DEF UsedUp, AccRow
    <2>4. Ids(n) \subseteq Ids(r)
      BY <1>2, <2>2 DEF Ids
    <2>5. Rightly(r, n, c)
      BY <1>0, <1>2, <2>2, <2>3 DEF Rightly
    <2> QED
      BY <2>1, <2>4, <2>5 DEF n
  <1>4. Rightly(r, NoTotp(r), c)
    <2>1. NoTotp(r).totp = 0 /\ NoTotp(r).codes = {} /\ NoTotp(r).pw # 0
      BY DEF NoTotp, AccRow
    <2> QED
      BY <1>0, <2>1 DEF Rightly, UsedUp
  <1>5. ASSUME NEW i \in Begun \ Ids(r)
        PROVE  LET n == [u EXCEPT !.codes = {<<i, k>> : k \in RecoveryKeys}] IN
               n \in AccRow /\ Rightly(r, n, c) /\ Ids(n) \subseteq Ids(r) \cup {i}
    <2> DEFINE n == [u EXCEPT !.codes = {<<i, k>> : k \in RecoveryKeys}]
    <2>1. n \in AccRow
      BY <1>1, CopiesAre
    <2>2. n.pw = u.pw /\ n.totp = u.totp /\ n.codes = {<<i, k>> : k \in RecoveryKeys} /\ n.step = u.step
      BY <1>1 DEF AccRow
    <2> HIDE DEF n
    <2>3. \A p \in n.codes : p[1] = i
      BY <2>2
    <2>4. UsedUp(c, n)
      <3>1. c.kind = "recovery" => <<c.from, c.of>> \notin n.codes
        BY <1>0, <2>2
      <3> QED
        BY <1>0, <1>1, <1>2, <2>2, <3>1 DEF UsedUp, AccRow
    <2>5. Ids(n) \subseteq Ids(r) \cup {i}
      BY <1>2, <2>2, <2>3 DEF Ids
    <2>6. \A p \in n.codes : p[1] \in Ids(n) \ Ids(r)
      BY <2>1, <2>3, IdsOf
    <2>7. Rightly(r, n, c)
      BY <1>0, <1>2, <2>2, <2>4, <2>6 DEF Rightly
    <2> QED
      BY <2>1, <2>5, <2>7 DEF n
  <1> QED
    BY <1>3, <1>4, <1>5 DEF u

LEMMA EnrolledCopy ==
  ASSUME NEW r \in AccRow, r.pw # 0, NEW i \in Begun \ Ids(r), NEW m \in Int, clock \in Nat
  PROVE  LET n == [r EXCEPT !.totp = i, !.step = m, !.codes = {<<i, k>> : k \in RecoveryKeys}]
             c == [kind |-> "totp", from |-> i, of |-> m]
         IN  n \in AccRow /\ c \in Code /\ c # NoCode /\ Rightly(r, n, c) /\ Ids(n) = {i}
  <1> DEFINE n == [r EXCEPT !.totp = i, !.step = m, !.codes = {<<i, k>> : k \in RecoveryKeys}]
             c == [kind |-> "totp", from |-> i, of |-> m]
  <1>1. n \in AccRow
    BY CopiesAre
  <1>2. n.pw = r.pw /\ n.totp = i /\ n.codes = {<<i, k>> : k \in RecoveryKeys} /\ n.step = m /\ i # 0
    BY AccountAssumption DEF AccRow, Begun
  <1> HIDE DEF n
  <1>3. Ids(n) = {i} /\ \A p \in n.codes : p[1] = i
    BY <1>2 DEF Ids
  <1>4. c \in Code /\ c # NoCode /\ UsedUp(c, n)
    <2>1. c \in Code
      BY RowsAre DEF Code
    <2>2. c # NoCode
      BY DEF NoCode
    <2>3. UsedUp(c, n)
      BY <1>2 DEF UsedUp
    <2> QED
      BY <2>1, <2>2, <2>3
  <1>5. Rightly(r, n, c)
    BY <1>2, <1>3, <1>4 DEF Rightly
  <1> QED
    BY <1>1, <1>3, <1>4, <1>5 DEF n
(* What the actions do, in the terms of the invariant.                     *)

Becomes(t, j) == j \in Job /\ Placed(j) /\ job' = [job EXCEPT ![t] = j]
AllIds(j) == Ids(j.old) \cup Ids(j.new) \cup ({j.code.from} \ {0})
Issuing == issued' \in {issued, issued + 1}
RowsRest == UNCHANGED <<row, intended, spent, reused, lost>>

\* a handler has read a row and decided on the copy it will save
Takes(t, j) ==
  /\ Becomes(t, j) /\ Pending(j) /\ job[t].at # "drop" /\ j.user \in Users
  /\ row[j.user] # Absent /\ j.old = row[j.user] /\ Rightly(j.old, j.new, j.code)
  /\ NewIds(j) \subseteq {issued'} \ {issued}
  /\ Issuing /\ RowsRest

\* a handler goes on, or ends, with what it already held
Carries(t, j) ==
  /\ Becomes(t, j) /\ job[t].at # "drop" /\ j.at # "drop"
  /\ \/ AllIds(j) = {}
     \/ j.user = job[t].user /\ j.old = job[t].old /\ j.new = job[t].new /\ j.code = job[t].code
     \/ AllIds(j) \subseteq Ids(row[j.user]) /\ j.user \in Users
  /\ Pending(j) => /\ Pending(job[t]) /\ j.user = job[t].user /\ j.old = job[t].old
                   /\ j.new = job[t].new /\ j.code = job[t].code /\ j.at = "save"
  /\ Issuing /\ RowsRest

\* what it means for the rate limit
Beat(t, j) ==
  \/ {j.at, job[t].at} \cap {"read", "record"} = {} /\ UNCHANGED <<attempts, guesses>>
  \/ Allowed /\ job[t].at = "idle" /\ j.at \in {"read", "record"} /\ UNCHANGED <<attempts, guesses>>
  \/ job[t].at = "read" /\ j.at # "read" /\ UNCHANGED <<attempts, guesses>>
  \/ job[t].at = "read" /\ j.at = "record" /\ Guess /\ UNCHANGED attempts
  \/ Allowed /\ job[t].at = "idle" /\ j.at = "record" /\ Guess /\ UNCHANGED attempts
  \/ job[t].at = "record" /\ j.at \notin {"read", "record"} /\ Record /\ UNCHANGED guesses

LEMMA AccountTypesOf ==
  ASSUME AccountInv, NEW t \in Threads
  PROVE  /\ AccountTypes /\ AccountBooks /\ job[t] \in Job /\ Placed(job[t]) /\ clock \in Nat /\ issued \in Begun
         /\ row \in [Users -> AccRow] /\ signed \subseteq [id : Serials, user : Users, must : BOOLEAN]
         /\ \A u \in Users : Ids(row[u]) \subseteq 1..issued
         /\ \A u \in Users : row[u] # Absent => row[u].pw # 0
         /\ issued \in Nat
  <1>1. AccountTypes /\ AccountBooks /\ job[t] \in Job /\ Placed(job[t])
    BY DEF AccountInv, AccountTypes
  <1>2. clock \in Nat /\ issued \in Nat
    BY <1>1, LimiterAssumption, AccountAssumption DEF AccountBooks, Begun
  <1> QED
    BY <1>1, <1>2 DEF AccountBooks, AccountInv, Numbered, Whole

LEMMA QuietIs ==
  /\ Quiet.at = "idle" /\ Quiet.old = Absent /\ Quiet.new = Absent /\ Quiet.code = NoCode
  /\ AllIds(Quiet) = {} /\ ~Pending(Quiet) /\ Ids(Absent) = {} /\ NoCode.from = 0
  <1>1. Quiet.at = "idle" /\ Quiet.old = Absent /\ Quiet.new = Absent /\ Quiet.code = NoCode /\ NoCode.from = 0
    BY DEF Quiet, NoCode
  <1>2. Ids(Absent) = {}
    BY DEF Ids, Absent
  <1> QED
    BY <1>1, <1>2 DEF AllIds, Pending

\* a job made from Quiet
Made(a, u, old, new, c, th, b) ==
  [Quiet EXCEPT !.at = a, !.user = u, !.old = old, !.new = new, !.code = c, !.then = th, !.by = b]

LEMMA MadeJob ==
  ASSUME NEW a \in {"save", "record"}, NEW u \in Users, NEW old \in AccRow, NEW new \in AccRow,
         NEW c \in Code, NEW th \in {"end", "save", "open", "unforce"}, NEW b \in Serials,
         a = "save" => th # "save", a = "record" => th \in {"end", "save"},
         NEW j, j = Made(a, u, old, new, c, th, b)
  PROVE  /\ j \in Job /\ Placed(j) /\ j.at = a /\ j.user = u /\ j.old = old /\ j.new = new
         /\ j.code = c /\ j.then = th
  <1>1. j \in Job
    BY RowsAre DEF Job, JobLabels, Made
  <1>2. j.at = a /\ j.user = u /\ j.old = old /\ j.new = new /\ j.code = c /\ j.then = th
    BY DEF Quiet, Made
  <1> QED
    BY <1>1, <1>2 DEF Placed

\* the operations of a signed-in user on a row: Modify
LEMMA ModifyTakes ==
  ASSUME AccountInv, NEW t \in Threads, NEW x \in signed, NEW u \in Users, NEW new \in AccRow, NEW c \in Code,
         NEW th \in {"end", "unforce"}, Modify(t, x, u, new, c, th), Only,
         row[u] # Absent => Rightly(row[u], new, c), Ids(new) \ Ids(row[u]) \subseteq {issued'} \ {issued},
         issued' \in Begun, Issuing
  PROVE  \E j \in Job : Takes(t, j) /\ Beat(t, j) /\ AccountBooks' /\ clock' = clock
  <1> DEFINE j == [Quiet EXCEPT !.at = "save", !.user = u, !.old = row[u], !.new = new, !.code = c,
                             !.then = th, !.by = x.id]
  <1>0. /\ AccountTypes /\ AccountBooks /\ row[u] \in AccRow /\ x.id \in Serials
    BY AccountTypesOf
  <1>1. /\ row[u] # Absent /\ job[t] = Quiet /\ job' = [job EXCEPT ![t] = j]
        /\ handled < MaxHandled /\ handled' = handled + 1
    BY DEF Modify, Handle
  <1>2. UNCHANGED <<clock, attempts, row, signed, tokens, intended, spent, reused, lost, guesses>>
    BY DEF Only, Ghosts
  <1>a. /\ j = Made("save", u, row[u], new, c, th, x.id)
        /\ "save" \in {"save", "record"} /\ "save" # "record"
        /\ th \in {"end", "save", "open", "unforce"} /\ th # "save"
    BY DEF Made
  <1> HIDE DEF j
  <1>3. /\ j \in Job /\ Placed(j) /\ j.at = "save" /\ j.user = u /\ j.old = row[u] /\ j.new = new
        /\ j.code = c
    BY <1>0, <1>a, MadeJob
  <1>4. Takes(t, j)
    BY <1>1, <1>2, <1>3, QuietIs DEF Takes, Becomes, Pending, NewIds, RowsRest
  <1>5. Beat(t, j)
    BY <1>1, <1>2, <1>3, QuietIs DEF Beat
  <1>6. handled' \in 0..MaxHandled
    BY <1>0, <1>1, AccountAssumption DEF AccountBooks
  <1>7. AccountBooks'
    BY <1>0, <1>2, <1>6 DEF AccountBooks
  <1> QED
    BY <1>2, <1>3, <1>4, <1>5, <1>7
LEMMA PresentedIs == AccountInv => Presented \subseteq Code
  <1> SUFFICES ASSUME AccountInv, NEW c \in Presented PROVE c \in Code
    OBVIOUS
  <1>1. clock \in Int /\ 1..issued \subseteq Serials /\ 0 \in Serials
    BY AccountAssumption, LimiterAssumption DEF AccountInv, AccountTypes, AccountBooks, Begun, Serials
  <1>2. CASE c = Wrong
    BY <1>1, <1>2 DEF Wrong, Code
  <1>3. CASE c \in [kind : {"totp"}, from : 1..issued, of : (clock - 1)..(clock + 1)]
    BY <1>1, <1>3 DEF Code
  <1>4. CASE c \in [kind : {"recovery"}, from : 1..issued, of : RecoveryKeys]
    BY <1>1, <1>4 DEF Code
  <1> QED
    BY <1>2, <1>3, <1>4 DEF Presented

LEMMA UserOperationsTake ==
  ASSUME AccountInv, NEW t \in Threads, NEW x \in signed,
         \/ \E u \in Users, p \in Passwords, force \in BOOLEAN : ChangePassword(t, x, u, p, force)
         \/ \E n \in (clock - 1)..(clock + 1) : Enroll(t, x, [kind |-> "totp", from |-> issued + 1, of |-> n])
         \/ \E p \in Passwords, c \in Presented : Disable(t, x, p, c) \/ RegenerateCodes(t, x, p, c)
         \/ \E u \in Users : AdminReset(t, x, u)
         \/ SaveOtherFields(t, x)
  PROVE  \E j \in Job : Takes(t, j) /\ Beat(t, j) /\ AccountBooks' /\ clock' = clock
  <1>0. /\ clock \in Nat /\ issued \in Begun /\ issued \in Nat /\ x.user \in Users
        /\ \A u \in Users : /\ row[u] \in AccRow /\ (row[u] # Absent => row[u].pw # 0)
                            /\ Ids(row[u]) \subseteq 1..issued /\ issued + 1 \notin Ids(row[u])
    BY AccountTypesOf
  <1>a. issued <= MaxIssued => issued + 1 \in Begun
    BY <1>0, AccountAssumption DEF Begun
  <1>b. "end" \in {"end", "unforce"} /\ "unforce" \in {"end", "unforce"} /\ NoCode \in Code
    BY RowsAre
  <1>1. ASSUME NEW u \in Users, NEW p \in Passwords, NEW force \in BOOLEAN, ChangePassword(t, x, u, p, force)
        PROVE  \E j \in Job : Takes(t, j) /\ Beat(t, j) /\ AccountBooks' /\ clock' = clock
    <2> DEFINE b == x.user \in Admins /\ x.user # u /\ force
               new == [row[u] EXCEPT !.pw = p, !.must = b]
               th == IF x.user = u THEN "unforce" ELSE "end"
    <2>1. Modify(t, x, u, new, NoCode, th) /\ Only /\ UNCHANGED issued
      BY <1>1 DEF ChangePassword
    <2>2. b \in BOOLEAN /\ th \in {"end", "unforce"}
      OBVIOUS
    <2> HIDE DEF b, th
    <2>3. new \in AccRow
      BY <1>0, <2>2, CopiesAre
    <2>5. row[u] # Absent
      BY <2>1 DEF Modify
    <2>4. Rightly(row[u], new, NoCode) /\ Ids(new) = Ids(row[u])
      <3>1. row[u] \in AccRow /\ row[u].pw # 0
        BY <1>0, <2>5
      <3>2. \A q \in Passwords, d \in BOOLEAN :
              /\ Rightly(row[u], [row[u] EXCEPT !.pw = q, !.must = d], NoCode)
              /\ Ids([row[u] EXCEPT !.pw = q, !.must = d]) = Ids(row[u])
        BY <1>0, <3>1, PlainCopies
      <3> QED
        BY <2>2, <3>2
    <2> HIDE DEF new
    <2> QED
      BY <1>0, <1>b, <2>1, <2>2, <2>3, <2>4, <2>5, ModifyTakes DEF Issuing
  <1>2. ASSUME NEW n \in (clock - 1)..(clock + 1), Enroll(t, x, [kind |-> "totp", from |-> issued + 1, of |-> n])
        PROVE  \E j \in Job : Takes(t, j) /\ Beat(t, j) /\ AccountBooks' /\ clock' = clock
    <2> DEFINE r == row[x.user]
               i == issued + 1
               c == [kind |-> "totp", from |-> i, of |-> n]
               new == [r EXCEPT !.totp = i, !.step = n, !.codes = {<<i, k>> : k \in RecoveryKeys}]
    <2>0. c.of = n
      OBVIOUS
    <2>1. /\ Modify(t, x, x.user, [r EXCEPT !.totp = i, !.step = c.of, !.codes = {<<i, k>> : k \in RecoveryKeys}], c, "end")
          /\ Only /\ issued' = i /\ issued <= MaxIssued
      BY <1>2 DEF Enroll
    <2>2. Modify(t, x, x.user, new, c, "end")
      BY <2>0, <2>1
    <2>3. r # Absent
      BY <2>1 DEF Modify
    <2>4. i \in Begun \ Ids(r) /\ n \in Int /\ r \in AccRow /\ r.pw # 0
      BY <1>0, <1>a, <2>1, <2>3
    <2>5. new \in AccRow /\ c \in Code /\ Rightly(r, new, c) /\ Ids(new) = {i}
      BY <1>0, <2>4, EnrolledCopy
    <2>6. i # issued
      BY <1>0
    <2> HIDE DEF new, c, i
    <2> QED
      BY <1>0, <1>b, <2>1, <2>2, <2>4, <2>5, <2>6, ModifyTakes DEF Issuing, i
  <1>3. ASSUME NEW p \in Passwords, NEW c \in Presented, Disable(t, x, p, c)
        PROVE  \E j \in Job : Takes(t, j) /\ Beat(t, j) /\ AccountBooks' /\ clock' = clock
    <2> DEFINE r == row[x.user]
    <2>1. Modify(t, x, x.user, NoTotp(r), c, "end") /\ Only /\ UNCHANGED issued /\ Accepts(r, c)
      BY <1>3 DEF Disable
    <2>2. r # Absent
      BY <2>1 DEF Modify
    <2>3. c \in Code /\ NoTotp(r) \in AccRow
      BY <1>0, PresentedIs, CopiesAre
    <2>4. Rightly(r, NoTotp(r), c) /\ Ids(NoTotp(r)) = {}
      BY <1>0, <2>1, <2>2, <2>3, CodeCopies, PlainCopies
    <2> QED
      BY <1>0, <1>b, <2>1, <2>3, <2>4, ModifyTakes DEF Issuing
  <1>4. ASSUME NEW p \in Passwords, NEW c \in Presented, RegenerateCodes(t, x, p, c)
        PROVE  \E j \in Job : Takes(t, j) /\ Beat(t, j) /\ AccountBooks' /\ clock' = clock
    <2> DEFINE r == row[x.user]
               i == issued + 1
               new == [Using(r, c) EXCEPT !.codes = {<<i, k>> : k \in RecoveryKeys}]
    <2>1. /\ Modify(t, x, x.user, new, c, "end") /\ Only /\ issued' = i /\ issued <= MaxIssued
          /\ Accepts(r, c)
      BY <1>4 DEF RegenerateCodes
    <2>2. r # Absent
      BY <2>1 DEF Modify
    <2>3. c \in Code /\ i \in Begun \ Ids(r) /\ r \in AccRow /\ r.pw # 0 /\ i # issued
      BY <1>0, <1>a, <2>1, <2>2, PresentedIs
    <2>4. new \in AccRow /\ Rightly(r, new, c) /\ Ids(new) \subseteq Ids(r) \cup {i}
      BY <1>0, <2>1, <2>3, CodeCopies
    <2> HIDE DEF new, i
    <2> QED
      BY <1>0, <1>b, <2>1, <2>3, <2>4, ModifyTakes DEF Issuing, i
  <1>5. ASSUME NEW u \in Users, AdminReset(t, x, u)
        PROVE  \E j \in Job : Takes(t, j) /\ Beat(t, j) /\ AccountBooks' /\ clock' = clock
    <2>1. Modify(t, x, u, NoTotp(row[u]), NoCode, "end") /\ Only /\ UNCHANGED issued
      BY <1>5 DEF AdminReset
    <2>2. row[u] # Absent
      BY <2>1 DEF Modify
    <2>3. NoTotp(row[u]) \in AccRow /\ Rightly(row[u], NoTotp(row[u]), NoCode) /\ Ids(NoTotp(row[u])) = {}
      BY <1>0, <2>2, CopiesAre, PlainCopies
    <2> QED
      BY <1>0, <1>b, <2>1, <2>3, ModifyTakes DEF Issuing
  <1>6. CASE SaveOtherFields(t, x)
    <2>1. Modify(t, x, x.user, row[x.user], NoCode, "end") /\ Only /\ UNCHANGED issued
      BY <1>6 DEF SaveOtherFields
    <2>2. row[x.user] # Absent
      BY <2>1 DEF Modify
    <2>3. Rightly(row[x.user], row[x.user], NoCode)
      BY <1>0, <2>2, PlainCopies
    <2> QED
      BY <1>0, <1>b, <2>1, <2>3, ModifyTakes DEF Issuing
  <1> QED
    BY <1>1, <1>2, <1>3, <1>4, <1>5, <1>6
Effect(t) == \E j \in Job : (Takes(t, j) \/ Carries(t, j)) /\ Beat(t, j) /\ AccountBooks' /\ clock' = clock

\* a job that goes on, or ends
LEMMA JobGoesOn ==
  ASSUME NEW j \in Job, j.user \in Users, NEW a \in JobLabels \ {"idle", "read"},
         NEW th \in {"end", "save", "admit", "open", "unforce"},
         a = "save" => th # "save", a = "record" => th \in {"end", "save"},
         NEW k, k = [j EXCEPT !.at = a, !.then = th]
  PROVE  /\ k \in Job /\ Placed(k) /\ k.at = a /\ k.then = th /\ k.user = j.user /\ k.old = j.old
         /\ k.new = j.new /\ k.code = j.code
  <1>1. k \in Job
    BY DEF Job
  <1>2. /\ k.at = a /\ k.then = th /\ k.user = j.user /\ k.old = j.old /\ k.new = j.new /\ k.code = j.code
    BY DEF Job
  <1> QED
    BY <1>1, <1>2 DEF Placed

LEMMA LoginEffects ==
  ASSUME AccountInv, NEW t \in Threads,
         \/ \E u \in Users, p \in Passwords, remote \in BOOLEAN : LoginCheck(t, u, p, remote)
         \/ LoginRead(t)
  PROVE  Effect(t)
  <1> DEFINE j == job[t]
  <1>0. /\ AccountTypes /\ AccountBooks /\ j \in Job /\ Placed(j) /\ clock \in Nat /\ issued \in Begun
        /\ \A u \in Users : /\ row[u] \in AccRow /\ (row[u] # Absent => row[u].pw # 0)
    BY AccountTypesOf
  <1>1. ASSUME NEW u \in Users, NEW p \in Passwords, NEW remote \in BOOLEAN, LoginCheck(t, u, p, remote)
        PROVE  Effect(t)
    <2> DEFINE n == [Absent EXCEPT !.pw = p]
               k == [Quiet EXCEPT !.at = "read", !.user = u, !.new = n, !.remote = remote]
    <2>1. /\ Allowed /\ j = Quiet /\ handled < MaxHandled /\ handled' = handled + 1
          /\ job' = [job EXCEPT ![t] = k]
          /\ UNCHANGED <<clock, attempts, row, signed, tokens, issued, intended, spent, reused, lost, guesses>>
      BY <1>1 DEF LoginCheck, Handle, Ghosts
    <2>2. n \in AccRow /\ Ids(n) = {}
      <3>1. n.totp = 0 /\ n.codes = {}
        BY DEF Absent
      <3>2. n \in AccRow
        BY RowsAre DEF AccRow
      <3> QED
        BY <3>1, <3>2 DEF Ids
    <2> HIDE DEF n
    <2>3. k \in Job
      BY <2>2, RowsAre DEF Job, JobLabels
    <2>4. k.at = "read" /\ k.user = u /\ k.old = Absent /\ k.new = n /\ k.code = NoCode
      BY DEF Quiet
    <2> HIDE DEF k
    <2>5. Placed(k) /\ AllIds(k) = {} /\ ~Pending(k)
      BY <2>2, <2>4, QuietIs DEF Placed, AllIds, Pending
    <2>6. Carries(t, k)
      BY <2>1, <2>3, <2>4, <2>5, QuietIs DEF Carries, Becomes, Issuing, RowsRest
    <2>7. Beat(t, k)
      BY <2>1, <2>4, QuietIs DEF Beat
    <2>8. handled' \in 0..MaxHandled
      BY <1>0, <2>1, AccountAssumption DEF AccountBooks
    <2>9. AccountBooks'
      BY <1>0, <2>1, <2>8 DEF AccountBooks
    <2> QED
      BY <2>1, <2>3, <2>6, <2>7, <2>9 DEF Effect
  <1>2. CASE LoginRead(t)
    <2> DEFINE r == row[j.user]
               turned == [j EXCEPT !.at = "record", !.then = "end"]
               again == [turned EXCEPT !.then = "save", !.old = r, !.new = Failed(r)]
               right == [j EXCEPT !.at = "save", !.then = "admit", !.old = r, !.new = Cleared(r)]
    <2>1. j.at = "read" /\ UNCHANGED <<clock, attempts, row, signed, tokens, issued, handled, intended, spent, reused, lost>>
      BY <1>2 DEF LoginRead, Ghosts
    <2>2. j.user \in Users /\ r \in AccRow /\ (r # Absent => r.pw # 0)
      BY <1>0, <2>1 DEF Placed
    <2>3. AccountBooks'
      BY <1>0, <2>1 DEF AccountBooks
    <2>4. CASE job' = [job EXCEPT ![t] = turned] /\ UNCHANGED guesses
      <3>1. turned \in Job
        BY <1>0 DEF Job, JobLabels
      <3>2. /\ turned.at = "record" /\ turned.then = "end" /\ turned.user = j.user /\ turned.old = j.old
            /\ turned.new = j.new /\ turned.code = j.code
        BY <1>0 DEF Job
      <3> HIDE DEF turned
      <3>3. Carries(t, turned)
        BY <2>1, <2>2, <2>4, <3>1, <3>2 DEF Carries, Becomes, Placed, Pending, Issuing, RowsRest
      <3>4. Beat(t, turned)
        BY <2>1, <2>4, <3>2 DEF Beat
      <3> QED
        BY <2>1, <2>3, <3>1, <3>3, <3>4 DEF Effect
    <2>5. CASE r # Absent /\ job' = [job EXCEPT ![t] = again] /\ Guess
      <3>1. Failed(r) \in AccRow /\ Rightly(r, Failed(r), NoCode) /\ Ids(Failed(r)) = Ids(r)
        BY <1>0, <2>2, <2>5, CopiesAre, PlainCopies
      <3>2. again \in Job
        BY <1>0, <2>2, <3>1 DEF Job, JobLabels
      <3>3. /\ again.at = "record" /\ again.then = "save" /\ again.user = j.user /\ again.old = r
            /\ again.new = Failed(r) /\ again.code = j.code
        BY <1>0 DEF Job
      <3> HIDE DEF again
      <3>4. j.code = NoCode
        BY <1>0, <2>1 DEF Placed
      <3>5. Takes(t, again)
        BY <2>1, <2>2, <2>5, <3>1, <3>2, <3>3, <3>4 DEF Takes, Becomes, Placed, Pending, NewIds, Issuing, RowsRest
      <3>6. Beat(t, again)
        BY <2>1, <2>5, <3>3 DEF Beat
      <3> QED
        BY <2>1, <2>3, <3>2, <3>5, <3>6 DEF Effect
    <2>6. CASE r # Absent /\ job' = [job EXCEPT ![t] = right] /\ UNCHANGED guesses
      <3>1. Cleared(r) \in AccRow /\ Rightly(r, Cleared(r), NoCode) /\ Ids(Cleared(r)) = Ids(r)
        BY <1>0, <2>2, <2>6, CopiesAre, PlainCopies
      <3>2. right \in Job
        BY <1>0, <2>2, <3>1 DEF Job, JobLabels
      <3>3. /\ right.at = "save" /\ right.then = "admit" /\ right.user = j.user /\ right.old = r
            /\ right.new = Cleared(r) /\ right.code = j.code
        BY <1>0 DEF Job
      <3> HIDE DEF right
      <3>4. j.code = NoCode
        BY <1>0, <2>1 DEF Placed
      <3>5. Takes(t, right)
        BY <2>1, <2>2, <2>6, <3>1, <3>2, <3>3, <3>4 DEF Takes, Becomes, Placed, Pending, NewIds, Issuing, RowsRest
      <3>6. Beat(t, right)
        BY <2>1, <2>6, <3>3 DEF Beat
      <3> QED
        BY <2>1, <2>3, <3>2, <3>5, <3>6 DEF Effect
    <2> QED
      BY <1>2, <2>4, <2>5, <2>6 DEF LoginRead
  <1> QED
    BY <1>1, <1>2
\* the rest of signing in, whatever it does to the sessions and the tokens
LEMMA GoingOnEffect ==
  ASSUME AccountInv, NEW t \in Threads, job[t].at \notin {"idle", "drop"}, NEW k \in Job, Placed(k),
         job' = [job EXCEPT ![t] = k], k.at # "drop",
         k = Quiet \/ (k.user = job[t].user /\ k.old = job[t].old /\ k.new = job[t].new /\ k.code = job[t].code),
         Pending(k) => Pending(job[t]) /\ k.at = "save",
         AccountBooks', UNCHANGED <<clock, row, intended, spent, reused, lost>>, Issuing, Beat(t, k)
  PROVE  Effect(t)
  <1>1. Carries(t, k)
    BY QuietIs DEF Carries, Becomes, RowsRest
  <1> QED
    BY <1>1 DEF Effect

LEMMA SigningInEffects ==
  ASSUME AccountInv, NEW t \in Threads, RecordAttempt(t) \/ Admit(t) \/ OpenSession(t)
  PROVE  Effect(t)
  <1> DEFINE j == job[t]
  <1>0. /\ AccountBooks /\ j \in Job /\ Placed(j) /\ clock \in Nat /\ issued \in Begun /\ issued \in Nat
        /\ Quiet \in Job /\ Placed(Quiet) /\ j.new.must \in BOOLEAN
        /\ Quiet.at = "idle" /\ ~Pending(Quiet)
    <2>1. j.new.must \in BOOLEAN
      BY AccountTypesOf DEF Job, AccRow
    <2> QED
      BY <2>1, AccountTypesOf, RowsAre, QuietIs
  <1>a. j.user \in Users
    BY <1>0 DEF Placed, RecordAttempt, Admit, OpenSession
  <1>1. CASE RecordAttempt(t)
    <2> DEFINE k == [j EXCEPT !.at = "save", !.then = "end"]
    <2>1. /\ j.at = "record" /\ Record /\ job' = [job EXCEPT ![t] = IF j.then = "end" THEN Quiet ELSE k]
          /\ UNCHANGED <<clock, row, signed, tokens, issued, handled, intended, spent, reused, lost, guesses>>
      BY <1>1 DEF RecordAttempt, Ghosts
    <2>2. AccountBooks'
      BY <1>0, <2>1 DEF AccountBooks
    <2>3. CASE j.then = "end"
      BY <1>0, <2>1, <2>2, <2>3, GoingOnEffect DEF Beat, Issuing
    <2>4. CASE j.then # "end"
      <3>1. k \in Job
        BY <1>0 DEF Job, JobLabels
      <3>2. k.at = "save" /\ k.then = "end" /\ k.user = j.user /\ k.old = j.old /\ k.new = j.new /\ k.code = j.code
        BY <1>0 DEF Job
      <3>3. Pending(j)
        BY <1>0, <2>1, <2>4 DEF Pending, Placed
      <3> HIDE DEF k
      <3>4. Placed(k)
        BY <1>a, <3>2 DEF Placed
      <3>5. Beat(t, k)
        BY <2>1, <3>2 DEF Beat
      <3> QED
        BY <2>1, <2>2, <2>4, <3>1, <3>2, <3>3, <3>4, <3>5, GoingOnEffect DEF Issuing
    <2> QED
      BY <2>3, <2>4
  <1>2. CASE Admit(t)
    <2> DEFINE remote == RemotePolicy /\ j.remote
               k == [j EXCEPT !.at = "open"]
    <2>2. j.at = "admit" /\ UNCHANGED <<clock, attempts, row, signed, issued, handled, intended, spent, reused, lost, guesses>>
      BY <1>2 DEF Admit, Ghosts
    <2>3. job' = [job EXCEPT ![t] = Quiet] \/ job' = [job EXCEPT ![t] = k]
      BY <1>2 DEF Admit, Proceed
    <2>4. tokens' \subseteq [user : Users, issued : Int, remote : BOOLEAN]
      <3>1. remote \in BOOLEAN
        BY <1>0, AccountAssumption DEF Job
      <3>2. [user |-> j.user, issued |-> clock, remote |-> remote] \in [user : Users, issued : Int, remote : BOOLEAN]
        BY <1>0, <1>a, <3>1
      <3>3. tokens' = tokens \/ tokens' = tokens \cup {[user |-> j.user, issued |-> clock, remote |-> remote]}
        BY <1>2 DEF Admit
      <3> QED
        BY <1>0, <3>2, <3>3 DEF AccountBooks
    <2>5. AccountBooks'
      BY <1>0, <2>2, <2>4 DEF AccountBooks
    <2>6. CASE job' = [job EXCEPT ![t] = Quiet]
      BY <1>0, <2>2, <2>5, <2>6, GoingOnEffect DEF Beat, Issuing
    <2>7. CASE job' = [job EXCEPT ![t] = k]
      <3>1. k \in Job
        BY <1>0 DEF Job, JobLabels
      <3>2. k.at = "open" /\ k.then = j.then /\ k.user = j.user /\ k.old = j.old /\ k.new = j.new /\ k.code = j.code
        BY <1>0 DEF Job
      <3> HIDE DEF k
      <3>3. Placed(k) /\ ~Pending(k)
        BY <1>a, <3>2 DEF Placed, Pending
      <3>4. Beat(t, k)
        BY <2>2, <3>2 DEF Beat
      <3> QED
        BY <2>2, <2>5, <2>7, <3>1, <3>2, <3>3, <3>4, GoingOnEffect DEF Issuing
    <2> QED
      BY <2>3, <2>6, <2>7
  <1>3. CASE OpenSession(t)
    <2> DEFINE x == [id |-> issued, user |-> j.user, must |-> j.new.must]
    <2>1. /\ j.at = "open" /\ issued <= MaxIssued /\ issued' = issued + 1 /\ job' = [job EXCEPT ![t] = Quiet]
          /\ signed' = signed \cup {x}
          /\ UNCHANGED <<clock, attempts, row, tokens, handled, intended, spent, reused, lost, guesses>>
      BY <1>3 DEF OpenSession, Proceed, Ghosts
    <2>2. x \in [id : Serials, user : Users, must : BOOLEAN] /\ issued' \in Begun
      <3>1. issued \in Serials
        BY <1>0, RowsAre
      <3>2. issued' \in Begun
        BY <1>0, <2>1, AccountAssumption DEF Begun
      <3> QED
        BY <1>0, <1>a, <3>1, <3>2
    <2> HIDE DEF x
    <2>3. AccountBooks'
      BY <1>0, <2>1, <2>2 DEF AccountBooks
    <2> QED
      BY <1>0, <2>1, <2>3, GoingOnEffect DEF Beat, Issuing
  <1> QED
    BY <1>1, <1>2, <1>3

LEMMA VerifyEffect ==
  ASSUME AccountInv, NEW t \in Threads, NEW k \in tokens, NEW c \in Presented, Verify(t, k, c)
  PROVE  Effect(t)
  <1> DEFINE u == k.user
             r == row[u]
             q == [Quiet EXCEPT !.user = u, !.old = r, !.code = c]
             idle == [q EXCEPT !.at = "record", !.code = NoCode]
             good == [q EXCEPT !.at = "save", !.then = "open", !.new = Cleared(Using(r, c))]
             bad == [q EXCEPT !.at = "record", !.then = "save", !.new = Failed(r), !.code = NoCode]
  <1>0. /\ AccountBooks /\ clock \in Nat /\ issued \in Begun /\ u \in Users /\ r \in AccRow
        /\ (r # Absent => r.pw # 0) /\ c \in Code
        /\ NoCode \in Code /\ Absent \in AccRow /\ 0 \in Serials
    BY AccountTypesOf, PresentedIs, RowsAre DEF AccountBooks
  <1>1. /\ r # Absent /\ Allowed /\ job[t] = Quiet /\ handled < MaxHandled /\ handled' = handled + 1
        /\ UNCHANGED <<clock, attempts, row, signed, tokens, issued, intended, spent, reused, lost>>
    BY DEF Verify, Handle, Ghosts
  <1>2. AccountBooks'
    <2>1. handled' \in 0..MaxHandled
      BY <1>0, <1>1, AccountAssumption DEF AccountBooks
    <2> QED
      BY <1>0, <1>1, <2>1 DEF AccountBooks
  <1>3. CASE job' = [job EXCEPT ![t] = idle] /\ UNCHANGED guesses
    <2>2. /\ idle \in Job /\ Placed(idle) /\ idle.at = "record" /\ idle.user = u /\ idle.old = r
          /\ idle.new = Absent /\ idle.code = NoCode /\ idle.then = "end"
      <3>1. idle \in Job
        BY <1>0, RowsAre DEF Job, JobLabels
      <3>2. /\ idle.at = "record" /\ idle.user = u /\ idle.old = r /\ idle.new = Absent /\ idle.code = NoCode
            /\ idle.then = "end"
        BY DEF Quiet
      <3> HIDE DEF idle
      <3> QED
        BY <1>0, <3>1, <3>2 DEF Placed
    <2> HIDE DEF idle
    <2>3. AllIds(idle) \subseteq Ids(row[u]) /\ ~Pending(idle)
      BY <2>2, QuietIs DEF AllIds, Pending
    <2>4. Carries(t, idle)
      BY <1>0, <1>1, <1>3, <2>2, <2>3, QuietIs DEF Carries, Becomes, Issuing, RowsRest
    <2>5. Beat(t, idle)
      BY <1>1, <1>3, <2>2, QuietIs DEF Beat
    <2> QED
      BY <1>1, <1>2, <2>2, <2>4, <2>5 DEF Effect
  <1>4. CASE Accepts(r, c) /\ job' = [job EXCEPT ![t] = good] /\ UNCHANGED guesses
    <2> DEFINE n == Cleared(Using(r, c))
    <2>2. n \in AccRow /\ Rightly(r, n, c) /\ Ids(n) \subseteq Ids(r)
      BY <1>0, <1>1, <1>4, CodeCopies
    <2>3. /\ good \in Job /\ Placed(good) /\ good.at = "save" /\ good.user = u /\ good.old = r
          /\ good.new = n /\ good.code = c /\ good.then = "open"
      <3>1. good \in Job
        BY <1>0, <2>2, RowsAre DEF Job, JobLabels
      <3>2. /\ good.at = "save" /\ good.user = u /\ good.old = r /\ good.new = n /\ good.code = c
            /\ good.then = "open"
        BY DEF Quiet
      <3> HIDE DEF good
      <3> QED
        BY <1>0, <3>1, <3>2 DEF Placed
    <2> HIDE DEF good, n
    <2>4. Takes(t, good)
      BY <1>0, <1>1, <1>4, <2>2, <2>3, QuietIs DEF Takes, Becomes, Pending, NewIds, Issuing, RowsRest
    <2>5. Beat(t, good)
      BY <1>1, <1>4, <2>3, QuietIs DEF Beat
    <2> QED
      BY <1>1, <1>2, <2>3, <2>4, <2>5 DEF Effect
  <1>5. CASE job' = [job EXCEPT ![t] = bad] /\ Guess
    <2> DEFINE n == Failed(r)
    <2>2. n \in AccRow /\ Rightly(r, n, NoCode) /\ Ids(n) = Ids(r)
      BY <1>0, <1>1, CopiesAre, PlainCopies
    <2>3. /\ bad \in Job /\ Placed(bad) /\ bad.at = "record" /\ bad.user = u /\ bad.old = r
          /\ bad.new = n /\ bad.code = NoCode /\ bad.then = "save"
      <3>1. bad \in Job
        BY <1>0, <2>2, RowsAre DEF Job, JobLabels
      <3>2. /\ bad.at = "record" /\ bad.user = u /\ bad.old = r /\ bad.new = n /\ bad.code = NoCode
            /\ bad.then = "save"
        BY DEF Quiet
      <3> HIDE DEF bad
      <3> QED
        BY <1>0, <3>1, <3>2 DEF Placed
    <2> HIDE DEF bad, n
    <2>4. Takes(t, bad)
      BY <1>0, <1>1, <1>5, <2>2, <2>3, QuietIs DEF Takes, Becomes, Pending, NewIds, Issuing, RowsRest
    <2>5. Beat(t, bad)
      BY <1>1, <1>5, <2>3, QuietIs DEF Beat
    <2> QED
      BY <1>1, <1>2, <2>3, <2>4, <2>5 DEF Effect
  <1> QED
    BY <1>3, <1>4, <1>5 DEF Verify, Handle
(* The invariant is kept.                                                  *)

LEMMA JobsAfter ==
  ASSUME AccountTypes, NEW t \in Threads, NEW j, Becomes(t, j)
  PROVE  /\ job' \in [Threads -> Job] /\ (\A o \in Threads : Placed(job'[o]))
         /\ job'[t] = j /\ \A o \in Threads \ {t} : job'[o] = job[o]
  <1>1. job' \in [Threads -> Job] /\ job'[t] = j /\ \A o \in Threads \ {t} : job'[o] = job[o]
    BY DEF AccountTypes, Becomes
  <1>2. \A o \in Threads : Placed(job'[o])
    BY <1>1 DEF AccountTypes, Becomes
  <1> QED
    BY <1>1, <1>2

LEMMA NumbersOf ==
  ASSUME AccountInv
  PROVE  /\ issued \in Nat /\ (\A u \in Users : Ids(row[u]) \subseteq 1..issued)
         /\ \A o \in Threads : AllIds(job[o]) \subseteq 1..issued /\ NewIds(job[o]) \subseteq AllIds(job[o])
         /\ \A x \in spent : x.code.kind \in {"totp", "recovery"} /\ x.code.from \in 1..issued
         /\ Issuing => 1..issued \subseteq 1..issued'
  <1>1. issued \in Nat
    BY AccountAssumption DEF AccountInv, AccountTypes, AccountBooks, Begun
  <1>2. \A o \in Threads : AllIds(job[o]) \subseteq 1..issued
    BY DEF AccountInv, Numbered, AllIds
  <1>3. \A o \in Threads : NewIds(job[o]) \subseteq AllIds(job[o])
    BY DEF NewIds, AllIds
  <1>4. Issuing => 1..issued \subseteq 1..issued'
    BY <1>1 DEF Issuing
  <1> QED
    BY <1>1, <1>2, <1>3, <1>4 DEF AccountInv, Numbered

LEMMA TakesKeep ==
  ASSUME AccountInv, NEW t \in Threads, NEW j, Takes(t, j), AccountBooks'
  PROVE  AccountInv'
  <1> DEFINE u == j.user
  <1>0. /\ job' \in [Threads -> Job] /\ (\A o \in Threads : Placed(job'[o]))
        /\ job'[t] = j /\ \A o \in Threads \ {t} : job'[o] = job[o]
    BY JobsAfter DEF AccountInv, Takes
  <1>1. /\ UNCHANGED <<row, intended, spent, reused, lost>> /\ Pending(j) /\ j.at # "drop" /\ job[t].at # "drop"
        /\ u \in Users /\ row[u] # Absent /\ j.old = row[u] /\ Rightly(j.old, j.new, j.code)
        /\ NewIds(j) \subseteq {issued'} \ {issued} /\ Issuing
    BY DEF Takes, RowsRest, Pending
  <1>2. /\ issued \in Nat /\ (\A v \in Users : Ids(row[v]) \subseteq 1..issued)
        /\ \A o \in Threads : AllIds(job[o]) \subseteq 1..issued /\ NewIds(job[o]) \subseteq AllIds(job[o])
        /\ \A x \in spent : x.code.kind \in {"totp", "recovery"} /\ x.code.from \in 1..issued
        /\ 1..issued \subseteq 1..issued'
    BY <1>1, NumbersOf
  <1>3. /\ AllIds(j) \subseteq Ids(row[u]) \cup NewIds(j)
        /\ \A i \in NewIds(j) : i = issued + 1 /\ i \notin 1..issued /\ i \in 1..issued'
    <2>1. Ids(j.new) \subseteq Ids(row[u]) \cup NewIds(j)
      BY <1>1 DEF NewIds
    <2>2. j.code.from = 0 \/ j.code.from \in Ids(j.old) \cup Ids(j.new)
      BY <1>1, QuietIs DEF Rightly
    <2>3. AllIds(j) \subseteq Ids(row[u]) \cup NewIds(j)
      BY <1>1, <2>1, <2>2 DEF AllIds
    <2>4. \A i \in NewIds(j) : i = issued + 1 /\ i \notin 1..issued /\ i \in 1..issued'
      BY <1>1, <1>2 DEF Issuing
    <2> QED
      BY <2>3, <2>4
  <1> HIDE DEF u
  <1>4. AccountTypes' /\ Whole'
    BY <1>0, <1>1 DEF AccountTypes, AccountInv, Whole
  <1>5. Numbered'
    <2>1. \A o \in Threads : AllIds(job'[o]) \subseteq 1..issued'
      BY <1>0, <1>1, <1>2, <1>3 DEF u
    <2>2. \A o \in Threads : Ids(job'[o].old) \cup Ids(job'[o].new) \cup ({job'[o].code.from} \ {0}) \subseteq 1..issued'
      BY <2>1 DEF AllIds
    <2> QED
      BY <1>1, <1>2, <2>2 DEF Numbered
  <1>6. SavesRight'
    BY <1>0, <1>1 DEF SavesRight, SavesRightly, AccountInv, u
  <1>7. SpentStaySpent' /\ DroppedAreGone' /\ NothingUndone'
    BY <1>0, <1>1 DEF SpentStaySpent, DroppedAreGone, AccountInv, NothingUndone, Kept
  <1>8. AbsentAre'
    BY <1>0, <1>1 DEF AbsentAre, Untouched, AccountInv
  <1>9. CreatedAreNew'
    BY <1>0, <1>1 DEF CreatedAreNew, Creates, Untouched, AccountInv, u
  <1>10. NewIdsAreNew'
    <2> SUFFICES ASSUME NEW o \in Threads, Pending(job'[o]), job'[o].user \notin lost, NEW i \in NewIds(job'[o])
                 PROVE  /\ i \notin Ids(row[job'[o].user])
                        /\ \A p \in Threads \ {o} : job'[p].user = job'[o].user =>
                             i \notin Ids(job'[p].old) \cup Ids(job'[p].new) \cup {job'[p].code.from}
                        /\ \A x \in spent : x.user = job'[o].user => x.code.from # i
      BY <1>1 DEF NewIdsAreNew
    <2>1. CASE o = t
      <3>1. i \in NewIds(j) /\ i = issued + 1 /\ i # 0 /\ i \notin 1..issued
        BY <1>0, <1>2, <1>3, <2>1
      <3>2. \A p \in Threads \ {o} : i \notin AllIds(job'[p])
        BY <1>0, <1>2, <2>1, <3>1
      <3> QED
        BY <1>0, <1>1, <1>2, <2>1, <3>1, <3>2 DEF AllIds, u
    <2>2. CASE o # t
      <3>1. /\ job'[o] = job[o] /\ i \in 1..issued /\ i # 0 /\ i # issued + 1
        BY <1>0, <1>2, <2>2
      <3>2. /\ i \notin Ids(row[job[o].user])
            /\ \A p \in Threads \ {o} : job[p].user = job[o].user =>
                 i \notin Ids(job[p].old) \cup Ids(job[p].new) \cup {job[p].code.from}
            /\ \A x \in spent : x.user = job[o].user => x.code.from # i
        BY <1>1, <3>1 DEF AccountInv, NewIdsAreNew
      <3>3. u = job[o].user => i \notin AllIds(j)
        BY <1>3, <3>1, <3>2
      <3>4. u = job[o].user => i \notin Ids(j.old) \cup Ids(j.new) \cup {j.code.from}
        BY <3>1, <3>3 DEF AllIds
      <3> QED
        BY <1>0, <2>2, <3>1, <3>2, <3>4 DEF u
    <2> QED
      BY <2>1, <2>2
  <1> QED
    BY <1>4, <1>5, <1>6, <1>7, <1>8, <1>9, <1>10 DEF AccountInv

LEMMA CarriesKeep ==
  ASSUME AccountInv, NEW t \in Threads, NEW j, Carries(t, j), AccountBooks'
  PROVE  AccountInv'
  <1>0. /\ job' \in [Threads -> Job] /\ (\A o \in Threads : Placed(job'[o]))
        /\ job'[t] = j /\ \A o \in Threads \ {t} : job'[o] = job[o]
    BY JobsAfter DEF AccountInv, Carries
  <1>1. /\ UNCHANGED <<row, intended, spent, reused, lost>> /\ j.at # "drop" /\ job[t].at # "drop" /\ Issuing
        /\ Pending(j) => /\ Pending(job[t]) /\ j.user = job[t].user /\ j.old = job[t].old
                         /\ j.new = job[t].new /\ j.code = job[t].code /\ j.at = "save"
        /\ \/ AllIds(j) = {}
           \/ j.user = job[t].user /\ AllIds(j) = AllIds(job[t])
           \/ AllIds(j) \subseteq Ids(row[j.user]) /\ j.user \in Users
    BY DEF Carries, RowsRest, AllIds
  <1>2. /\ issued \in Nat /\ (\A v \in Users : Ids(row[v]) \subseteq 1..issued)
        /\ \A o \in Threads : AllIds(job[o]) \subseteq 1..issued /\ NewIds(job[o]) \subseteq AllIds(job[o])
        /\ \A x \in spent : x.code.kind \in {"totp", "recovery"} /\ x.code.from \in 1..issued
        /\ 1..issued \subseteq 1..issued'
    BY <1>1, NumbersOf
  <1>4. AccountTypes' /\ Whole'
    BY <1>0, <1>1 DEF AccountTypes, AccountInv, Whole
  <1>5. Numbered'
    <2>1. \A o \in Threads : AllIds(job'[o]) \subseteq 1..issued'
      BY <1>0, <1>1, <1>2
    <2>2. \A o \in Threads : Ids(job'[o].old) \cup Ids(job'[o].new) \cup ({job'[o].code.from} \ {0}) \subseteq 1..issued'
      BY <2>1 DEF AllIds
    <2> QED
      BY <1>1, <1>2, <2>2 DEF Numbered
  <1>6. SavesRight'
    <2>1. Pending(j) => SavesRightly(j)
      BY <1>1 DEF SavesRight, SavesRightly, AccountInv
    <2> QED
      BY <1>0, <1>1, <2>1 DEF SavesRight, AccountInv
  <1>7. SpentStaySpent' /\ DroppedAreGone' /\ NothingUndone'
    BY <1>0, <1>1 DEF SpentStaySpent, DroppedAreGone, AccountInv, NothingUndone, Kept
  <1>8. AbsentAre'
    BY <1>0, <1>1 DEF AbsentAre, Untouched, AccountInv
  <1>9. CreatedAreNew'
    <2> SUFFICES ASSUME NEW o \in Threads, Creates(job'[o]), job'[o].user \notin lost
                 PROVE  /\ Untouched(job'[o].user)
                        /\ \A p \in Threads \ {o} :
                             job'[p].user = job'[o].user => ~Pending(job'[p]) /\ job'[p].at # "drop"
      BY <1>1 DEF CreatedAreNew, Untouched
    <2>1. Creates(job[o]) /\ job[o].user = job'[o].user
      BY <1>0, <1>1 DEF Creates
    <2>2. /\ Untouched(job[o].user)
          /\ \A p \in Threads \ {o} : job[p].user = job[o].user => ~Pending(job[p]) /\ job[p].at # "drop"
      BY <1>1, <2>1 DEF AccountInv, CreatedAreNew
    <2> QED
      BY <1>0, <1>1, <2>1, <2>2
  <1>10. NewIdsAreNew'
    <2> SUFFICES ASSUME NEW o \in Threads, Pending(job'[o]), job'[o].user \notin lost, NEW i \in NewIds(job'[o])
                 PROVE  /\ i \notin Ids(row[job'[o].user])
                        /\ \A p \in Threads \ {o} : job'[p].user = job'[o].user =>
                             i \notin Ids(job'[p].old) \cup Ids(job'[p].new) \cup {job'[p].code.from}
                        /\ \A x \in spent : x.user = job'[o].user => x.code.from # i
      BY <1>1 DEF NewIdsAreNew
    <2>1. Pending(job[o]) /\ job[o].user = job'[o].user /\ i \in NewIds(job[o]) /\ i \in 1..issued /\ i # 0
      <3>1. Pending(job[o]) /\ job[o].user = job'[o].user /\ i \in NewIds(job[o])
        BY <1>0, <1>1 DEF NewIds
      <3> QED
        BY <1>2, <3>1
    <2>2. /\ i \notin Ids(row[job[o].user])
          /\ \A p \in Threads \ {o} : job[p].user = job[o].user =>
               i \notin Ids(job[p].old) \cup Ids(job[p].new) \cup {job[p].code.from}
          /\ \A x \in spent : x.user = job[o].user => x.code.from # i
      BY <1>1, <2>1 DEF AccountInv, NewIdsAreNew
    <2>3. ASSUME t # o, j.user = job[o].user PROVE i \notin AllIds(j)
      <3>1. j.user = job[t].user => i \notin AllIds(job[t])
        BY <2>1, <2>2, <2>3 DEF AllIds
      <3> QED
        BY <1>1, <2>2, <2>3, <3>1
    <2>4. t # o /\ j.user = job[o].user => i \notin Ids(j.old) \cup Ids(j.new) \cup {j.code.from}
      BY <2>1, <2>3 DEF AllIds
    <2> QED
      BY <1>0, <2>1, <2>2, <2>4
  <1> QED
    BY <1>4, <1>5, <1>6, <1>7, <1>8, <1>9, <1>10 DEF AccountInv

\* what a handler does once its copy is saved
LEMMA SaveEffects ==
  ASSUME AccountInv, NEW t \in Threads, Save(t)
  PROVE  \E k \in Job :
           /\ Becomes(t, k) /\ Beat(t, k) /\ k.at \notin {"drop", "read", "record", "save"}
           /\ AllIds(k) = {} \/ (k.user = job[t].user /\ AllIds(k) = AllIds(job[t]))
           /\ AccountBooks' /\ clock' = clock /\ UNCHANGED issued
  <1> DEFINE j == job[t]
             u == j.user
             th == IF j.then = "unforce" THEN "end" ELSE j.then
             k == IF th = "end" THEN Quiet ELSE [j EXCEPT !.at = th]
  <1>0. /\ AccountTypes /\ AccountBooks /\ j \in Job /\ Placed(j)
        /\ Quiet \in Job /\ Placed(Quiet) /\ Quiet.at = "idle" /\ AllIds(Quiet) = {}
    BY AccountTypesOf, RowsAre, QuietIs
  <1>1. /\ j.at = "save" /\ job' = [job EXCEPT ![t] = k]
        /\ UNCHANGED <<clock, attempts, tokens, issued, handled, guesses>>
    BY DEF Save, Proceed
  <1>2. u \in Users /\ j.then # "save"
    BY <1>0, <1>1 DEF Placed
  <1>3. /\ k \in Job /\ Placed(k) /\ k.at \notin {"drop", "read", "record", "save"}
        /\ AllIds(k) = {} \/ (k.user = u /\ AllIds(k) = AllIds(j))
    <2>1. CASE th = "end"
      BY <1>0, <2>1
    <2>2. CASE th # "end"
      <3>1. th \in {"admit", "open"} /\ k = [j EXCEPT !.at = th]
        BY <1>0, <1>2, <2>2 DEF Job
      <3> HIDE DEF th, k
      <3>2. k \in Job
        BY <1>0, <3>1 DEF Job, JobLabels
      <3>3. k.at = th /\ k.user = u /\ k.old = j.old /\ k.new = j.new /\ k.code = j.code
        BY <1>0, <3>1 DEF Job
      <3>4. Placed(k) /\ AllIds(k) = AllIds(j)
        BY <1>2, <3>1, <3>3 DEF Placed, AllIds
      <3> QED
        BY <3>1, <3>2, <3>3, <3>4
    <2> QED
      BY <2>1, <2>2
  <1> HIDE DEF k, th
  <1>4. AccountBooks'
    <2>1. j.new \in AccRow /\ j.code \in Code
      BY <1>0 DEF Job
    <2>2. row' \in [Users -> AccRow]
      BY <1>0, <2>1 DEF Save, AccountBooks
    <2>3. signed' \subseteq [id : Serials, user : Users, must : BOOLEAN]
      BY <1>0 DEF Save, AccountBooks, Unforced
    <2>4. intended' \in [Users -> [pw : Passwords \cup {0}, totp : Serials, gone : BOOLEAN]]
      <3> DEFINE a == IF j.new.pw # j.old.pw THEN j.new.pw ELSE intended[u].pw
                 b == IF j.new.totp # j.old.totp THEN j.new.totp ELSE intended[u].totp
      <3>1. a \in Passwords \cup {0} /\ b \in Serials
        BY <1>0, <1>2, <2>1 DEF AccountBooks, AccRow
      <3>2. intended' = [intended EXCEPT ![u].pw = a, ![u].totp = b]
        BY <1>0, <1>2 DEF Save, AccountBooks
      <3> HIDE DEF a, b
      <3> QED
        BY <1>0, <1>2, <3>1, <3>2 DEF AccountBooks
    <2>5. spent' \subseteq [user : Users, code : Code]
      BY <1>0, <1>2, <2>1 DEF Save, AccountBooks
    <2>6. reused' \subseteq Users /\ lost' \subseteq Users
      BY <1>0, <1>2 DEF Save, AccountBooks
    <2> QED
      BY <1>0, <1>1, <2>2, <2>3, <2>4, <2>5, <2>6 DEF AccountBooks
  <1>5. Becomes(t, k) /\ Beat(t, k)
    BY <1>1, <1>3 DEF Becomes, Beat
  <1> QED
    BY <1>1, <1>3, <1>4, <1>5

LEMMA SavedRowKeeps ==
  ASSUME AccountInv, NEW t \in Threads, Save(t)
  PROVE  AccountInv'
  <1> DEFINE j == job[t]
             u == j.user
  <1>k. PICK k \in Job :
          /\ Becomes(t, k) /\ k.at \notin {"drop", "read", "record", "save"}
          /\ AllIds(k) = {} \/ (k.user = u /\ AllIds(k) = AllIds(j))
          /\ AccountBooks' /\ UNCHANGED issued
    BY SaveEffects
  <1>0. /\ job' \in [Threads -> Job] /\ (\A o \in Threads : Placed(job'[o]))
        /\ job'[t] = k /\ \A o \in Threads \ {t} : job'[o] = job[o]
    BY <1>k, JobsAfter DEF AccountInv
  <1>1. /\ j.at = "save" /\ Pending(j) /\ u \in Users /\ j \in Job /\ SavesRightly(j)
        /\ j.old \in AccRow /\ j.new \in AccRow /\ j.code \in Code /\ ~Pending(k)
    <2>1. j.at = "save" /\ j \in Job /\ Placed(j)
      BY AccountTypesOf DEF Save
    <2>2. Pending(j) /\ u \in Users /\ ~Pending(k)
      BY <1>k, <2>1 DEF Pending, Placed
    <2> QED
      BY <2>1, <2>2 DEF AccountInv, SavesRight, Job
  <1>2. /\ issued \in Nat /\ (\A v \in Users : Ids(row[v]) \subseteq 1..issued)
        /\ \A o \in Threads : AllIds(job[o]) \subseteq 1..issued /\ NewIds(job[o]) \subseteq AllIds(job[o])
        /\ \A x \in spent : x.code.kind \in {"totp", "recovery"} /\ x.code.from \in 1..issued
    BY NumbersOf
  <1>3. /\ row \in [Users -> AccRow] /\ row'[u] = j.new /\ \A v \in Users \ {u} : row'[v] = row[v]
    BY <1>1 DEF Save, AccountInv, AccountTypes, AccountBooks
  <1>4. /\ \A v \in Users \ {u} : intended'[v] = intended[v]
        /\ intended'[u].gone = intended[u].gone
        /\ intended'[u].pw = IF j.new.pw # j.old.pw THEN j.new.pw ELSE intended[u].pw
        /\ intended'[u].totp = IF j.new.totp # j.old.totp THEN j.new.totp ELSE intended[u].totp
    BY <1>1 DEF Save, AccountInv, AccountTypes, AccountBooks
  <1>5. /\ \A v \in Users : v \notin lost' => v \notin lost
        /\ u \notin lost' => row[u] = j.old
        /\ \A x \in spent' : x \in spent \/ (j.code # NoCode /\ x.user = u /\ x.code = j.code)
        /\ spent \subseteq spent'
        /\ \A v \in Users : v \in reused' => v \in reused \/ (v = u /\ [user |-> u, code |-> j.code] \in spent)
    BY DEF Save
  <1>6. lost' \subseteq Users /\ AccountTypes' /\ \A x \in spent : x.user \in Users /\ x.code \in Code
    BY <1>0, <1>k DEF AccountTypes, AccountBooks, AccountInv
  <1>7. /\ j.new.pw # 0 /\ (j.old = Absent => j.new = NewRow(u) /\ j.code = NoCode)
        /\ j.old # Absent => Rightly(j.old, j.new, j.code)
    <2>1. NewRow(u).pw # 0
      BY DEF NewRow, Absent
    <2> QED
      BY <1>1, <2>1 DEF SavesRightly, Rightly
  <1>8. ASSUME u \notin lost', j.old = Absent
        PROVE  /\ Untouched(u) /\ j.new.totp = 0 /\ j.new.codes = {}
               /\ \A o \in Threads \ {t} : job[o].user = u => ~Pending(job[o]) /\ job[o].at # "drop"
    <2>1. /\ Untouched(u)
          /\ \A o \in Threads \ {t} : job[o].user = u => ~Pending(job[o]) /\ job[o].at # "drop"
      BY <1>1, <1>5, <1>8 DEF AccountInv, CreatedAreNew, Creates
    <2>2. u \notin Enrolled
      BY <2>1, AccountAssumption DEF Untouched
    <2> QED
      BY <1>7, <1>8, <2>1, <2>2 DEF NewRow, Absent
  <1>9. ASSUME u \notin lost' PROVE \A x \in spent : x.user = u => x.code.from \notin NewIds(j)
    BY <1>1, <1>5, <1>9 DEF AccountInv, NewIdsAreNew
  <1>10. ASSUME u \notin lost' PROVE \A x \in spent : x.user = u => UsedUp(x.code, j.old)
    <2>1. u \notin lost /\ row[u] = j.old
      BY <1>1, <1>5, <1>10
    <2> QED
      BY <2>1 DEF AccountInv, SpentStaySpent
  <1> HIDE DEF j, u
  <1>11. Whole'
    BY <1>3, <1>7 DEF Whole, AccountInv
  <1>12. Numbered'
    <2>1. Ids(j.new) \subseteq 1..issued /\ (j.code # NoCode => j.code.from \in 1..issued)
      <3>1. AllIds(j) \subseteq 1..issued
        BY <1>2 DEF j
      <3>2. j.code # NoCode => j.code.from # 0
        BY <1>7 DEF Rightly
      <3> QED
        BY <3>1, <3>2 DEF AllIds
    <2>2. \A v \in Users : Ids(row'[v]) \subseteq 1..issued
      BY <1>2, <1>3, <2>1
    <2>3. \A o \in Threads : AllIds(job'[o]) \subseteq 1..issued
      BY <1>0, <1>2, <1>k DEF j
    <2>4. \A x \in spent' : x.code.kind \in {"totp", "recovery"} /\ x.code.from \in 1..issued
      BY <1>2, <1>5, <1>7, <2>1 DEF Rightly
    <2>5. \A o \in Threads : Ids(job'[o].old) \cup Ids(job'[o].new) \cup ({job'[o].code.from} \ {0}) \subseteq 1..issued
      BY <2>3 DEF AllIds
    <2> QED
      BY <1>k, <2>2, <2>4, <2>5 DEF Numbered
  <1>13. SavesRight'
    BY <1>0, <1>1 DEF SavesRight, AccountInv
  <1>14. SpentStaySpent'
    <2> SUFFICES ASSUME NEW x \in spent', x.user \notin lost' PROVE UsedUp(x.code, row'[x.user])
      BY DEF SpentStaySpent, UsedUp
    <2>1. CASE x.user # u
      BY <1>3, <1>5, <1>6, <2>1 DEF AccountInv, SpentStaySpent
    <2>2. CASE x.user = u /\ x \in spent /\ j.old = Absent
      <3>1. x.code.from \in 1..issued /\ x.code.from # 0
        BY <1>2, <2>2
      <3> QED
        BY <1>3, <1>8, <2>2, <3>1 DEF UsedUp
    <2>3. CASE x.user = u /\ x \in spent /\ j.old # Absent
      <3> DEFINE c == x.code
      <3>1. c.from # 0 /\ c.from \notin NewIds(j) /\ UsedUp(c, j.old) /\ c \in Code
        BY <1>2, <1>6, <1>9, <1>10, <2>3
      <3>2. Rightly(j.old, j.new, j.code) /\ j.new.step \in Int /\ j.old.step \in Int
        BY <1>1, <1>7, <2>3 DEF AccRow
      <3> HIDE DEF c
      <3>3. ASSUME c.kind = "totp", c.from = j.new.totp PROVE c.of <= j.new.step
        <4>1. c.of \in Int
          BY <3>1, <3>3 DEF Code
        <4>2. j.new.totp = j.old.totp /\ j.new.step >= j.old.step
          BY <3>1, <3>2, <3>3 DEF Rightly, NewIds
        <4>3. c.of <= j.old.step
          BY <3>1, <3>3, <4>2 DEF UsedUp
        <4> QED
          BY <3>2, <4>1, <4>2, <4>3
      <3>4. ASSUME c.kind = "recovery" PROVE <<c.from, c.of>> \notin j.new.codes
        <4>1. <<c.from, c.of>>[1] = c.from
          OBVIOUS
        <4> QED
          BY <3>1, <3>2, <3>4, <4>1 DEF Rightly, NewIds, UsedUp
      <3>5. UsedUp(c, j.new)
        BY <3>3, <3>4 DEF UsedUp
      <3> QED
        BY <1>3, <2>3, <3>5 DEF c
    <2>4. CASE x \notin spent
      BY <1>3, <1>5, <1>7, <2>4 DEF Rightly
    <2> QED
      BY <2>1, <2>2, <2>3, <2>4
  <1>15. DroppedAreGone'
    <2> SUFFICES ASSUME NEW o \in Threads, job'[o].at = "drop", job'[o].user \notin lost'
                 PROVE  row'[job'[o].user] = Absent
      BY DEF DroppedAreGone
    <2>1. o # t /\ job'[o] = job[o] /\ job[o].user \in Users
      BY <1>0, <1>k, <1>6 DEF Placed
    <2>2. row[job[o].user] = Absent
      BY <1>5, <2>1 DEF AccountInv, DroppedAreGone
    <2>3. job[o].user # u
      BY <1>5, <1>8, <2>1, <2>2
    <2> QED
      BY <1>3, <2>1, <2>2, <2>3
  <1>16. AbsentAre'
    <2> SUFFICES ASSUME NEW v \in Users \ lost', row'[v] = Absent
                 PROVE  intended'[v].gone \/ Untouched(v)' \/ \E o \in Threads : job'[o].at = "drop" /\ job'[o].user = v
      BY DEF AbsentAre
    <2>1. v # u
      BY <1>3, <1>7 DEF Absent
    <2>2. row'[v] = row[v] /\ intended'[v] = intended[v] /\ v \in Users \ lost
      BY <1>3, <1>4, <1>5, <2>1
    <2>3. intended[v].gone \/ Untouched(v) \/ \E o \in Threads : job[o].at = "drop" /\ job[o].user = v
      BY <2>2 DEF AccountInv, AbsentAre
    <2>4. Untouched(v) => Untouched(v)'
      BY <2>2 DEF Untouched
    <2>5. (\E o \in Threads : job[o].at = "drop" /\ job[o].user = v) =>
             \E o \in Threads : job'[o].at = "drop" /\ job'[o].user = v
      BY <1>0, <1>1 DEF j
    <2> QED
      BY <2>2, <2>3, <2>4, <2>5
  <1>17. CreatedAreNew'
    <2> SUFFICES ASSUME NEW o \in Threads, Creates(job'[o]), job'[o].user \notin lost'
                 PROVE  /\ (Untouched(job[o].user))' /\ job'[o].user = job[o].user
                        /\ \A p \in Threads \ {o} :
                             job'[p].user = job'[o].user => ~Pending(job'[p]) /\ job'[p].at # "drop"
      BY DEF CreatedAreNew, Untouched
    <2> DEFINE v == job[o].user
    <2>1. o # t /\ job'[o] = job[o] /\ v \in Users /\ v \notin lost' /\ v \notin lost /\ Creates(job[o])
      <3>1. o # t /\ job'[o] = job[o]
        BY <1>0, <1>1 DEF Creates
      <3> QED
        BY <1>0, <1>5, <3>1 DEF Placed, Creates, Pending
    <2>2. Untouched(v) /\ \A p \in Threads \ {o} : job[p].user = v => ~Pending(job[p]) /\ job[p].at # "drop"
      BY <2>1 DEF AccountInv, CreatedAreNew
    <2>3. v # u
      BY <1>1, <2>1, <2>2 DEF j, u
    <2>4. Untouched(v)'
      BY <1>0, <1>3, <1>4, <2>1, <2>2, <2>3 DEF Untouched
    <2> QED
      BY <1>0, <1>1, <1>k, <2>1, <2>2, <2>4
  <1>18. NewIdsAreNew'
    <2> SUFFICES ASSUME NEW o \in Threads, Pending(job'[o]), job'[o].user \notin lost', NEW i \in NewIds(job'[o])
                 PROVE  /\ i \notin Ids(row'[job'[o].user])
                        /\ \A p \in Threads \ {o} : job'[p].user = job'[o].user =>
                             i \notin Ids(job'[p].old) \cup Ids(job'[p].new) \cup {job'[p].code.from}
                        /\ \A x \in spent' : x.user = job'[o].user => x.code.from # i
      BY DEF NewIdsAreNew
    <2>1. o # t /\ job'[o] = job[o] /\ job[o].user \in Users /\ job[o].user \notin lost /\ i # 0 /\ i \in NewIds(job[o])
      <3>1. o # t /\ job'[o] = job[o]
        BY <1>0, <1>1
      <3> QED
        BY <1>0, <1>2, <1>5, <3>1 DEF Placed, Pending
    <2>2. /\ i \notin Ids(row[job[o].user])
          /\ \A p \in Threads \ {o} : job[p].user = job[o].user =>
               i \notin Ids(job[p].old) \cup Ids(job[p].new) \cup {job[p].code.from}
          /\ \A x \in spent : x.user = job[o].user => x.code.from # i
      BY <2>1 DEF AccountInv, NewIdsAreNew
    <2>3. job[o].user = u => i \notin AllIds(j) /\ i \notin Ids(j.new) /\ i # j.code.from
      BY <2>1, <2>2 DEF AllIds, j, u
    <2>4. k.user = job[o].user => i \notin AllIds(k)
      BY <1>k, <2>3 DEF j, u
    <2>5. k.user = job[o].user => i \notin Ids(k.old) \cup Ids(k.new) \cup {k.code.from}
      BY <2>1, <2>4 DEF AllIds
    <2>6. \A x \in spent' : x.user = job[o].user => x.code.from # i
      BY <1>5, <2>2, <2>3
    <2>7. i \notin Ids(row'[job[o].user])
      BY <1>3, <2>1, <2>2, <2>3
    <2> QED
      BY <1>0, <2>1, <2>2, <2>5, <2>6, <2>7
  <1>19. NothingUndone'
    <2> SUFFICES ASSUME NEW v \in Users \ lost' PROVE Kept(v)'
      BY DEF NothingUndone
    <2>0. Kept(v) /\ v \notin lost
      BY <1>5 DEF AccountInv, NothingUndone
    <2>1. CASE v # u
      BY <1>3, <1>4, <1>5, <2>0, <2>1 DEF Kept
    <2>2. CASE v = u
      <3>1. row[u] = j.old /\ u \notin lost'
        BY <1>5, <2>2
      <3>2. ~intended[u].gone
        BY <1>8, <2>0, <2>2, <3>1 DEF Kept, Untouched
      <3>3. u \notin reused'
        <4>1. SUFFICES ASSUME NEW x \in spent, x.user = u, x.code = j.code PROVE FALSE
          BY <1>1, <1>5, <2>0, <2>2 DEF Kept
        <4>2. j.code # NoCode
          BY <1>2, <4>1 DEF NoCode
        <4>3. Rightly(j.old, j.new, j.code)
          BY <1>7, <4>2
        <4> QED
          BY <1>9, <1>10, <3>1, <4>1, <4>2, <4>3 DEF Rightly, NewIds
      <3>4. row'[u].pw = intended'[u].pw /\ row'[u].totp = intended'[u].totp
        <4>1. CASE j.old = Absent
          BY <1>3, <1>4, <1>7, <1>8, <3>1, <4>1 DEF Untouched, Absent
        <4>2. CASE j.old # Absent
          <5>1. j.old.pw = intended[u].pw /\ j.old.totp = intended[u].totp
            BY <2>0, <2>2, <3>1, <3>2, <4>2 DEF Kept
          <5> QED
            BY <1>3, <1>4, <5>1
        <4> QED
          BY <4>1, <4>2
      <3> QED
        BY <1>4, <2>2, <3>2, <3>3, <3>4 DEF Kept
    <2> QED
      BY <2>1, <2>2
  <1> QED
    BY <1>6, <1>11, <1>12, <1>13, <1>14, <1>15, <1>16, <1>17, <1>18, <1>19 DEF AccountInv

\* creating a user: nobody is at work on it and it has had no row so far
LEMMA CreateUserKeeps ==
  ASSUME AccountInv, NEW t \in Threads, NEW x \in signed, NEW u \in Users, CreateUser(t, x, u)
  PROVE  /\ AccountInv' /\ clock' = clock
         /\ \E j \in Job : Becomes(t, j) /\ Beat(t, j)
  <1> DEFINE j == [Quiet EXCEPT !.at = "save", !.user = u, !.new = NewRow(u)]
  <1>0. /\ AccountTypes /\ AccountBooks /\ issued \in Begun /\ NewRow(u) \in AccRow /\ Quiet \in Job
    BY AccountTypesOf, RowsAre
  <1>1. /\ job[t] = Quiet /\ job' = [job EXCEPT ![t] = j] /\ handled < MaxHandled /\ handled' = handled + 1
        /\ row[u] = Absent /\ ~intended[u].gone /\ (\A o \in Threads : job[o].user # u)
        /\ UNCHANGED <<clock, attempts, row, signed, tokens, issued, intended, spent, reused, lost, guesses>>
    BY DEF CreateUser, Handle, Only, Ghosts
  <1>2. j \in Job
    BY <1>0 DEF Job, JobLabels
  <1>3. /\ j.at = "save" /\ j.user = u /\ j.old = Absent /\ j.new = NewRow(u) /\ j.code = NoCode /\ j.then = "end"
        /\ Quiet.at = "idle"
    BY DEF Quiet
  <1> HIDE DEF j
  <1>4. Becomes(t, j) /\ Beat(t, j)
    BY <1>1, <1>2, <1>3 DEF Becomes, Placed, Beat
  <1>5. /\ job' \in [Threads -> Job] /\ (\A o \in Threads : Placed(job'[o]))
        /\ job'[t] = j /\ \A o \in Threads \ {t} : job'[o] = job[o]
    BY <1>0, <1>4, JobsAfter
  <1>6. AccountBooks'
    <2>1. handled' \in 0..MaxHandled
      BY <1>0, <1>1, AccountAssumption DEF AccountBooks
    <2> QED
      BY <1>0, <1>1, <2>1 DEF AccountBooks
  <1>7. Pending(j) /\ SavesRightly(j) /\ ~Pending(Quiet) /\ j.code.from = 0
    BY <1>3, QuietIs DEF Pending, SavesRightly
  <1>8. u \notin lost => Untouched(u) /\ NewIds(j) = {}
    <2>1. u \notin lost => Untouched(u)
      BY <1>1 DEF AccountInv, AbsentAre
    <2>2. Untouched(u) => u \notin Enrolled
      BY AccountAssumption DEF Untouched
    <2>3. u \notin Enrolled => Ids(NewRow(u)) = {}
      BY DEF Ids, NewRow, Absent
    <2> QED
      BY <1>3, <2>1, <2>2, <2>3 DEF NewIds
  <1>9. AllIds(j) \subseteq 1..issued
    <2>1. Ids(NewRow(u)) \subseteq {1}
      BY DEF Ids, NewRow, Absent
    <2>2. 1 \in 1..issued
      BY <1>0, AccountAssumption DEF Begun
    <2> QED
      BY <1>3, <1>7, <2>1, <2>2, QuietIs DEF AllIds
  <1>10. AccountTypes' /\ Whole'
    BY <1>1, <1>5, <1>6 DEF AccountTypes, AccountInv, Whole
  <1>11. Numbered'
    <2>1. \A o \in Threads : AllIds(job'[o]) \subseteq 1..issued
      BY <1>5, <1>9, NumbersOf
    <2>2. \A o \in Threads : Ids(job'[o].old) \cup Ids(job'[o].new) \cup ({job'[o].code.from} \ {0}) \subseteq 1..issued
      BY <2>1 DEF AllIds
    <2> QED
      BY <1>1, <2>2 DEF AccountInv, Numbered
  <1>12. SavesRight'
    BY <1>5, <1>7 DEF SavesRight, AccountInv
  <1>13. SpentStaySpent' /\ DroppedAreGone' /\ NothingUndone'
    BY <1>1, <1>3, <1>5 DEF SpentStaySpent, DroppedAreGone, AccountInv, NothingUndone, Kept
  <1>14. AbsentAre'
    BY <1>1, <1>3, <1>5 DEF AbsentAre, Untouched, AccountInv
  <1>15. CreatedAreNew'
    <2> SUFFICES ASSUME NEW o \in Threads, Creates(job'[o]), job'[o].user \notin lost
                 PROVE  /\ Untouched(job'[o].user)
                        /\ \A p \in Threads \ {o} :
                             job'[p].user = job'[o].user => ~Pending(job'[p]) /\ job'[p].at # "drop"
      BY <1>1 DEF CreatedAreNew, Untouched
    <2>1. CASE o = t
      BY <1>1, <1>3, <1>5, <1>8, <2>1
    <2>2. CASE o # t
      <3>1. job'[o] = job[o] /\ job[o].user # u
        BY <1>1, <1>5, <2>2
      <3>2. /\ Untouched(job[o].user)
            /\ \A p \in Threads \ {o} : job[p].user = job[o].user => ~Pending(job[p]) /\ job[p].at # "drop"
        BY <3>1 DEF AccountInv, CreatedAreNew
      <3> QED
        BY <1>3, <1>5, <3>1, <3>2
    <2> QED
      BY <2>1, <2>2
  <1>16. NewIdsAreNew'
    <2> SUFFICES ASSUME NEW o \in Threads, Pending(job'[o]), job'[o].user \notin lost, NEW i \in NewIds(job'[o])
                 PROVE  /\ i \notin Ids(row[job'[o].user])
                        /\ \A p \in Threads \ {o} : job'[p].user = job'[o].user =>
                             i \notin Ids(job'[p].old) \cup Ids(job'[p].new) \cup {job'[p].code.from}
                        /\ \A y \in spent : y.user = job'[o].user => y.code.from # i
      BY <1>1 DEF NewIdsAreNew
    <2>1. o # t /\ job'[o] = job[o] /\ job[o].user # u
      BY <1>1, <1>3, <1>5, <1>8
    <2>2. /\ i \notin Ids(row[job[o].user])
          /\ \A p \in Threads \ {o} : job[p].user = job[o].user =>
               i \notin Ids(job[p].old) \cup Ids(job[p].new) \cup {job[p].code.from}
          /\ \A y \in spent : y.user = job[o].user => y.code.from # i
      BY <2>1 DEF AccountInv, NewIdsAreNew
    <2> QED
      BY <1>3, <1>5, <2>1, <2>2
  <1> QED
    BY <1>1, <1>2, <1>4, <1>10, <1>11, <1>12, <1>13, <1>14, <1>15, <1>16 DEF AccountInv

\* deleting a user: the row goes, then the sessions
LEMMA DeleteUserKeeps ==
  ASSUME AccountInv, NEW t \in Threads, NEW x \in signed, NEW u \in Users, DeleteUser(t, x, u)
  PROVE  /\ AccountInv' /\ clock' = clock
         /\ \E j \in Job : Becomes(t, j) /\ Beat(t, j)
  <1> DEFINE j == [Quiet EXCEPT !.at = "drop", !.user = u]
  <1>0. /\ AccountTypes /\ AccountBooks /\ issued \in Begun /\ Absent \in AccRow /\ Quiet \in Job
    BY AccountTypesOf, RowsAre
  <1>1. /\ job[t] = Quiet /\ job' = [job EXCEPT ![t] = j] /\ handled < MaxHandled /\ handled' = handled + 1
        /\ row[u] # Absent /\ row' = [row EXCEPT ![u] = Absent]
        /\ UNCHANGED <<clock, attempts, signed, tokens, issued, intended, spent, reused, lost, guesses>>
    BY DEF DeleteUser, Handle, Ghosts
  <1>2. j \in Job
    BY <1>0 DEF Job, JobLabels
  <1>3. /\ j.at = "drop" /\ j.user = u /\ j.old = Absent /\ j.new = Absent /\ j.code = NoCode /\ Quiet.at = "idle"
    BY DEF Quiet
  <1> HIDE DEF j
  <1>4. Becomes(t, j) /\ Beat(t, j)
    BY <1>1, <1>2, <1>3 DEF Becomes, Placed, Beat
  <1>5. /\ job' \in [Threads -> Job] /\ (\A o \in Threads : Placed(job'[o]))
        /\ job'[t] = j /\ \A o \in Threads \ {t} : job'[o] = job[o]
    BY <1>0, <1>4, JobsAfter
  <1>6. row' \in [Users -> AccRow] /\ row'[u] = Absent /\ \A v \in Users \ {u} : row'[v] = row[v]
    BY <1>0, <1>1 DEF AccountBooks
  <1>7. AccountBooks'
    <2>1. handled' \in 0..MaxHandled
      BY <1>0, <1>1, AccountAssumption DEF AccountBooks
    <2> QED
      BY <1>0, <1>1, <1>6, <2>1 DEF AccountBooks
  <1>8. ~Pending(j) /\ ~Pending(Quiet) /\ AllIds(j) = {} /\ Ids(Absent) = {} /\ j.code.from = 0
    BY <1>3, QuietIs DEF Pending, AllIds
  <1>9. /\ \A y \in spent : y.user \in Users /\ y.code.from \in 1..issued /\ y.code.from # 0
        /\ \A o \in Threads : NewIds(job[o]) \subseteq 1..issued
    <2>1. \A y \in spent : y.user \in Users
      BY <1>0 DEF AccountBooks
    <2>2. /\ \A y \in spent : y.code.from \in 1..issued
          /\ \A o \in Threads : NewIds(job[o]) \subseteq 1..issued
      BY NumbersOf
    <2> QED
      BY <2>1, <2>2
  <1>10. AccountTypes' /\ Whole'
    BY <1>5, <1>6, <1>7 DEF AccountTypes, AccountInv, Whole
  <1>11. Numbered'
    <2>1. \A o \in Threads : AllIds(job'[o]) \subseteq 1..issued
      BY <1>5, <1>8, NumbersOf
    <2>2. \A o \in Threads : Ids(job'[o].old) \cup Ids(job'[o].new) \cup ({job'[o].code.from} \ {0}) \subseteq 1..issued
      BY <2>1 DEF AllIds
    <2>3. \A v \in Users : Ids(row'[v]) \subseteq 1..issued
      BY <1>6, <1>8 DEF AccountInv, Numbered
    <2> QED
      BY <1>1, <2>2, <2>3 DEF AccountInv, Numbered
  <1>12. SavesRight'
    BY <1>5, <1>8 DEF SavesRight, AccountInv
  <1>13. SpentStaySpent'
    <2>1. \A y \in spent : UsedUp(y.code, Absent)
      BY <1>9 DEF UsedUp, Absent
    <2> QED
      BY <1>1, <1>6, <1>9, <2>1 DEF SpentStaySpent, AccountInv
  <1>14. DroppedAreGone' /\ NothingUndone'
    <2>1. \A o \in Threads : job'[o].at = "drop" => job'[o].user \in Users
      BY <1>5 DEF Placed
    <2>2. DroppedAreGone'
      BY <1>1, <1>3, <1>5, <1>6, <2>1 DEF DroppedAreGone, AccountInv
    <2>3. NothingUndone'
      BY <1>1, <1>6 DEF AccountInv, NothingUndone, Kept
    <2> QED
      BY <2>2, <2>3
  <1>15. AbsentAre'
    <2> SUFFICES ASSUME NEW v \in Users \ lost, row'[v] = Absent
                 PROVE  intended[v].gone \/ Untouched(v)' \/ \E o \in Threads : job'[o].at = "drop" /\ job'[o].user = v
      BY <1>1 DEF AbsentAre
    <2>1. CASE v = u
      BY <1>3, <1>5, <2>1
    <2>2. CASE v # u
      BY <1>1, <1>3, <1>5, <1>6, <2>2 DEF AccountInv, AbsentAre, Untouched
    <2> QED
      BY <2>1, <2>2
  <1>16. CreatedAreNew'
    <2> SUFFICES ASSUME NEW o \in Threads, Creates(job'[o]), job'[o].user \notin lost
                 PROVE  /\ (Untouched(job[o].user))' /\ job'[o].user = job[o].user
                        /\ \A p \in Threads \ {o} :
                             job'[p].user = job'[o].user => ~Pending(job'[p]) /\ job'[p].at # "drop"
      BY <1>1 DEF CreatedAreNew, Untouched
    <2>1. o # t /\ job'[o] = job[o] /\ Creates(job[o])
      BY <1>5, <1>8 DEF Creates
    <2>2. /\ Untouched(job[o].user)
          /\ \A p \in Threads \ {o} : job[p].user = job[o].user => ~Pending(job[p]) /\ job[p].at # "drop"
      BY <2>1 DEF AccountInv, CreatedAreNew
    <2>3. job[o].user # u /\ job[o].user \in Users
      BY <1>1, <1>5, <2>1, <2>2 DEF Untouched, Placed, Creates, Pending
    <2>4. (Untouched(job[o].user))'
      BY <1>1, <1>6, <2>1, <2>2, <2>3 DEF Untouched
    <2> QED
      BY <1>3, <1>5, <2>1, <2>2, <2>3, <2>4
  <1>17. NewIdsAreNew'
    <2> SUFFICES ASSUME NEW o \in Threads, Pending(job'[o]), job'[o].user \notin lost, NEW i \in NewIds(job'[o])
                 PROVE  /\ i \notin Ids(row'[job'[o].user])
                        /\ \A p \in Threads \ {o} : job'[p].user = job'[o].user =>
                             i \notin Ids(job'[p].old) \cup Ids(job'[p].new) \cup {job'[p].code.from}
                        /\ \A y \in spent : y.user = job'[o].user => y.code.from # i
      BY <1>1 DEF NewIdsAreNew
    <2>1. o # t /\ job'[o] = job[o] /\ job[o].user \in Users /\ i # 0
      BY <1>5, <1>8, <1>9 DEF Placed, Pending
    <2>2. /\ i \notin Ids(row[job[o].user])
          /\ \A p \in Threads \ {o} : job[p].user = job[o].user =>
               i \notin Ids(job[p].old) \cup Ids(job[p].new) \cup {job[p].code.from}
          /\ \A y \in spent : y.user = job[o].user => y.code.from # i
      BY <2>1 DEF AccountInv, NewIdsAreNew
    <2>3. i \notin Ids(j.old) \cup Ids(j.new) \cup {j.code.from}
      BY <1>3, <1>8, <2>1
    <2>4. i \notin Ids(row'[job[o].user])
      BY <1>6, <1>8, <2>1, <2>2
    <2> QED
      BY <1>5, <2>1, <2>2, <2>3, <2>4
  <1> QED
    BY <1>1, <1>2, <1>4, <1>10, <1>11, <1>12, <1>13, <1>14, <1>15, <1>16, <1>17 DEF AccountInv

LEMMA DropSessionsKeeps ==
  ASSUME AccountInv, NEW t \in Threads, DropSessions(t)
  PROVE  /\ AccountInv' /\ clock' = clock
         /\ \E j \in Job : Becomes(t, j) /\ Beat(t, j)
  <1> DEFINE u == job[t].user
  <1>0. /\ AccountTypes /\ AccountBooks /\ Quiet \in Job /\ Placed(Quiet) /\ Quiet.at = "idle" /\ ~Pending(Quiet)
        /\ AllIds(Quiet) = {} /\ Placed(job[t])
    BY AccountTypesOf, RowsAre, QuietIs
  <1>1. /\ job[t].at = "drop" /\ job' = [job EXCEPT ![t] = Quiet]
        /\ UNCHANGED <<clock, attempts, row, tokens, issued, handled, spent, reused, lost, guesses>>
    BY DEF DropSessions, Proceed
  <1>2. u \in Users
    BY <1>0, <1>1 DEF Placed
  <1>3. Becomes(t, Quiet) /\ Beat(t, Quiet)
    BY <1>0, <1>1 DEF Becomes, Beat
  <1>4. /\ job' \in [Threads -> Job] /\ (\A o \in Threads : Placed(job'[o]))
        /\ job'[t] = Quiet /\ \A o \in Threads \ {t} : job'[o] = job[o]
    BY <1>0, <1>3, JobsAfter
  <1>5. /\ intended' = [intended EXCEPT ![u].gone = TRUE]
        /\ intended' \in [Users -> [pw : Passwords \cup {0}, totp : Serials, gone : BOOLEAN]]
        /\ intended'[u].gone /\ \A v \in Users \ {u} : intended'[v] = intended[v]
    BY <1>0, <1>2 DEF AccountBooks, DropSessions
  <1>6. AccountBooks'
    <2>1. signed' \subseteq signed
      BY DEF DropSessions
    <2> QED
      BY <1>0, <1>1, <1>5, <2>1 DEF AccountBooks
  <1>7. AccountTypes' /\ Whole'
    BY <1>1, <1>4, <1>6 DEF AccountTypes, AccountInv, Whole
  <1>8. Numbered'
    <2>1. \A o \in Threads : AllIds(job'[o]) \subseteq 1..issued
      BY <1>0, <1>4, NumbersOf
    <2>2. \A o \in Threads : Ids(job'[o].old) \cup Ids(job'[o].new) \cup ({job'[o].code.from} \ {0}) \subseteq 1..issued
      BY <2>1 DEF AllIds
    <2> QED
      BY <1>1, <2>2 DEF AccountInv, Numbered
  <1>9. SavesRight' /\ SpentStaySpent' /\ DroppedAreGone'
    BY <1>0, <1>1, <1>4 DEF SavesRight, SpentStaySpent, DroppedAreGone, AccountInv
  <1>10. NothingUndone'
    <2> SUFFICES ASSUME NEW v \in Users \ lost PROVE Kept(v)'
      BY <1>1 DEF NothingUndone
    <2>1. Kept(v) /\ (v = u => row[v] = Absent)
      BY <1>1 DEF AccountInv, NothingUndone, DroppedAreGone
    <2> QED
      BY <1>1, <1>5, <2>1 DEF Kept
  <1>11. AbsentAre'
    <2> SUFFICES ASSUME NEW v \in Users \ lost, row[v] = Absent
                 PROVE  \/ intended'[v].gone \/ Untouched(v)'
                        \/ \E o \in Threads : job'[o].at = "drop" /\ job'[o].user = v
      BY <1>1 DEF AbsentAre
    <2>1. CASE v = u
      BY <1>5, <2>1
    <2>2. CASE v # u
      BY <1>1, <1>4, <1>5, <2>2 DEF AccountInv, AbsentAre, Untouched
    <2> QED
      BY <2>1, <2>2
  <1>12. CreatedAreNew'
    <2> SUFFICES ASSUME NEW o \in Threads, Creates(job'[o]), job'[o].user \notin lost
                 PROVE  /\ (Untouched(job[o].user))' /\ job'[o].user = job[o].user
                        /\ \A p \in Threads \ {o} :
                             job'[p].user = job'[o].user => ~Pending(job'[p]) /\ job'[p].at # "drop"
      BY <1>1 DEF CreatedAreNew, Untouched
    <2>1. o # t /\ job'[o] = job[o] /\ Creates(job[o])
      BY <1>0, <1>4 DEF Creates
    <2>2. /\ Untouched(job[o].user)
          /\ \A p \in Threads \ {o} : job[p].user = job[o].user => ~Pending(job[p]) /\ job[p].at # "drop"
      BY <2>1 DEF AccountInv, CreatedAreNew
    <2>3. job[o].user # u /\ job[o].user \in Users
      BY <1>1, <1>4, <2>1, <2>2 DEF Placed, Creates, Pending
    <2>4. (Untouched(job[o].user))'
      BY <1>1, <1>4, <1>5, <2>1, <2>2, <2>3 DEF Untouched
    <2> QED
      BY <1>0, <1>4, <2>1, <2>2, <2>4
  <1>13. NewIdsAreNew'
    <2>1. \A i \in 1..issued : i \notin Ids(Quiet.old) \cup Ids(Quiet.new) \cup {Quiet.code.from}
      BY QuietIs
    <2>2. \A o \in Threads : NewIds(job[o]) \subseteq 1..issued
      BY NumbersOf
    <2> QED
      BY <1>0, <1>1, <1>4, <2>1, <2>2 DEF AccountInv, NewIdsAreNew
  <1> QED
    BY <1>0, <1>1, <1>3, <1>7, <1>8, <1>9, <1>10, <1>11, <1>12, <1>13 DEF AccountInv

LEMMA NothingMovesKeeps ==
  ASSUME AccountInv, AccountBooks', UNCHANGED <<row, job, issued, intended, spent, reused, lost>>
  PROVE  AccountInv'
  <1>1. AccountTypes' /\ Whole' /\ Numbered'
    BY DEF AccountInv, AccountTypes, Whole, Numbered
  <1>2. SavesRight' /\ SpentStaySpent' /\ DroppedAreGone' /\ NothingUndone'
    BY DEF AccountInv, SavesRight, SpentStaySpent, DroppedAreGone, NothingUndone, Kept
  <1>3. AbsentAre' /\ CreatedAreNew' /\ NewIdsAreNew'
    BY DEF AccountInv, AbsentAre, Untouched, CreatedAreNew, NewIdsAreNew
  <1> QED
    BY <1>1, <1>2, <1>3 DEF AccountInv
(* The pace of guessing.                                                   *)

LEMMA SinceLater ==
  ASSUME NEW s, NEW c \in Int, UpTo(s, c), NEW w \in Int, w > c
  PROVE  Since(s, w) = 0
  <1>1. Times(s) /\ Len(s) \in Nat /\ \A i \in 1..Len(s) : s[i] \in Int /\ s[i] <= c
    BY DEF UpTo, Times
  <1>2. Below(s, w) \in 0..Len(s) /\ \A i \in 1..Len(s) : s[i] < w <=> i <= Below(s, w)
    BY <1>1, BelowSplit
  <1>3. \A i \in 1..Len(s) : s[i] < w
    BY <1>1
  <1>4. Below(s, w) = Len(s)
    <2>1. CASE Len(s) = 0
      BY <1>2, <2>1
    <2>2. CASE Len(s) # 0
      BY <1>1, <1>2, <1>3, <2>2
    <2> QED
      BY <2>1, <2>2
  <1> QED
    BY <1>1, <1>4 DEF Since

\* one thread of T comes or goes
LEMMA CountMoves ==
  ASSUME NEW T, IsFiniteSet(T), NEW t \in T, NEW S \in SUBSET T, NEW R \in SUBSET T, S \ {t} = R \ {t}
  PROVE  /\ Cardinality(S) \in Nat /\ Cardinality(R) \in Nat
         /\ (t \in S <=> t \in R) => Cardinality(R) = Cardinality(S)
         /\ t \in S /\ t \notin R => Cardinality(R) = Cardinality(S) - 1
         /\ t \notin S /\ t \in R => Cardinality(R) = Cardinality(S) + 1
  <1>1. IsFiniteSet(S) /\ IsFiniteSet(R)
    BY FS_Subset
  <1>2. Cardinality(S) \in Nat /\ Cardinality(R) \in Nat
    BY <1>1, FS_CardinalityType
  <1>3. (t \in S <=> t \in R) => R = S
    OBVIOUS
  <1>4. ASSUME t \in S, t \notin R PROVE Cardinality(R) = Cardinality(S) - 1
    <2>1. R = S \ {t}
      BY <1>4
    <2> QED
      BY <1>1, <1>4, <2>1, FS_RemoveElement
  <1>5. ASSUME t \notin S, t \in R PROVE Cardinality(R) = Cardinality(S) + 1
    <2>1. R = S \cup {t}
      BY <1>5
    <2> QED
      BY <1>1, <1>5, <2>1, FS_AddElement
  <1> QED
    BY <1>2, <1>3, <1>4, <1>5

LEMMA ThreadsCounted ==
  /\ Cardinality(Reading) \in Nat /\ Cardinality(Recording) \in Nat /\ Cardinality(Threads) \in Nat
  /\ Cardinality(Reading) <= Cardinality(Threads)
  /\ \A t \in Threads : t \notin Reading /\ t \notin Recording =>
       Cardinality(Reading) + Cardinality(Recording) + 1 <= Cardinality(Threads)
  <1> DEFINE R == Reading
             C == Recording
  <1>0. IsFiniteSet(Threads) /\ R \subseteq Threads /\ C \subseteq Threads /\ R \cap C = {}
    BY AccountAssumption DEF Reading, Recording
  <1> HIDE DEF R, C
  <1>1. /\ IsFiniteSet(R) /\ IsFiniteSet(C)
    BY <1>0, FS_Subset
  <1>2. Cardinality(R) \in Nat /\ Cardinality(C) \in Nat /\ Cardinality(Threads) \in Nat
    BY <1>0, <1>1, FS_CardinalityType
  <1>3. Cardinality(R) <= Cardinality(Threads)
    BY <1>0, FS_Subset
  <1>4. ASSUME NEW t \in Threads, t \notin R, t \notin C
        PROVE  Cardinality(R) + Cardinality(C) + 1 <= Cardinality(Threads)
    <2>1. IsFiniteSet(R \cup C) /\ Cardinality(R \cup C) = Cardinality(R) + Cardinality(C) - Cardinality(R \cap C)
      BY <1>1, FS_Union
    <2>2. Cardinality(R \cap C) = 0
      BY <1>0, FS_EmptySet
    <2>3. t \notin R \cup C /\ (R \cup C) \cup {t} \subseteq Threads
      BY <1>0, <1>4
    <2>4. Cardinality((R \cup C) \cup {t}) = Cardinality(R \cup C) + 1
      BY <2>1, <2>3, FS_AddElement
    <2>5. Cardinality((R \cup C) \cup {t}) <= Cardinality(Threads)
      BY <1>0, <2>3, FS_Subset
    <2> QED
      BY <1>2, <2>1, <2>2, <2>4, <2>5
  <1> QED
    BY <1>2, <1>3, <1>4 DEF R, C

\* each step of a thread keeps the pace: a guess is judged by a thread that
\* was let in, and each is recorded before its thread is let in again
LEMMA BeatKeepsPace ==
  ASSUME AccountTypes, PaceInv, NEW t \in Threads, NEW j, Becomes(t, j), Beat(t, j), clock' = clock
  PROVE  PaceInv'
  <1> DEFINE R == Cardinality(Reading)
             C == Cardinality(Recording)
             R1 == Cardinality(Reading')
             C1 == Cardinality(Recording')
             T == Cardinality(Threads)
             v == clock - Window
  <1>0. /\ clock \in Int /\ v \in Int /\ Block \in Nat \ {0}
        /\ UpTo(attempts, clock) /\ UpTo(guesses, clock) /\ Len(attempts) <= Block
        /\ Times(attempts) /\ Times(guesses)
    BY LimiterAssumption DEF AccountTypes, AccountBooks, PaceInv, UpTo
  <1>1. /\ R \in Nat /\ C \in Nat /\ T \in Nat /\ R <= T
        /\ t \notin Reading /\ t \notin Recording => R + C + 1 <= T
    BY ThreadsCounted
  <1>2. /\ job'[t] = j /\ \A o \in Threads \ {t} : job'[o] = job[o]
    BY JobsAfter
  <1>3. /\ t \in Reading <=> job[t].at = "read"
        /\ t \in Recording <=> job[t].at = "record"
        /\ t \in Reading' <=> j.at = "read"
        /\ t \in Recording' <=> j.at = "record"
        /\ Reading \in SUBSET Threads /\ Reading' \in SUBSET Threads /\ Reading \ {t} = Reading' \ {t}
        /\ Recording \in SUBSET Threads /\ Recording' \in SUBSET Threads /\ Recording \ {t} = Recording' \ {t}
    BY <1>2 DEF Reading, Recording
  <1>4. /\ R1 \in Nat /\ ((t \in Reading <=> t \in Reading') => R1 = R)
        /\ t \in Reading /\ t \notin Reading' => R1 = R - 1
        /\ t \notin Reading /\ t \in Reading' => R1 = R + 1
    BY <1>3, AccountAssumption, CountMoves
  <1>5. /\ C1 \in Nat /\ ((t \in Recording <=> t \in Recording') => C1 = C)
        /\ t \in Recording /\ t \notin Recording' => C1 = C - 1
        /\ t \notin Recording /\ t \in Recording' => C1 = C + 1
    BY <1>3, AccountAssumption, CountMoves
  <1>6. R1 <= T
    BY <1>3, AccountAssumption, FS_Subset
  <1> HIDE DEF R, C, R1, C1, T
  <1>7. ASSUME NEW w \in Int, v <= w
        PROVE  /\ Since(attempts, w) \in Nat /\ Since(guesses, w) \in Nat
               /\ Since(attempts, w) >= Block \/ Since(guesses, w) <= Since(attempts, w) + C
               /\ Since(guesses, w) + R <= Block - 1 + T
               /\ Allowed => Since(attempts, w) < Block
               /\ w > clock => Since(guesses, w) = 0
    <2>1. Since(attempts, w) \in Nat /\ Since(guesses, w) \in Nat
      <3>1. Since(attempts, w) \in 0..Len(attempts) /\ Since(guesses, w) \in 0..Len(guesses)
        BY <1>0, SinceIn
      <3>2. Len(attempts) \in Nat /\ Len(guesses) \in Nat
        BY <1>0 DEF Times
      <3> QED
        BY <3>1, <3>2
    <2>2. /\ Since(attempts, w) >= Block \/ Since(guesses, w) <= Since(attempts, w) + C
          /\ Since(guesses, w) + R <= Block - 1 + T
      BY <1>7 DEF PaceInv, Paced, R, C, T
    <2>3. Allowed => Since(attempts, w) < Block
      BY <1>0, <1>7, AllowedMeans
    <2>4. w > clock => Since(guesses, w) = 0
      BY <1>0, SinceLater
    <2> QED
      BY <2>1, <2>2, <2>3, <2>4
  <1> DEFINE Fits(w) == /\ Since(attempts', w) >= Block \/ Since(guesses', w) <= Since(attempts', w) + C1
                        /\ Since(guesses', w) + R1 <= Block - 1 + T
             Done == /\ UpTo(attempts', clock) /\ UpTo(guesses', clock) /\ Len(attempts') <= Block
                     /\ \A w \in Int : v <= w => Fits(w)
  <1>a. SUFFICES Done
    BY DEF PaceInv, Paced, R1, C1, T
  <1>8. CASE {j.at, job[t].at} \cap {"read", "record"} = {} /\ UNCHANGED <<attempts, guesses>>
    <2>1. R1 = R /\ C1 = C
      BY <1>3, <1>4, <1>5, <1>8
    <2>2. ASSUME NEW w \in Int, v <= w PROVE Fits(w)
      BY <1>7, <1>8, <2>1, <2>2
    <2>3. Done
      BY <1>0, <1>8, <2>2
    <2> QED
      BY <2>3
  <1>9. CASE Allowed /\ job[t].at = "idle" /\ j.at \in {"read", "record"} /\ UNCHANGED <<attempts, guesses>>
    <2>1. R1 <= R + 1 /\ C1 >= C /\ R + C + 1 <= T
      BY <1>1, <1>3, <1>4, <1>5, <1>9
    <2>2. ASSUME NEW w \in Int, v <= w PROVE Fits(w)
      BY <1>0, <1>1, <1>4, <1>5, <1>7, <1>9, <2>1, <2>2
    <2>3. Done
      BY <1>0, <1>9, <2>2
    <2> QED
      BY <2>3
  <1>10. CASE job[t].at = "read" /\ j.at # "read" /\ UNCHANGED <<attempts, guesses>>
    <2>1. R1 = R - 1 /\ C1 >= C
      BY <1>1, <1>3, <1>4, <1>5, <1>10
    <2>2. ASSUME NEW w \in Int, v <= w PROVE Fits(w)
      BY <1>0, <1>1, <1>4, <1>5, <1>7, <1>10, <2>1, <2>2
    <2>3. Done
      BY <1>0, <1>10, <2>2
    <2> QED
      BY <2>3
  <1>11. ASSUME Guess, UNCHANGED attempts, C1 = C + 1,
                R1 = R - 1 \/ (R1 = R /\ R + C + 1 <= T /\ Allowed)
         PROVE  Done
    <2>1. /\ UpTo(guesses', clock)
          /\ \A w \in Int : clock - Window <= w /\ w <= clock => Since(guesses', w) = Since(guesses, w) + 1
          /\ \A w \in Int : w > clock => Since(guesses', w) = 0
      <3>1. guesses' = Extended(guesses)
        BY <1>11 DEF Guess, Extended
      <3> QED
        BY <1>0, <3>1, ExtendedIs
    <2>2. ASSUME NEW w \in Int, v <= w PROVE Fits(w)
      <3>1. CASE w <= clock
        <4>1. Since(guesses', w) = Since(guesses, w) + 1
          BY <2>1, <2>2, <3>1
        <4>2. /\ Since(attempts, w) \in Nat /\ Since(guesses, w) \in Nat
              /\ Since(attempts, w) >= Block \/ Since(guesses, w) <= Since(attempts, w) + C
              /\ Since(guesses, w) + R <= Block - 1 + T
              /\ Allowed => Since(attempts, w) < Block
          BY <1>7, <2>2
        <4>3. Since(attempts', w) >= Block \/ Since(guesses', w) <= Since(attempts', w) + C1
          BY <1>0, <1>1, <1>11, <4>1, <4>2
        <4>4. Since(guesses', w) + R1 <= Block - 1 + T
          BY <1>0, <1>1, <1>4, <1>11, <4>1, <4>2
        <4> QED
          BY <4>3, <4>4
      <3>2. CASE w > clock
        <4>1. Since(guesses', w) = 0 /\ Since(attempts, w) \in Nat
          BY <1>7, <2>1, <2>2, <3>2
        <4> QED
          BY <1>0, <1>1, <1>4, <1>5, <1>6, <1>11, <4>1
      <3> QED
        BY <1>0, <3>1, <3>2
    <2> QED
      BY <1>0, <1>11, <2>1, <2>2
  <1>12. CASE job[t].at = "read" /\ j.at = "record" /\ Guess /\ UNCHANGED attempts
    <2>1. R1 = R - 1 /\ C1 = C + 1
      BY <1>3, <1>4, <1>5, <1>12
    <2> QED
      BY <1>11, <1>12, <2>1
  <1>13. CASE Allowed /\ job[t].at = "idle" /\ j.at = "record" /\ Guess /\ UNCHANGED attempts
    <2>1. R1 = R /\ C1 = C + 1 /\ R + C + 1 <= T
      BY <1>1, <1>3, <1>4, <1>5, <1>13
    <2> QED
      BY <1>11, <1>13, <2>1
  <1>14. CASE job[t].at = "record" /\ j.at \notin {"read", "record"} /\ Record /\ UNCHANGED guesses
    <2>1. R1 = R /\ C1 = C - 1
      BY <1>3, <1>4, <1>5, <1>14
    <2>2. /\ UpTo(attempts', clock) /\ Len(attempts') <= Block
          /\ \A w \in Int : clock - Window <= w /\ w <= clock =>
               Since(attempts', w) >= Block \/ Since(attempts', w) = Since(attempts, w) + 1
      BY <1>0, <1>14, Recorded
    <2>3. ASSUME NEW w \in Int, v <= w PROVE Fits(w)
      <3>0. Since(guesses', w) = Since(guesses, w)
        BY <1>14
      <3>1. CASE w <= clock
        <4>1. Since(attempts', w) >= Block \/ Since(attempts', w) = Since(attempts, w) + 1
          BY <2>2, <2>3, <3>1
        <4> QED
          BY <1>0, <1>1, <1>5, <1>7, <2>1, <2>3, <3>0, <4>1
      <3>2. CASE w > clock
        <4>1. Since(guesses, w) = 0 /\ Since(attempts', w) \in 0..Len(attempts') /\ Len(attempts') \in Nat
          BY <1>7, <2>2, <2>3, <3>2, SinceIn DEF UpTo, Times
        <4> QED
          BY <1>0, <1>5, <1>7, <2>1, <2>3, <3>0, <4>1
      <3> QED
        BY <1>0, <3>1, <3>2
    <2> QED
      BY <1>0, <1>14, <2>2, <2>3
  <1> QED
    BY <1>8, <1>9, <1>10, <1>12, <1>13, <1>14 DEF Beat

LEMMA UpToLater ==
  ASSUME NEW s, NEW c \in Int, NEW d \in Int, UpTo(s, c), c <= d
  PROVE  UpTo(s, d)
  <1>1. \A i \in 1..Len(s) : s[i] \in Int /\ s[i] <= c
    BY DEF UpTo, Times
  <1>2. \A i \in 1..Len(s) : s[i] <= d
    BY <1>1
  <1> QED
    BY <1>2 DEF UpTo

LEMMA NextStepKeepsPace ==
  ASSUME AccountTypes, PaceInv, clock' = clock + 1, UNCHANGED <<attempts, guesses, job>>
  PROVE  PaceInv'
  <1>1. clock \in Int /\ clock' \in Int /\ clock <= clock'
    BY LimiterAssumption DEF AccountTypes, AccountBooks
  <1>2. UpTo(attempts', clock') /\ UpTo(guesses', clock') /\ Len(attempts') <= Block
    BY <1>1, UpToLater DEF PaceInv
  <1>3. \A w \in Int : clock' - Window <= w => clock - Window <= w
    BY <1>1, LimiterAssumption
  <1>4. Reading' = Reading /\ Recording' = Recording
    BY DEF Reading, Recording
  <1>5. Paced'
    BY <1>3, <1>4 DEF PaceInv, Paced
  <1> QED
    BY <1>2, <1>5 DEF PaceInv

LEMMA InitAccountInv == AccountInit => AccountInv /\ PaceInv
  <1> SUFFICES ASSUME AccountInit PROVE AccountInv /\ PaceInv
    OBVIOUS
  <1>0. /\ clock = 1 /\ attempts = <<>> /\ guesses = <<>> /\ tokens = {} /\ issued = 1 /\ handled = 0
        /\ spent = {} /\ reused = {} /\ lost = {} /\ job = [t \in Threads |-> Quiet]
        /\ row = [u \in Users |-> IF u \in Founders THEN NewRow(u) ELSE Absent]
        /\ \A t \in Threads : job[t] = Quiet
    BY DEF AccountInit
  <1>1. \A u \in Users : /\ intended[u].pw = 1 /\ intended[u].totp = NewRow(u).totp /\ ~intended[u].gone
                         /\ NewRow(u).pw = 1 /\ Ids(NewRow(u)) \subseteq {1}
                         /\ u \notin Enrolled => NewRow(u).totp = 0
    <2>1. \A u \in Users : intended[u].pw = 1 /\ intended[u].totp = NewRow(u).totp /\ ~intended[u].gone
      BY DEF AccountInit
    <2>2. \A u \in Users : /\ NewRow(u).pw = 1 /\ Ids(NewRow(u)) \subseteq {1}
                           /\ u \notin Enrolled => NewRow(u).totp = 0
      BY DEF NewRow, Absent, Ids
    <2> QED
      BY <2>1, <2>2
  <1>2. /\ Absent \in AccRow /\ (\A u \in Users : NewRow(u) \in AccRow) /\ Quiet \in Job /\ Placed(Quiet)
        /\ 0 \in Serials /\ 1 \in Begun /\ Founders \subseteq Users /\ Enrolled \subseteq Founders
        /\ 1 \in Passwords /\ 1 \in 0..Ticks /\ 0 \in 0..MaxHandled /\ \A t \in Threads : job[t] \in Job
    BY <1>0, RowsAre, AccountAssumption, LimiterAssumption
  <1>3. AccountBooks
    <2>1. signed \subseteq [id : Serials, user : Users, must : BOOLEAN]
      <3>1. signed = {[id |-> 0, user |-> u, must |-> FALSE] : u \in Founders}
        BY DEF AccountInit
      <3>2. \A u \in Founders : [id |-> 0, user |-> u, must |-> FALSE] \in [id : Serials, user : Users, must : BOOLEAN]
        BY <1>2
      <3> QED
        BY <3>1, <3>2
    <2>2. \A u \in Users : NewRow(u).totp \in Serials
      BY <1>2 DEF AccRow
    <2>3. intended \in [Users -> [pw : Passwords \cup {0}, totp : Serials, gone : BOOLEAN]]
      BY <1>2, <2>2 DEF AccountInit
    <2> QED
      BY <1>0, <1>2, <2>1, <2>3 DEF AccountBooks
  <1>4. AccountTypes
    BY <1>0, <1>2, <1>3 DEF AccountTypes
  <1>5. Whole /\ SpentStaySpent /\ AbsentAre /\ NothingUndone
    <2>1. \A u \in Users : row[u] = IF u \in Founders THEN NewRow(u) ELSE Absent
      BY <1>0
    <2>2. Absent.pw = 0 /\ \A u \in Users : NewRow(u) # Absent
      BY <1>1 DEF Absent
    <2>3. Whole
      BY <1>1, <2>1, <2>2 DEF Whole
    <2>4. AbsentAre
      BY <1>1, <1>2, <2>1, <2>2 DEF AbsentAre, Untouched
    <2>5. NothingUndone
      BY <1>0, <1>1, <2>1, <2>2 DEF NothingUndone, Kept
    <2> QED
      BY <1>0, <2>3, <2>4, <2>5 DEF SpentStaySpent
  <1>6. Numbered
    <2>1. \A u \in Users : Ids(row[u]) \subseteq 1..1
      BY <1>0, <1>1, QuietIs
    <2>2. \A t \in Threads : Ids(job[t].old) \cup Ids(job[t].new) \cup ({job[t].code.from} \ {0}) = {}
      BY <1>0, QuietIs
    <2> QED
      BY <1>0, <2>1, <2>2 DEF Numbered
  <1>7. SavesRight /\ DroppedAreGone /\ CreatedAreNew /\ NewIdsAreNew
    BY <1>0, QuietIs DEF SavesRight, DroppedAreGone, CreatedAreNew, Creates, NewIdsAreNew
  <1>8. PaceInv
    <2>1. /\ UpTo(<<>>, clock) /\ Len(<<>>) = 0 /\ Block \in Nat \ {0}
      BY LimiterAssumption DEF UpTo, Times
    <2>2. \A w \in Int : Since(<<>>, w) = 0
      BY <2>1, SinceIn DEF UpTo
    <2>3. Reading = {} /\ Recording = {}
      BY <1>0, QuietIs DEF Reading, Recording
    <2>4. Cardinality(Reading) = 0 /\ Cardinality(Recording) = 0 /\ Cardinality(Threads) \in Nat
      BY <2>3, FS_EmptySet, ThreadsCounted
    <2>5. Paced
      BY <1>0, <2>1, <2>2, <2>4 DEF Paced
    <2> QED
      BY <1>0, <2>1, <2>5 DEF PaceInv
  <1> QED
    BY <1>4, <1>5, <1>6, <1>7, <1>8 DEF AccountInv

LEMMA EffectKeeps ==
  ASSUME AccountInv, NEW t \in Threads, Effect(t)
  PROVE  AccountInv' /\ (PaceInv => PaceInv')
  <1>1. PICK j \in Job : (Takes(t, j) \/ Carries(t, j)) /\ Beat(t, j) /\ AccountBooks' /\ clock' = clock
    BY DEF Effect
  <1>2. AccountInv'
    BY <1>1, TakesKeep, CarriesKeep
  <1>3. Becomes(t, j) /\ AccountTypes
    BY <1>1 DEF Takes, Carries, AccountInv
  <1> QED
    BY <1>1, <1>2, <1>3, BeatKeepsPace

LEMMA AccountStepKeeps ==
  ASSUME AccountInv, NEW t \in Threads, Account(t)
  PROVE  AccountInv' /\ (PaceInv => PaceInv')
  <1>0. AccountTypes
    BY DEF AccountInv
  <1>1. CASE (\E u \in Users, p \in Passwords, remote \in BOOLEAN : LoginCheck(t, u, p, remote)) \/ LoginRead(t)
    <2>1. Effect(t)
      BY <1>1, LoginEffects
    <2> QED
      BY <2>1, EffectKeeps
  <1>2. CASE RecordAttempt(t) \/ Admit(t) \/ OpenSession(t)
    <2>1. Effect(t)
      BY <1>2, SigningInEffects
    <2> QED
      BY <2>1, EffectKeeps
  <1>3. CASE Save(t)
    <2>1. \E k \in Job : Becomes(t, k) /\ Beat(t, k) /\ clock' = clock
      BY <1>3, SaveEffects
    <2>2. AccountInv'
      BY <1>3, SavedRowKeeps
    <2> QED
      BY <1>0, <2>1, <2>2, BeatKeepsPace
  <1>4. CASE DropSessions(t)
    BY <1>0, <1>4, DropSessionsKeeps, BeatKeepsPace
  <1>5. CASE \E k \in tokens, c \in Presented : Verify(t, k, c)
    <2>1. Effect(t)
      BY <1>5, VerifyEffect
    <2> QED
      BY <2>1, EffectKeeps
  <1>6. ASSUME NEW x \in signed,
               \/ \E u \in Users, p \in Passwords, force \in BOOLEAN : ChangePassword(t, x, u, p, force)
               \/ \E n \in (clock - 1)..(clock + 1) : Enroll(t, x, [kind |-> "totp", from |-> issued + 1, of |-> n])
               \/ \E p \in Passwords, c \in Presented : Disable(t, x, p, c) \/ RegenerateCodes(t, x, p, c)
               \/ \E u \in Users : AdminReset(t, x, u)
               \/ SaveOtherFields(t, x)
        PROVE  AccountInv' /\ (PaceInv => PaceInv')
    <2>1. Effect(t)
      BY <1>6, UserOperationsTake DEF Effect
    <2> QED
      BY <2>1, EffectKeeps
  <1>7. CASE \E x \in signed, u \in Users : CreateUser(t, x, u)
    BY <1>0, <1>7, CreateUserKeeps, BeatKeepsPace
  <1>8. CASE \E x \in signed, u \in Users : DeleteUser(t, x, u)
    BY <1>0, <1>8, DeleteUserKeeps, BeatKeepsPace
  <1> QED
    BY <1>1, <1>2, <1>3, <1>4, <1>5, <1>6, <1>7, <1>8 DEF Account

LEMMA AccountInvKept == AccountInv /\ [AccountNext]_accountVars => AccountInv' /\ (PaceInv => PaceInv')
  <1> SUFFICES ASSUME AccountInv, [AccountNext]_accountVars PROVE AccountInv' /\ (PaceInv => PaceInv')
    OBVIOUS
  <1>0. AccountTypes /\ AccountBooks
    BY DEF AccountInv, AccountTypes
  <1>1. CASE \E t \in Threads : Account(t)
    BY <1>1, AccountStepKeeps
  <1>2. CASE \E x \in signed : Logout(x) \/ \E p \in Passwords, c \in Presented : Refuse(x, p, c)
    <2>1. /\ signed' \subseteq signed /\ handled < MaxHandled /\ handled' = handled + 1
          /\ UNCHANGED <<clock, attempts, row, tokens, job, issued, intended, spent, reused, lost, guesses>>
      BY <1>2 DEF Logout, Refuse, Ghosts
    <2>2. handled' \in 0..MaxHandled
      BY <1>0, <2>1, AccountAssumption DEF AccountBooks
    <2>3. AccountBooks'
      BY <1>0, <2>1, <2>2 DEF AccountBooks
    <2>4. PaceInv => PaceInv'
      BY <2>1 DEF PaceInv, Paced, Reading, Recording
    <2> QED
      BY <2>1, <2>3, <2>4, NothingMovesKeeps
  <1>3. CASE NextStep
    <2>1. /\ clock < Ticks /\ clock' = clock + 1
          /\ UNCHANGED <<attempts, row, signed, tokens, job, issued, handled, intended, spent, reused, lost, guesses>>
      BY <1>3 DEF NextStep, Ghosts
    <2>2. clock' \in 0..Ticks
      BY <1>0, <2>1, LimiterAssumption DEF AccountBooks
    <2>3. AccountBooks'
      BY <1>0, <2>1, <2>2 DEF AccountBooks
    <2> QED
      BY <1>0, <2>1, <2>3, NothingMovesKeeps, NextStepKeepsPace
  <1>4. CASE UNCHANGED accountVars
    <2>1. UNCHANGED <<clock, attempts, row, signed, tokens, job, issued, handled, intended, spent, reused, lost, guesses>>
      BY <1>4 DEF accountVars
    <2>2. AccountBooks'
      BY <1>0, <2>1 DEF AccountBooks
    <2>3. PaceInv => PaceInv'
      BY <2>1 DEF PaceInv, Paced, Reading, Recording
    <2> QED
      BY <2>1, <2>2, <2>3, NothingMovesKeeps
  <1> QED
    BY <1>1, <1>2, <1>3, <1>4 DEF AccountNext

LEMMA LimitFromPace == AccountTypes /\ PaceInv => GuessesLimited
  <1> SUFFICES ASSUME AccountTypes, PaceInv PROVE GuessesLimited
    OBVIOUS
  <1> DEFINE v == clock - Window
  <1>1. clock \in Int /\ v \in Int /\ v <= v /\ Block \in Nat /\ Times(guesses)
    BY LimiterAssumption DEF AccountTypes, AccountBooks, PaceInv, UpTo
  <1>2. Len(InWindow(guesses)) = Since(guesses, v)
    BY <1>1, WindowOf DEF Since
  <1>3. Since(guesses, v) + Cardinality(Reading) <= Block - 1 + Cardinality(Threads)
    BY <1>1 DEF PaceInv, Paced
  <1>4. Cardinality(Reading) \in Nat /\ Cardinality(Threads) \in Nat
    BY ThreadsCounted
  <1>5. Since(guesses, v) \in 0..Len(guesses) /\ Len(guesses) \in Nat
    BY <1>1, SinceIn DEF Times
  <1> QED
    BY <1>1, <1>2, <1>3, <1>4, <1>5 DEF GuessesLimited

\* However many handlers overlap, an address that is not signed in has at most
\* Block - 1 + |Threads| wrong passwords and codes judged within the window
\* (LoginRateLimiter check and record around the judgement in auth.login and
\* totp_verify).  What a session guesses to disable its second factor is not
\* limited (EveryGuessLimited is violated).
THEOREM GuessesAreLimited == AccountSpec => []GuessesLimited
  <1>1. AccountInv /\ PaceInv /\ [AccountNext]_accountVars => (AccountInv /\ PaceInv)'
    BY AccountInvKept
  <1>2. AccountInv /\ PaceInv => GuessesLimited
    BY LimitFromPace DEF AccountInv
  <1> QED
    BY InitAccountInv, <1>1, <1>2, PTL DEF AccountSpec

\* Where no save went over a change made since its read, no finished change of a
\* password, second factor or account is undone and no code accepted twice,
\* whichever handlers interleave (auth, totp, users).
THEOREM NothingIsUndone == AccountSpec => []NothingUndone
  <1>1. AccountInv /\ [AccountNext]_accountVars => AccountInv'
    BY AccountInvKept
  <1>2. AccountInv => NothingUndone
    BY DEF AccountInv
  <1>3. AccountInit => AccountInv
    BY InitAccountInv
  <1> QED
    BY <1>1, <1>2, <1>3, PTL DEF AccountSpec
-----------------------------------------------------------------------------
(* Share links: what is counted never exceeds what was asked.              *)

Busy == {t \in Servers : call[t].at # "idle"}
Slack == asked - Cardinality(Busy)
Counted ==
  /\ Slack \in Nat
  /\ \A l \in Links : link[l].count <= Slack
  /\ \A t \in Servers : call[t].of.count <= Slack
Limited == UpTo(attempts, clock) /\ Len(attempts) <= Block

LEMMA BusyAfter ==
  ASSUME ShareTypes, NEW t \in Servers, NEW c \in ShareCall, call' = [call EXCEPT ![t] = c]
  PROVE  /\ Cardinality(Busy) \in Nat /\ Cardinality(Busy') \in Nat
         /\ (call[t].at = "idle" <=> c.at = "idle") => Cardinality(Busy') = Cardinality(Busy)
         /\ call[t].at = "idle" /\ c.at # "idle" => Cardinality(Busy') = Cardinality(Busy) + 1
         /\ call[t].at # "idle" /\ c.at = "idle" => Cardinality(Busy') = Cardinality(Busy) - 1
  <1>1. call'[t] = c /\ \A o \in Servers \ {t} : call'[o] = call[o]
    BY DEF ShareTypes
  <1>2. /\ Busy \in SUBSET Servers /\ Busy' \in SUBSET Servers /\ Busy \ {t} = Busy' \ {t}
        /\ t \in Busy <=> call[t].at # "idle"
        /\ t \in Busy' <=> c.at # "idle"
    BY <1>1 DEF Busy
  <1> QED
    BY <1>2, ShareAssumption, CountMoves

\* a call comes, goes on or ends, with the row it read or one it saved
LEMMA CountedStep ==
  ASSUME ShareTypes, Counted, NEW t \in Servers, NEW c \in ShareCall, call' = [call EXCEPT ![t] = c],
         ShareTypes',
         \/ call[t] = NoCall /\ asked' = asked + 1 /\ c.of.count <= Slack
            /\ \A l \in Links : link'[l].count <= Slack
         \/ call[t].at # "idle" /\ asked' = asked /\ c.of.count <= Slack
            /\ \A l \in Links : link'[l].count <= Slack
         \/ call[t].at # "idle" /\ asked' = asked /\ c = NoCall
            /\ \A l \in Links : link'[l].count <= Slack + 1
  PROVE  Counted'
  <1> DEFINE s == Slack
             z == Slack'
  <1>0. /\ asked \in Nat /\ asked' \in Nat /\ s \in Nat /\ NoCall.at = "idle" /\ NoCall.of.count = 0
        /\ link' \in [Links -> LinkRow] /\ c.of.count \in Nat
        /\ \A o \in Servers : call[o].of.count <= s /\ call[o].of.count \in Nat
    <2>1. \A o \in Servers : call[o].of.count <= s /\ call[o].of.count \in Nat
      BY DEF Counted, ShareTypes, ShareCall, LinkRow
    <2>2. NoCall.at = "idle" /\ NoCall.of.count = 0
      BY DEF NoCall, NoLink
    <2> QED
      BY <2>1, <2>2, ShareAssumption DEF ShareTypes, Counted, ShareCall, LinkRow
  <1>1. call'[t] = c /\ \A o \in Servers \ {t} : call'[o] = call[o]
    BY DEF ShareTypes
  <1>2. z = asked' - Cardinality(Busy') /\ s = asked - Cardinality(Busy)
    BY DEF Slack
  <1>a. \A l \in Links : link'[l].count \in Nat
    BY <1>0 DEF LinkRow
  <1> DEFINE b == Cardinality(Busy)
             d == Cardinality(Busy')
  <1>b. /\ b \in Nat /\ d \in Nat
        /\ (call[t].at = "idle" <=> c.at = "idle") => d = b
        /\ call[t].at = "idle" /\ c.at # "idle" => d = b + 1
        /\ call[t].at # "idle" /\ c.at = "idle" => d = b - 1
    BY BusyAfter
  <1>c. z = asked' - d /\ s = asked - b
    BY <1>2
  <1> HIDE DEF s, z, b, d
  <1>3. CASE call[t] = NoCall
    <2>0. c.of.count <= s /\ asked' = asked + 1 /\ \A l \in Links : link'[l].count <= s
      BY <1>0, <1>3 DEF s
    <2>1. z >= s /\ z \in Nat
      BY <1>0, <1>3, <1>b, <1>c, <2>0
    <2>2. c.of.count <= z /\ (\A l \in Links : link'[l].count <= z)
      BY <1>0, <1>a, <2>0, <2>1
    <2>3. \A o \in Servers : call'[o].of.count <= z
      BY <1>0, <1>1, <2>1, <2>2
    <2> QED
      BY <2>1, <2>2, <2>3 DEF Counted, z
  <1>4. CASE call[t].at # "idle" /\ c.of.count <= s /\ asked' = asked /\ \A l \in Links : link'[l].count <= s
    <2>1. z >= s /\ z \in Nat
      BY <1>0, <1>4, <1>b, <1>c
    <2>2. c.of.count <= z /\ (\A l \in Links : link'[l].count <= z)
      BY <1>0, <1>4, <1>a, <2>1
    <2>3. \A o \in Servers : call'[o].of.count <= z
      BY <1>0, <1>1, <2>1, <2>2
    <2> QED
      BY <2>1, <2>2, <2>3 DEF Counted, z
  <1>5. CASE call[t].at # "idle" /\ asked' = asked /\ c = NoCall /\ \A l \in Links : link'[l].count <= s + 1
    <2>1. z = s + 1 /\ z \in Nat
      BY <1>0, <1>5, <1>b, <1>c
    <2>2. c.of.count <= z /\ (\A l \in Links : link'[l].count <= z)
      BY <1>0, <1>5, <2>1
    <2>3. \A o \in Servers : call'[o].of.count <= z
      BY <1>0, <1>1, <2>1, <2>2
    <2> QED
      BY <2>1, <2>2, <2>3 DEF Counted, z
  <1> QED
    BY <1>0, <1>3, <1>4, <1>5 DEF s

LEMMA CountedKept ==
  ASSUME ShareTypes, Counted, NEW t \in Servers, Share(t)
  PROVE  Counted'
  <1> DEFINE c0 == call[t]
  <1>0. /\ ShareTypes' /\ c0 \in ShareCall /\ Proper(c0, link) /\ NoCall \in ShareCall /\ NoCall.at = "idle"
        /\ NoCall.of.count = 0 /\ NoLink.count = 0 /\ Slack \in Nat /\ c0.of.count <= Slack /\ c0.of.count \in Nat
        /\ link \in [Links -> LinkRow] /\ \A l \in Links : link[l].count <= Slack /\ link[l].count \in Nat
    <2>1. /\ c0.of.count <= Slack /\ c0.of.count \in Nat /\ link \in [Links -> LinkRow]
          /\ \A l \in Links : link[l].count <= Slack /\ link[l].count \in Nat
      BY DEF Counted, ShareTypes, ShareCall, LinkRow
    <2>2. NoCall.at = "idle" /\ NoCall.of.count = 0 /\ NoLink.count = 0
      BY DEF NoCall, NoLink
    <2>3. c0 \in ShareCall /\ Proper(c0, link) /\ Slack \in Nat
      BY DEF ShareTypes, Counted
    <2> QED
      BY <2>1, <2>2, <2>3, ShareCallTypes, NoCallTyped
  <1>1. ASSUME NEW l \in Links, NEW x \in Terms, CreateLink(t, l, x) PROVE Counted'
    <2>1. call' = [call EXCEPT ![t] = NoCall] /\ call[t] = NoCall /\ asked' = asked + 1
      BY <1>1 DEF CreateLink, ShareTypes
    <2>2. link'[l].count = 0 /\ \A k \in Links \ {l} : link'[k] = link[k]
      BY <1>0, <1>1 DEF CreateLink, NoLink
    <2> QED
      BY <1>0, <2>1, <2>2, CountedStep
  <1>2. ASSUME NEW l \in Links, RevokeRead(t, l) PROVE Counted'
    <2> DEFINE c == [NoCall EXCEPT !.at = "revoke", !.on = l, !.of = link[l]]
    <2>1. call[t] = NoCall /\ asked' = asked + 1 /\ call' = [call EXCEPT ![t] = c] /\ link' = link
      BY <1>2 DEF RevokeRead, Ask
    <2>2. c \in ShareCall /\ c.of = link[l]
      BY <1>0 DEF ShareCall, CallLabels, NoCall
    <2> HIDE DEF c
    <2> QED
      BY <1>0, <2>1, <2>2, CountedStep
  <1>3. ASSUME NEW l \in Links, NEW v \in Visitors, NEW w \in Wants, Visit(t, l, v, w) PROVE Counted'
    <2> DEFINE c == [NoCall EXCEPT !.at = "read", !.on = l, !.who = v, !.want = w, !.late = l \in ended]
    <2>0. (l \in ended) \in BOOLEAN
      OBVIOUS
    <2>1. call[t] = NoCall /\ asked' = asked + 1 /\ call' = [call EXCEPT ![t] = c] /\ link' = link
      BY <1>3 DEF Visit, Ask
    <2>2. c \in ShareCall
      BY <1>0, <2>0 DEF ShareCall, CallLabels
    <2>3. c.of = NoLink
      BY DEF NoCall
    <2> HIDE DEF c
    <2> QED
      BY <1>0, <2>1, <2>2, <2>3, CountedStep
  <1>4. CASE RevokeSave(t)
    <2>1. /\ call' = [call EXCEPT ![t] = NoCall] /\ c0.at # "idle" /\ asked' = asked /\ c0.on \in Links
          /\ c0.of \in LinkRow
      BY <1>0, <1>4 DEF RevokeSave, Turn, Proper, ShareCall
    <2>2. [c0.of EXCEPT !.revoked = TRUE].count = c0.of.count
      BY <2>1 DEF LinkRow
    <2>3. \A l \in Links : link'[l].count <= Slack + 1
      <3>1. link' = link \/ link' = [link EXCEPT ![c0.on] = [c0.of EXCEPT !.revoked = TRUE]]
        BY <1>4 DEF RevokeSave, SaveLink
      <3>2. \A l \in Links : link'[l].count \in {link[l].count, c0.of.count}
        BY <1>0, <2>1, <2>2, <3>1
      <3> QED
        BY <1>0, <3>2
    <2> QED
      BY <1>0, <2>1, <2>3, CountedStep
  <1>5. CASE AuthoriseRead(t)
    <2>1. PICK a \in {"pinIp", "fail", "pinUa", "resolve"} :
             call' = [call EXCEPT ![t] = [c0 EXCEPT !.of = link[c0.on], !.at = a]]
      BY <1>5 DEF AuthoriseRead, Turn
    <2> DEFINE c == [c0 EXCEPT !.of = link[c0.on], !.at = a]
    <2>2. c0.on \in Links /\ c0.at # "idle" /\ asked' = asked /\ link' = link
      BY <1>0, <1>5 DEF AuthoriseRead, Proper, Turn
    <2>3. c \in ShareCall /\ c.of = link[c0.on]
      BY <1>0, <2>2 DEF ShareCall, CallLabels
    <2>4. call' = [call EXCEPT ![t] = c]
      BY <2>1
    <2> HIDE DEF c
    <2> QED
      BY <1>0, <2>2, <2>3, <2>4, CountedStep
  <1>6. CASE PinIp(t) \/ PinUa(t)
    <2>1. c0.on \in Links /\ c0.who \in Visitors /\ c0.of \in LinkRow /\ c0.at # "idle" /\ asked' = asked
      BY <1>0, <1>6 DEF PinIp, PinUa, Proper, ShareCall, Turn
    <2>2. PICK r \in LinkRow, a \in {"fail", "pinUa", "resolve"} :
             /\ r.count = c0.of.count
             /\ link' = [link EXCEPT ![c0.on] = r]
             /\ call' = [call EXCEPT ![t] = [c0 EXCEPT !.of = r, !.at = a]]
      <3>0. c0.who.ip \in Nets /\ c0.who.ua \in Browsers
        BY <2>1 DEF Nets, Browsers
      <3>1. /\ [c0.of EXCEPT !.ip = c0.who.ip] \in LinkRow
            /\ [c0.of EXCEPT !.ua = c0.who.ua] \in LinkRow
        BY <2>1, <3>0, CopyTyped
      <3>2. /\ [c0.of EXCEPT !.ip = c0.who.ip].count = c0.of.count
            /\ [c0.of EXCEPT !.ua = c0.who.ua].count = c0.of.count
        BY <2>1 DEF LinkRow
      <3>3. CASE PinIp(t)
        BY <3>1, <3>2, <3>3 DEF PinIp, SaveLink, Turn
      <3>4. CASE PinUa(t)
        BY <3>1, <3>2, <3>4 DEF PinUa, SaveLink, Turn
      <3> QED
        BY <1>6, <3>3, <3>4
    <2> DEFINE c == [c0 EXCEPT !.of = r, !.at = a]
    <2>3. c \in ShareCall /\ c.of = r
      BY <1>0 DEF ShareCall, CallLabels
    <2>4. call' = [call EXCEPT ![t] = c]
      BY <2>2
    <2> HIDE DEF c
    <2>5. \A l \in Links : link'[l].count <= Slack
      BY <1>0, <2>1, <2>2
    <2> QED
      BY <1>0, <2>1, <2>2, <2>3, <2>4, <2>5, CountedStep
  <1>7. CASE Resolve(t)
    <2> DEFINE c == [c0 EXCEPT !.at = "count"]
    <2>1. c0.at # "idle" /\ asked' = asked /\ link' = link
      BY <1>7 DEF Resolve, Turn
    <2>2. c \in ShareCall /\ c.of = c0.of
      BY <1>0 DEF ShareCall, CallLabels
    <2>3. PICK d \in {c, NoCall} : call' = [call EXCEPT ![t] = d]
      BY <1>7 DEF Resolve, Turn
    <2> HIDE DEF c
    <2>4. d \in ShareCall /\ d.of.count <= Slack
      BY <1>0, <2>2, <2>3
    <2> QED
      BY <1>0, <2>1, <2>3, <2>4, CountedStep
  <1>8. CASE RecordAccess(t)
    <2>1. /\ call' = [call EXCEPT ![t] = NoCall] /\ c0.at # "idle" /\ asked' = asked /\ c0.on \in Links
          /\ c0.of \in LinkRow /\ link' = [link EXCEPT ![c0.on] = [c0.of EXCEPT !.count = @ + 1]]
      BY <1>0, <1>8 DEF RecordAccess, SaveLink, Turn, Proper, ShareCall
    <2>2. [c0.of EXCEPT !.count = @ + 1].count = c0.of.count + 1
      BY <2>1 DEF LinkRow
    <2>3. \A l \in Links : link'[l].count <= Slack + 1
      BY <1>0, <2>1, <2>2
    <2> QED
      BY <1>0, <2>1, <2>3, CountedStep
  <1>9. CASE Fail(t)
    <2>1. call' = [call EXCEPT ![t] = NoCall] /\ c0.at # "idle" /\ asked' = asked /\ link' = link
      BY <1>9 DEF Fail, Turn
    <2>2. NoCall.of.count <= Slack
      BY <1>0
    <2> QED
      BY <1>0, <2>1, <2>2, CountedStep
  <1> QED
    BY <1>1, <1>2, <1>3, <1>4, <1>5, <1>6, <1>7, <1>8, <1>9 DEF Share

LEMMA SharesStayInBounds ==
  ASSUME ShareTypes, Counted, Limited, [ShareNext]_shareVars
  PROVE  Counted' /\ Limited'
  <1>0. clock \in Int /\ ShareTypes' /\ clock' \in Int
    BY ShareStepTypes, LimiterAssumption DEF ShareTypes
  <1>1. ASSUME NEW t \in Servers, Share(t) PROVE Counted' /\ Limited'
    <2>1. clock' = clock /\ (Record \/ UNCHANGED attempts)
      BY <1>1 DEF Share, CreateLink, RevokeRead, Visit, RevokeSave, AuthoriseRead, PinIp, PinUa, Resolve,
                  RecordAccess, Fail
    <2>2. UpTo(attempts', clock') /\ Len(attempts') <= Block
      BY <1>0, <2>1, Recorded DEF Limited
    <2> QED
      BY <1>1, <2>2, CountedKept DEF Limited
  <1>2. ASSUME NEW l \in Links, Toggle(l) PROVE Counted' /\ Limited'
    <2>1. /\ asked' = asked + 1 /\ UNCHANGED <<clock, attempts, link, call>>
      BY <1>2 DEF Toggle
    <2>2. asked \in Nat /\ Slack \in Nat /\ (\A k \in Links : link[k].count \in Nat)
          /\ \A t \in Servers : call[t].of.count \in Nat
      BY ShareAssumption DEF ShareTypes, Counted, LinkRow, ShareCall
    <2>3. Slack' = Slack + 1
      <3>1. Busy' = Busy /\ Cardinality(Busy) \in Nat
        <4>1. IsFiniteSet(Servers) /\ Busy \subseteq Servers
          BY ShareAssumption DEF Busy
        <4> QED
          BY <2>1, <4>1, FS_Subset, FS_CardinalityType DEF Busy
      <3> QED
        BY <2>1, <2>2, <3>1 DEF Slack
    <2>4. /\ \A k \in Links : link[k].count <= Slack + 1
          /\ \A t \in Servers : call[t].of.count <= Slack + 1
      BY <2>2 DEF Counted
    <2> QED
      BY <2>1, <2>2, <2>3, <2>4 DEF Counted, Limited
  <1>3. CASE Elapse
    <2>1. clock' = clock + 1 /\ UNCHANGED <<attempts, link, call, asked>>
      BY <1>3 DEF Elapse
    <2>2. Limited'
      BY <1>0, <2>1, UpToLater DEF Limited
    <2>3. Counted'
      BY <2>1 DEF Counted, Slack, Busy
    <2> QED
      BY <2>2, <2>3
  <1>4. CASE UNCHANGED shareVars
    BY <1>4 DEF shareVars, Counted, Limited, Slack, Busy
  <1> QED
    BY <1>1, <1>2, <1>3, <1>4 DEF ShareNext
-----------------------------------------------------------------------------
(* The three parts together: the limiter's state is common to two of them. *)

PartsInv ==
  /\ SessionInv /\ AccountInv /\ ShareInv /\ Counted /\ Limited
  /\ part # "shares" => PaceInv

LEMMA InitPartsInv == MCInit => PartsInv
  <1> SUFFICES ASSUME MCInit PROVE PartsInv
    OBVIOUS
  <1>1. SessionInv /\ AccountInv /\ PaceInv /\ ShareInv
    BY InitSessionInv, InitAccountInv, InitShareInv DEF MCInit
  <1>2. Counted
    <2>1. NoCall.at = "idle" /\ NoCall.of.count = 0 /\ NoLink.count = 0
      BY DEF NoCall, NoLink
    <2>2. asked = 0 /\ (\A l \in Links : link[l] = NoLink) /\ \A t \in Servers : call[t] = NoCall
      BY DEF MCInit, ShareInit
    <2>3. Busy = {}
      BY <2>1, <2>2 DEF Busy
    <2>4. Slack = 0
      BY <2>2, <2>3, FS_EmptySet DEF Slack
    <2> QED
      BY <2>1, <2>2, <2>4 DEF Counted
  <1> QED
    BY <1>1, <1>2 DEF PartsInv, Limited, PaceInv

LEMMA PartsInvKept == PartsInv /\ [MCNext]_accessVars => PartsInv'
  <1> SUFFICES ASSUME PartsInv, [MCNext]_accessVars PROVE PartsInv'
    OBVIOUS
  <1>0. ShareTypes /\ AccountTypes /\ AccountBooks
    BY DEF PartsInv, ShareInv, AccountInv, AccountTypes
  <1>1. CASE UNCHANGED accessVars \/ InSessions(SessionNext)
    <2>1. /\ [SessionNext]_sessionVars /\ UNCHANGED accountVars /\ UNCHANGED shareVars /\ part' = part
      BY <1>1 DEF InSessions, accessVars
    <2>2. [AccountNext]_accountVars /\ [ShareNext]_shareVars
      BY <2>1
    <2>3. SessionInv' /\ AccountInv' /\ (PaceInv => PaceInv') /\ ShareInv'
      BY <2>1, <2>2, SessionInvKept, AccountInvKept, ShareInvKept DEF PartsInv
    <2>4. Counted' /\ Limited'
      BY <1>0, <2>2, SharesStayInBounds DEF PartsInv
    <2> QED
      BY <2>1, <2>3, <2>4 DEF PartsInv
  <1>2. CASE InAccounts(AccountNext)
    <2>1. /\ part = "accounts" /\ part' = part /\ [AccountNext]_accountVars /\ UNCHANGED sessionVars
          /\ UNCHANGED <<link, available, call, asked, ended, overlaid, served>>
      BY <1>2 DEF InAccounts
    <2>2. SessionInv' /\ AccountInv' /\ PaceInv'
      BY <2>1, SessionInvKept, AccountInvKept DEF PartsInv
    <2>3. clock' \in 0..Ticks
      BY <2>2 DEF AccountInv, AccountTypes, AccountBooks
    <2>4. ShareTypes'
      BY <1>0, <2>1, <2>3 DEF ShareTypes
    <2>5. ShareInv'
      BY <2>1, <2>4 DEF PartsInv, ShareInv, Unminted, LateAfterEnd, CopiesAgree, VisitsInTerms, Agrees, Passed
    <2>6. Counted'
      BY <2>1 DEF PartsInv, Counted, Slack, Busy
    <2>7. Limited'
      BY <2>2 DEF PaceInv, Limited
    <2> QED
      BY <2>2, <2>5, <2>6, <2>7 DEF PartsInv
  <1>3. CASE InShares(ShareNext)
    <2>1. /\ part = "shares" /\ part' = part /\ [ShareNext]_shareVars /\ UNCHANGED sessionVars
          /\ UNCHANGED <<row, signed, tokens, job, issued, handled, intended, spent, reused, lost, guesses>>
      BY <1>3 DEF InShares
    <2>2. SessionInv' /\ ShareInv' /\ Counted' /\ Limited'
      BY <1>0, <2>1, SessionInvKept, ShareInvKept, SharesStayInBounds DEF PartsInv
    <2>3. clock' \in 0..Ticks
      BY <2>2 DEF ShareInv, ShareTypes
    <2>4. AccountBooks'
      BY <1>0, <2>1, <2>3 DEF AccountBooks
    <2>5. AccountInv'
      BY <2>1, <2>4, NothingMovesKeeps DEF PartsInv
    <2> QED
      BY <2>1, <2>2, <2>5 DEF PartsInv
  <1> QED
    BY <1>1, <1>2, <1>3 DEF MCNext

LEMMA AccessFromInv == PartsInv => AccessInv
  <1> SUFFICES ASSUME PartsInv PROVE AccessInv
    OBVIOUS
  <1>1. SessionTypeOK /\ RevokedStaysOut
    BY SessionsFromInv DEF PartsInv
  <1>2. AccountTypeOK
    <2>1. AccountTypes /\ AccountBooks /\ Len(attempts) <= Block
      BY DEF PartsInv, AccountInv, AccountTypes, Limited
    <2>2. \A u \in Users : /\ row[u].pw \in Passwords \cup {0} /\ row[u].totp \in 0..(MaxIssued + 1)
                          /\ row[u].must \in BOOLEAN /\ row[u].fails \in Nat /\ row[u].until \in Nat
      BY <2>1 DEF AccountBooks, AccRow, Serials
    <2>3. \A x \in signed : x.id \in Begun \cup {0} /\ x.user \in Users /\ x.must \in BOOLEAN
      <3>1. Serials = Begun \cup {0}
        BY AccountAssumption DEF Serials, Begun
      <3> QED
        BY <2>1, <3>1 DEF AccountBooks
    <2>4. \A t \in Threads : /\ job[t].at \in JobLabels
                            /\ job[t].then \in {"end", "save", "admit", "open", "unforce"}
      BY <2>1 DEF AccountTypes, Job
    <2> QED
      BY <2>1, <2>2, <2>3, <2>4 DEF AccountTypeOK, AccountBooks, JobLabels
  <1>3. ShareTypeOK
    <2>1. ShareTypes /\ Len(attempts) <= Block /\ Counted
      BY DEF PartsInv, ShareInv, Limited
    <2>2. \A l \in Links : link[l].kind \in {"none", "clip", "camera"} /\ link[l].count \in 0..MaxAsked
      <3>1. /\ asked \in Nat /\ MaxAsked \in Nat /\ asked <= MaxAsked /\ Cardinality(Busy) \in Nat
        <4>1. IsFiniteSet(Servers) /\ Busy \subseteq Servers
          BY ShareAssumption DEF Busy
        <4>2. Cardinality(Busy) \in Nat
          BY <4>1, FS_Subset, FS_CardinalityType
        <4> QED
          BY <2>1, <4>2, ShareAssumption DEF ShareTypes
      <3>2. Slack \in Nat /\ Slack <= MaxAsked
        BY <2>1, <3>1 DEF Slack, Counted
      <3>3. \A l \in Links : link[l].kind \in {"none", "clip", "camera"} /\ link[l].count \in Nat
        BY <2>1 DEF ShareTypes, LinkRow
      <3> QED
        BY <2>1, <3>1, <3>2, <3>3 DEF Counted
    <2>3. \A t \in Servers : call[t].at \in CallLabels
      BY <2>1 DEF ShareTypes, ShareCall
    <2> QED
      BY <2>1, <2>2, <2>3 DEF ShareTypeOK, ShareTypes, CallLabels
  <1> QED
    BY <1>1, <1>2, <1>3 DEF AccessInv, MCTypeOK

\* Whichever part a behaviour is about, the values stay in their bounds (no link
\* counts more visits than were asked for, no address more attempts than the
\* block) and a session revoked while nobody used it is never back.
THEOREM AccessStaysSound == MCSpec => []AccessInv
  BY InitPartsInv, PartsInvKept, AccessFromInv, PTL DEF MCSpec
=============================================================================
