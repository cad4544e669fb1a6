--------------------------- MODULE PairingProofs ---------------------------
(***************************************************************************)
(* Theorems about pairing, for every number of initiations, attempts,      *)
(* losses and restarts, and for every number of requests served at a time. *)
(* First the service alone, then the camera and the server together.       *)
(***************************************************************************)
EXTENDS PairingLink, TLAPS

\* Where a PIN is in its life: an initiation that has not happened yet has no
\* secret; an entry that is still pending although its PIN has been honoured is
\* about to be dropped by the handler that honoured it; and a PIN whose
\* exchanges never overlapped has one handler at most, which issues its first
\* secret.
PinReal ==
    /\ \A p \in Pins : p > pins => issued[p] = 0
    /\ \A h \in Handlers : exchange[h].step # "idle" => exchange[h].pin \in Pins

PinGone ==
    \A p \in Pins :
        issued[p] > 0 /\ pend.pin = p =>
            \E h \in Handlers : exchange[h].step = "saved" /\ exchange[h].pin = p

PinOnce ==
    \A p \in Pins \ shared :
        /\ issued[p] <= 1
        /\ \A h \in Handlers :
             exchange[h].pin = p /\ exchange[h].step \in {"valid", "read"} => issued[p] = 0
        /\ \A g, h \in Handlers :
             /\ exchange[g].pin = p /\ exchange[g].step # "idle"
             /\ exchange[h].pin = p /\ exchange[h].step # "idle"
             => g = h

PinLife ==
    /\ generating => pins < MaxPins
    /\ PinReal /\ PinGone /\ PinOnce

ServerInv == ServerTypeOK /\ PinLife

LEMMA LifeMeansOnce == ServerInv => OneSecretPerPin
<1> SUFFICES ASSUME ServerInv, NEW p \in Pins
             PROVE  /\ issued[p] > 1 => p \in shared
                    /\ issued[p] > 0 /\ Honouring(p) = {} => pend.pin # p
  BY DEF OneSecretPerPin
<1>1. issued[p] \in Nat
  BY DEF ServerInv, ServerTypeOK
<1>2. issued[p] > 1 => p \in shared
  BY <1>1 DEF ServerInv, PinLife, PinOnce
<1>3. issued[p] > 0 /\ Honouring(p) = {} => pend.pin # p
  BY DEF ServerInv, PinLife, PinGone, Honouring
<1>4. QED  BY <1>2, <1>3

LEMMA ServerInitInv == ServerInit => ServerInv
<1> SUFFICES ASSUME ServerInit PROVE ServerInv  OBVIOUS
<1>1. row \in Rows
  BY DEF ServerInit, Rows, Absent, None, Statuses, Ages
<1>2. pend \in Pendings
  BY PairingAssumption DEF ServerInit, Pendings, NoPend, None
<1>3. ServerTypeOK
  <2>1. issued \in [Pins -> Nat] /\ revoked \subseteq 1..pins
    BY DEF ServerInit
  <2>2. pins \in 0..MaxPins /\ restarts \in 0..MaxRestarts /\ secrets \in Nat
    BY PairingAssumption DEF ServerInit
  <2>3. certFile \in 0..pins /\ revokedFile \in 0..pins
    BY DEF ServerInit, None
  <2>4. exchange \in [Handlers -> Exchanges] /\ shared \subseteq Pins
    BY DEF ServerInit, Idle, Exchanges, Ages, None
  <2>5. QED  BY <1>1, <1>2, <2>1, <2>2, <2>3, <2>4 DEF ServerInit, ServerTypeOK
<1>4. PinLife
  BY PairingAssumption
     DEF ServerInit, PinLife, PinReal, PinGone, PinOnce, Idle, NoPend, None, Pins
<1>5. QED  BY <1>3, <1>4 DEF ServerInv

\* rows and pending entries stay well formed while the counters grow
LEMMA Grown ==
    ASSUME pins \in Nat, pins' \in Nat, secrets \in Nat, secrets' \in Nat,
           pins <= pins', secrets <= secrets'
    PROVE  /\ Rows \subseteq Rows' /\ Pendings \subseteq Pendings'
           /\ Exchanges \subseteq Exchanges'
<1>1. 0..pins \subseteq 0..pins' /\ 0..secrets \subseteq 0..secrets'
  OBVIOUS
<1>2. QED  BY <1>1 DEF Rows, Pendings, Exchanges

LEMMA InitiateInv ==
    ASSUME ServerInv, InitiateCheck \/ InitiateCommit
    PROVE  ServerInv'
<1>1. CASE InitiateCheck \/ (InitiateCommit /\ UNCHANGED pins)
  <2>1. pins \in Nat
    BY PairingAssumption DEF ServerInv, ServerTypeOK
  <2>2. /\ generating' \in BOOLEAN
        /\ generating' => pins < MaxPins
        /\ UNCHANGED <<row, pend, pins, secrets, issued, exchange, shared, certFile,
                       revokedFile, revoked, restarts>>
    <3>1. CASE InitiateCheck
      <4>1. generating' = TRUE /\ pins < MaxPins
        BY <3>1 DEF InitiateCheck
      <4>2. QED  BY <3>1, <4>1 DEF InitiateCheck, certs
    <3>2. CASE InitiateCommit /\ UNCHANGED pins
      <4>1. generating' = FALSE
        BY <3>2 DEF InitiateCommit
      <4>2. pins + 1 # pins
        BY <2>1
      <4>3. QED  BY <3>2, <4>1, <4>2 DEF InitiateCommit
    <3>3. QED  BY <1>1, <3>1, <3>2
  <2>3. UNCHANGED <<Rows, Pendings, Exchanges>>
    BY <2>2 DEF Rows, Pendings, Exchanges
  <2>4. ServerTypeOK'
    BY <2>2, <2>3 DEF ServerInv, ServerTypeOK
  <2>5. PinLife'
    BY <2>2 DEF ServerInv, PinLife, PinReal, PinGone, PinOnce
  <2>6. QED  BY <2>4, <2>5 DEF ServerInv
<1>2. CASE InitiateCommit /\ pins' # pins
  <2>1. /\ generating /\ generating' = FALSE
        /\ pins' = pins + 1
        /\ certFile' = pins + 1
        /\ pend' = [pin |-> pins + 1, attempts |-> 0, fresh |-> TRUE]
        /\ UNCHANGED <<row, secrets, issued, exchange, shared, revokedFile, revoked,
                       restarts>>
    BY <1>2 DEF InitiateCommit
  <2>2. pins \in Nat /\ pins + 1 \in 1..MaxPins /\ secrets \in Nat
    BY <2>1, PairingAssumption DEF ServerInv, ServerTypeOK, PinLife
  <2>3. row' \in Rows' /\ exchange' \in [Handlers -> Exchanges']
    BY <2>1, <2>2, Grown DEF ServerInv, ServerTypeOK
  <2>4. pend' \in Pendings'
    BY <2>1, <2>2, PairingAssumption DEF Pendings
  <2>5. ServerTypeOK'
    <3>1. 0..pins \subseteq 0..pins' /\ 1..pins \subseteq 1..pins' /\ pins' \in 0..pins'
      BY <2>1, <2>2
    <3>2. pins' \in 0..MaxPins
      BY <2>1, <2>2, PairingAssumption
    <3>3. QED  BY <2>1, <2>3, <2>4, <3>1, <3>2 DEF ServerInv, ServerTypeOK
  <2>6. PinReal' /\ PinOnce'
    BY <2>1, <2>2, PairingAssumption
       DEF ServerInv, ServerTypeOK, PinLife, PinReal, PinOnce, Pins
  <2>7. PinGone'
    BY <2>1, <2>2 DEF ServerInv, ServerTypeOK, PinLife, PinReal, PinGone, Pins
  <2>8. QED  BY <2>1, <2>5, <2>6, <2>7 DEF ServerInv, PinLife
<1>3. QED  BY <1>1, <1>2

\* steps that change only the pending entry, and that keep or drop its PIN
LEMMA PendingInv ==
    ASSUME ServerInv,
           pend' \in Pendings,
           pend'.pin \in {None, pend.pin},
           UNCHANGED <<row, pins, secrets, issued, generating, exchange, shared, certs,
                       restarts>>
    PROVE  ServerInv'
<1>1. ServerTypeOK'
  <2>1. row' \in Rows' /\ pend' \in Pendings' /\ exchange' \in [Handlers -> Exchanges']
    BY DEF ServerInv, ServerTypeOK, Rows, Pendings, Exchanges
  <2>2. QED  BY <2>1 DEF ServerInv, ServerTypeOK, certs
<1>2. PinLife'
  BY DEF ServerInv, PinLife, PinReal, PinGone, PinOnce, None, Pins
<1>3. QED  BY <1>1, <1>2 DEF ServerInv

LEMMA PinStepsInv ==
    ASSUME ServerInv,
           \/ PinExpires \/ GetPendingPairing
           \/ \E pin \in Nat : ExchangeRefused(pin)
    PROVE  ServerInv'
<1>1. pend \in Pendings /\ NoPend \in Pendings /\ NoPend.pin = None
  BY PairingAssumption DEF ServerInv, ServerTypeOK, Pendings, NoPend, None
<1>2. pend.attempts < MaxAttempts =>
        /\ [pend EXCEPT !.attempts = @ + 1] \in Pendings
        /\ [pend EXCEPT !.attempts = @ + 1].pin = pend.pin
  BY <1>1, PairingAssumption DEF Pendings
<1>3. CASE PinExpires
  <2>1. pend' \in Pendings /\ pend'.pin = pend.pin
    BY <1>1, <1>3 DEF PinExpires, Pendings
  <2>2. QED  BY <1>3, <2>1, PendingInv DEF PinExpires
<1>4. CASE GetPendingPairing
  BY <1>1, <1>4, PendingInv DEF GetPendingPairing
<1>5. ASSUME NEW pin \in Nat, ExchangeRefused(pin)
      PROVE  ServerInv'
  <2>1. pend' \in Pendings /\ pend'.pin \in {None, pend.pin}
    BY <1>1, <1>2, <1>5 DEF ExchangeRefused
  <2>2. QED  BY <1>5, <2>1, PendingInv DEF ExchangeRefused
<1>6. QED  BY <1>3, <1>4, <1>5

\* a handler takes up a PIN: unless another one has it too, the PIN has issued
\* nothing yet
LEMMA AcceptInv ==
    ASSUME ServerInv, NEW h \in Handlers, NEW pin \in Pins, ExchangeAccepted(h, pin)
    PROVE  ServerInv'
<1>0. /\ pend \in Pendings /\ exchange \in [Handlers -> Exchanges]
      /\ pins \in 0..MaxPins /\ secrets \in Nat /\ issued \in [Pins -> Nat]
      /\ exchange[h] = Idle
  BY DEF ServerInv, ServerTypeOK, ExchangeAccepted
<1> DEFINE taken == [Idle EXCEPT !.step = "valid", !.pin = pin]
<1>1. /\ taken \in Exchanges /\ taken.step = "valid" /\ taken.pin = pin
  <2>1. pin \in 0..pins
    BY <1>0 DEF ExchangeAccepted, Pendings
  <2>2. QED  BY <1>0, <2>1 DEF Exchanges, Idle, Ages, None
<1>2. /\ exchange' = [exchange EXCEPT ![h] = taken]
      /\ pin = pend.pin
      /\ UNCHANGED <<row, pins, secrets, issued, generating, certs, restarts>>
      /\ shared' = IF Honouring(pin) = {} THEN shared ELSE shared \cup {pin}
  BY DEF ExchangeAccepted
<1>3. pend' \in Pendings /\ pend'.pin = pin
  BY <1>0, PairingAssumption DEF ExchangeAccepted, Pendings
<1>4. ServerTypeOK'
  <2>1. UNCHANGED <<Rows, Pendings, Exchanges>>
    BY <1>2 DEF Rows, Pendings, Exchanges
  <2>2. exchange' \in [Handlers -> Exchanges]
    BY <1>0, <1>1, <1>2
  <2>3. shared' \subseteq Pins
    BY <1>2 DEF ServerInv, ServerTypeOK
  <2>4. QED  BY <1>2, <1>3, <2>1, <2>2, <2>3 DEF ServerInv, ServerTypeOK, certs
<1> HIDE DEF taken
<1>5. /\ exchange'[h] = taken
      /\ \A g \in Handlers : g # h => exchange'[g] = exchange[g]
  BY <1>0, <1>2
<1>6. PinReal'
  BY <1>1, <1>2, <1>5 DEF ServerInv, PinLife, PinReal
<1>7. PinGone'
  <2> SUFFICES ASSUME NEW p \in Pins, issued[p] > 0, pend.pin = p
               PROVE  \E g \in Handlers : exchange'[g].step = "saved" /\ exchange'[g].pin = p
    BY <1>2, <1>3 DEF PinGone
  <2>1. PICK g \in Handlers : exchange[g].step = "saved" /\ exchange[g].pin = p
    BY DEF ServerInv, PinLife, PinGone
  <2>2. g # h
    BY <1>0, <2>1 DEF Idle
  <2>3. QED  BY <1>5, <2>1, <2>2
<1>8. PinOnce'
  <2> SUFFICES ASSUME NEW p \in Pins, p \notin shared'
               PROVE  /\ issued[p] <= 1
                      /\ \A g \in Handlers :
                           exchange'[g].pin = p /\ exchange'[g].step \in {"valid", "read"}
                             => issued[p] = 0
                      /\ \A f, g \in Handlers :
                           /\ exchange'[f].pin = p /\ exchange'[f].step # "idle"
                           /\ exchange'[g].pin = p /\ exchange'[g].step # "idle"
                           => f = g
    BY <1>2 DEF PinOnce
  <2>1. p \notin shared
    BY <1>2
  <2>2. CASE p # pin
    BY <1>1, <1>5, <2>1, <2>2 DEF ServerInv, PinLife, PinOnce
  <2>3. CASE p = pin
    <3>1. Honouring(pin) = {}
      BY <1>2, <2>3
    <3>2. \A g \in Handlers : ~(exchange[g].step # "idle" /\ exchange[g].pin = pin)
      BY <3>1 DEF Honouring
    <3>3. issued[pin] = 0
      BY <1>0, <1>2, <3>2 DEF ServerInv, PinLife, PinGone
    <3>4. \A g \in Handlers : exchange'[g].pin = p /\ exchange'[g].step # "idle" => g = h
      BY <1>5, <2>3, <3>2
    <3>5. QED  BY <2>3, <3>3, <3>4
  <2>4. QED  BY <2>2, <2>3
<1>9. QED  BY <1>2, <1>4, <1>6, <1>7, <1>8 DEF ServerInv, PinLife

LEMMA ReadInv ==
    ASSUME ServerInv, NEW h \in Handlers, ExchangeRead(h)
    PROVE  ServerInv'
<1>0. /\ exchange \in [Handlers -> Exchanges] /\ row \in Rows
      /\ exchange[h].step = "valid"
      /\ UNCHANGED <<row, pend, pins, secrets, issued, generating, shared, certs, restarts>>
  BY DEF ServerInv, ServerTypeOK, ExchangeRead
<1>1. /\ \A g \in Handlers : g # h => exchange'[g] = exchange[g]
      /\ \/ exchange'[h] = Idle
         \/ exchange'[h] = [exchange[h] EXCEPT !.step = "read", !.seen = row.seen]
  BY <1>0 DEF ExchangeRead
<1>2. /\ exchange'[h].step \in {"idle", "read"}
      /\ exchange'[h].step # "idle" => exchange'[h].pin = exchange[h].pin
      /\ exchange'[h] \in Exchanges
      /\ DOMAIN exchange' = Handlers
  <2>1. Idle \in Exchanges /\ Idle.step = "idle"
    BY PairingAssumption DEF ServerInv, ServerTypeOK, Idle, Exchanges, Ages, None
  <2>2. row.seen \in Ages
    BY <1>0 DEF Rows
  <2>3. exchange[h] \in Exchanges
    BY <1>0
  <2>4. DOMAIN exchange' = Handlers
    BY <1>0 DEF ExchangeRead
  <2>5. QED  BY <1>1, <2>1, <2>2, <2>3, <2>4 DEF Exchanges
<1>3. ServerTypeOK'
  <2>1. UNCHANGED <<Rows, Pendings, Exchanges>>
    BY <1>0 DEF Rows, Pendings, Exchanges
  <2>2. exchange' \in [Handlers -> Exchanges]
    <3>1. \A g \in Handlers : exchange'[g] \in Exchanges
      BY <1>0, <1>1, <1>2
    <3>2. exchange' = [g \in Handlers |-> exchange'[g]]
      BY <1>0 DEF ExchangeRead
    <3>3. QED  BY <3>1, <3>2
  <2>3. QED  BY <1>0, <2>1, <2>2 DEF ServerInv, ServerTypeOK, certs
<1>4. PinReal' /\ PinOnce'
  BY <1>0, <1>1, <1>2 DEF ServerInv, PinLife, PinReal, PinOnce
<1>5. PinGone'
  BY <1>0, <1>1 DEF ServerInv, PinLife, PinGone
<1>6. QED  BY <1>0, <1>3, <1>4, <1>5 DEF ServerInv, PinLife

LEMMA SaveInv ==
    ASSUME ServerInv, NEW h \in Handlers, ExchangeSave(h)
    PROVE  ServerInv' /\ secrets' = secrets + 1 /\ pins' = pins
<1> DEFINE pin == exchange[h].pin
           done == [exchange[h] EXCEPT !.step = "saved", !.secret = secrets + 1]
<1>0. /\ exchange \in [Handlers -> Exchanges] /\ secrets \in Nat /\ pins \in Nat
      /\ issued \in [Pins -> Nat]
      /\ exchange[h] \in Exchanges
      /\ exchange[h].step = "read"
      /\ secrets' = secrets + 1
      /\ issued' = [issued EXCEPT ![pin] = @ + 1]
      /\ exchange' = [exchange EXCEPT ![h] = done]
      /\ UNCHANGED <<pend, pins, generating, shared, certs, restarts>>
  <2>1. pins \in Nat
    BY PairingAssumption DEF ServerInv, ServerTypeOK
  <2>2. QED  BY <2>1 DEF ServerInv, ServerTypeOK, ExchangeSave
<1>1. pin \in Pins /\ pin \in 0..pins
  BY <1>0 DEF ServerInv, PinLife, PinReal, Exchanges
<1>2. /\ done.step = "saved" /\ done.pin = pin
      /\ done \in Exchanges'
  <2>1. /\ exchange[h] \in [step : {"idle", "valid", "read", "saved"}, pin : 0..pins',
                              seen : Ages, secret : 0..secrets']
        /\ secrets + 1 \in 0..secrets'
    BY <1>0, Grown DEF Exchanges
  <2>2. QED  BY <2>1 DEF Exchanges
<1>3. Rows \subseteq Rows' /\ Pendings \subseteq Pendings' /\ Exchanges \subseteq Exchanges'
  BY <1>0, Grown
<1>4. row' \in Rows'
  <2>1. row' = [status |-> "online", secret |-> secrets + 1, serial |-> pin,
                seen |-> exchange[h].seen]
    BY DEF ExchangeSave
  <2>2. "online" \in Statuses /\ exchange[h].seen \in Ages /\ secrets + 1 \in 0..secrets'
    BY <1>0 DEF Exchanges, Statuses
  <2>3. QED  BY <1>0, <1>1, <2>1, <2>2 DEF Rows
<1> HIDE DEF pin, done
<1>5. ServerTypeOK'
  <2>1. issued' \in [Pins -> Nat]
    BY <1>0, <1>1
  <2>2. exchange' \in [Handlers -> Exchanges']
    BY <1>0, <1>2, <1>3
  <2>3. pend' \in Pendings'
    BY <1>0, <1>3 DEF ServerInv, ServerTypeOK
  <2>4. secrets' \in Nat
    BY <1>0
  <2>5. QED  BY <1>0, <1>4, <2>1, <2>2, <2>3, <2>4 DEF ServerInv, ServerTypeOK, certs
<1>6. /\ exchange'[h] = done
      /\ \A g \in Handlers : g # h => exchange'[g] = exchange[g]
      /\ issued'[pin] = issued[pin] + 1
      /\ \A p \in Pins : p # pin => issued'[p] = issued[p]
  BY <1>0, <1>1
<1>7. PinReal'
  BY <1>0, <1>1, <1>2, <1>6 DEF ServerInv, PinLife, PinReal, Pins
<1>8. PinGone'
  <2> SUFFICES ASSUME NEW p \in Pins, issued'[p] > 0, pend.pin = p
               PROVE  \E g \in Handlers : exchange'[g].step = "saved" /\ exchange'[g].pin = p
    BY <1>0 DEF PinGone
  <2>1. CASE p = pin
    BY <1>2, <1>6, <2>1
  <2>2. CASE p # pin
    <3>1. PICK g \in Handlers : exchange[g].step = "saved" /\ exchange[g].pin = p
      BY <1>6, <2>2 DEF ServerInv, PinLife, PinGone
    <3>2. QED  BY <1>0, <1>6, <3>1
  <2>3. QED  BY <2>1, <2>2
<1>9. PinOnce'
  <2> SUFFICES ASSUME NEW p \in Pins, p \notin shared
               PROVE  /\ issued'[p] <= 1
                      /\ \A g \in Handlers :
                           exchange'[g].pin = p /\ exchange'[g].step \in {"valid", "read"}
                             => issued'[p] = 0
                      /\ \A f, g \in Handlers :
                           /\ exchange'[f].pin = p /\ exchange'[f].step # "idle"
                           /\ exchange'[g].pin = p /\ exchange'[g].step # "idle"
                           => f = g
    BY <1>0 DEF PinOnce
  <2>1. \A g \in Handlers : exchange'[g].pin = exchange[g].pin
    BY <1>2, <1>6 DEF pin
  <2>2. \A g \in Handlers : exchange'[g].step # "idle" => exchange[g].step # "idle"
    BY <1>0, <1>6
  <2>3. \A f, g \in Handlers :
           /\ exchange[f].pin = p /\ exchange[f].step # "idle"
           /\ exchange[g].pin = p /\ exchange[g].step # "idle"
           => f = g
    BY DEF ServerInv, PinLife, PinOnce
  <2>4. CASE p = pin
    <3>1. exchange[h].pin = p /\ exchange[h].step \in {"valid", "read"}
      BY <1>0, <2>4 DEF pin
    <3>2. issued[p] = 0
      BY <3>1 DEF ServerInv, PinLife, PinOnce
    <3>3. \A g \in Handlers : exchange'[g].pin = p /\ exchange'[g].step # "idle" => g = h
      BY <2>1, <2>2, <2>3, <3>1
    <3>4. QED  BY <1>2, <1>6, <2>1, <2>2, <2>3, <2>4, <3>2, <3>3
  <2>5. CASE p # pin
    <3>1. \A g \in Handlers : exchange'[g].pin = p => g # h
      BY <2>1, <2>5 DEF pin
    <3>2. QED  BY <1>6, <2>1, <2>2, <2>3, <2>5, <3>1 DEF ServerInv, PinLife, PinOnce
  <2>6. QED  BY <2>4, <2>5
<1>10. QED  BY <1>0, <1>5, <1>7, <1>8, <1>9 DEF ServerInv, PinLife

LEMMA ForgetInv ==
    ASSUME ServerInv, NEW h \in Handlers, ExchangeForget(h)
    PROVE  ServerInv'
<1>0. /\ exchange \in [Handlers -> Exchanges]
      /\ exchange' = [exchange EXCEPT ![h] = Idle]
      /\ pend' = NoPend
      /\ UNCHANGED <<row, pins, secrets, issued, generating, shared, certs, restarts>>
  BY DEF ServerInv, ServerTypeOK, ExchangeForget
<1>1. /\ Idle \in Exchanges /\ Idle.step = "idle"
      /\ NoPend \in Pendings /\ NoPend.pin = None
  BY PairingAssumption
     DEF ServerInv, ServerTypeOK, Idle, Exchanges, NoPend, Pendings, Ages, None
<1>2. ServerTypeOK'
  <2>1. UNCHANGED <<Rows, Pendings, Exchanges>>
    BY <1>0 DEF Rows, Pendings, Exchanges
  <2>2. QED  BY <1>0, <1>1, <2>1 DEF ServerInv, ServerTypeOK, certs
<1>3. PinReal' /\ PinOnce'
  BY <1>0, <1>1 DEF ServerInv, PinLife, PinReal, PinOnce
<1>4. PinGone'
  BY <1>0, <1>1 DEF PinGone, Pins, None
<1>5. QED  BY <1>0, <1>2, <1>3, <1>4 DEF ServerInv, PinLife

LEMMA UnpairInv ==
    ASSUME ServerInv, Unpair
    PROVE  ServerInv'
<1>0. secrets \in Nat /\ pins \in Nat /\ row \in Rows
  BY PairingAssumption DEF ServerInv, ServerTypeOK
<1>1. /\ row' = [row EXCEPT !.status = "pending", !.serial = None, !.secret = None]
      /\ pend' = NoPend
      /\ UNCHANGED <<pins, secrets, issued, generating, exchange, shared, restarts>>
  BY DEF Unpair
<1>2. row' \in Rows'
  <2>1. row' = [status |-> "pending", secret |-> None, serial |-> None,
                seen |-> row.seen]
    BY <1>0, <1>1 DEF Rows
  <2>2. QED  BY <1>0, <1>1, <2>1 DEF Rows, Statuses, None
<1>3. pend' \in Pendings' /\ pend'.pin = None
  BY <1>0, <1>1, PairingAssumption DEF Pendings, NoPend, None
<1>4. certFile' \in 0..pins /\ revokedFile' \in 0..pins /\ revoked' \subseteq 1..pins
  BY <1>0 DEF Unpair, ServerInv, ServerTypeOK, Rows, None
<1>5. ServerTypeOK'
  BY <1>1, <1>2, <1>3, <1>4 DEF ServerInv, ServerTypeOK, Exchanges
<1>6. PinLife'
  BY <1>1, <1>3 DEF ServerInv, PinLife, PinReal, PinGone, PinOnce, Pins, None
<1>7. QED  BY <1>5, <1>6 DEF ServerInv

LEMMA RestartInv ==
    ASSUME ServerInv, Restart
    PROVE  ServerInv'
<1>0. secrets \in Nat /\ pins \in Nat /\ row \in Rows
  BY PairingAssumption DEF ServerInv, ServerTypeOK
<1>1. pend' \in Pendings' /\ pend'.pin = None
  BY <1>0, PairingAssumption DEF Restart, Pendings, NoPend, None
<1>2. row' \in Rows'
  BY DEF Restart, ServerInv, ServerTypeOK, Rows
<1>3. ServerTypeOK'
  <2>1. restarts' \in 0..MaxRestarts
    BY PairingAssumption DEF Restart, ServerInv, ServerTypeOK
  <2>2. revoked' \subseteq 1..pins'
    BY <1>0 DEF Restart, ServerInv, ServerTypeOK, None
  <2>3. exchange' \in [Handlers -> Exchanges']
    BY <1>0 DEF Restart, Idle, Exchanges, Ages, None
  <2>4. QED  BY <1>1, <1>2, <2>1, <2>2, <2>3 DEF Restart, ServerInv, ServerTypeOK
<1>4. PinLife'
  BY <1>1 DEF Restart, ServerInv, PinLife, PinReal, PinGone, PinOnce, Idle, Pins, None
<1>5. QED  BY <1>3, <1>4 DEF ServerInv

LEMMA SaveRowInv ==
    ASSUME ServerInv, NEW r \in Rows, SaveRow(r)
    PROVE  ServerInv'
<1>1. row' \in Rows' /\ pend' \in Pendings' /\ exchange' \in [Handlers -> Exchanges']
  BY DEF SaveRow, ServerInv, ServerTypeOK, Rows, Pendings, Exchanges
<1>2. ServerTypeOK'
  BY <1>1 DEF SaveRow, ServerInv, ServerTypeOK, certs
<1>3. PinLife'
  BY DEF SaveRow, ServerInv, PinLife, PinReal, PinGone, PinOnce
<1>4. QED  BY <1>2, <1>3 DEF ServerInv

LEMMA ServerStepInv ==
    ASSUME ServerInv, [ServerNext]_serverVars
    PROVE  ServerInv'
<1>1. CASE UNCHANGED serverVars
  BY <1>1 DEF serverVars, ServerInv, ServerTypeOK, PinLife, PinReal, PinGone, PinOnce,
              Rows, Pendings, Exchanges
<1>2. CASE ServerNext
  <2>1. Pins \subseteq Nat
    BY PairingAssumption DEF Pins
  <2>2. QED
    BY <1>2, <2>1, InitiateInv, PinStepsInv, AcceptInv, ReadInv, SaveInv, ForgetInv,
       UnpairInv, RestartInv, SaveRowInv DEF ServerNext
<1>3. QED  BY <1>1, <1>2

\* The service keeps its state well formed whatever arrives: no PIN, serial or
\* secret that was not issued, never more attempts than PIN_MAX_ATTEMPTS.
THEOREM ServerTypes == ServerSpec => []ServerTypeOK
<1>1. ServerInv => ServerTypeOK  BY DEF ServerInv
<1>2. QED  BY <1>1, ServerInitInv, ServerStepInv, PTL DEF ServerSpec

\* A PIN whose exchanges do not overlap is good for one secret, and no PIN that
\* has been honoured stays pending after its exchanges (exchange_certs drops the
\* entry it honours), over every interleaving of initiations, exchanges on any
\* number of threads, unpairs, row updates and restarts.
THEOREM OneSecretPerPinHolds == ServerSpec => []OneSecretPerPin
BY LifeMeansOnce, ServerInitInv, ServerStepInv, PTL DEF ServerSpec

-----------------------------------------------------------------------------
(* The camera and the server together.                                     *)

\* What the composition adds: the heartbeat loop runs in a running camera that
\* is not yet past the threshold, a heartbeat that may be answered "Unknown
\* camera" belongs to that loop, and a PIN on its way is one that was typed.
Wired ==
    /\ beating => mode = "running" /\ unknowns < Threshold
    /\ mode = "pairing" => unknowns < Threshold
    /\ beat.step \in {"sent", "unknown"} => beating
    /\ pairing.step \in {"sent", "served"} => pairing.pin \in Pins

LinkInv == PinLife /\ LinkTypeOK /\ Wired

LEMMA LinkInvServer == LinkInv => ServerInv
BY DEF LinkInv, ServerInv, LinkTypeOK

\* the rows that discovery and the camera service write are well formed
LEMMA RowsWritten ==
    ASSUME row \in Rows, pins \in Nat, secrets \in Nat
    PROVE  /\ \A paired : Reported(paired) \in Rows
           /\ [row EXCEPT !.seen = "old"] \in Rows
           /\ [row EXCEPT !.status = "online"] \in Rows
           /\ [Absent EXCEPT !.status = "pending"] \in Rows
           /\ Absent \in Rows
<1>1. Absent \in Rows
  BY DEF Absent, Rows, Statuses, Ages, None
<1>2. /\ [row EXCEPT !.seen = "old"] \in Rows
      /\ [row EXCEPT !.status = "online"] \in Rows
      /\ [Absent EXCEPT !.status = "pending"] \in Rows
  BY <1>1 DEF Rows, Statuses, Ages
<1>3. ASSUME NEW paired PROVE Reported(paired) \in Rows
  <2>1. [Absent EXCEPT !.status = "pending", !.seen = "recent"] \in Rows
    BY <1>1 DEF Rows, Statuses, Ages
  <2>2. \A st \in Statuses : [row EXCEPT !.seen = "recent", !.status = st] \in Rows
    BY DEF Rows, Ages
  <2>3. (IF row.status = "pending" \/ paired = "no" THEN "pending" ELSE "online")
            \in Statuses
    BY DEF Statuses
  <2>4. QED  BY <2>1, <2>2, <2>3 DEF Reported
<1>4. QED  BY <1>1, <1>2, <1>3

\* a step of the two together is a step of the service, or leaves it alone
LEMMA LinkStepRefines ==
    ASSUME LinkInv, [Next]_vars
    PROVE  [ServerNext]_serverVars
<1>0. /\ row \in Rows /\ pins \in Nat /\ secrets \in Nat
      /\ sweep \in Rows
      /\ [beat.copy EXCEPT !.status = "online", !.seen = "recent"] \in Rows
      /\ [sweep EXCEPT !.status = "offline"] \in Rows
  <2>1. row \in Rows /\ pins \in Nat /\ secrets \in Nat /\ sweep \in Rows /\ beat.copy \in Rows
    BY PairingAssumption DEF LinkInv, LinkTypeOK, ServerTypeOK
  <2>2. QED  BY <2>1 DEF Rows, Statuses, Ages
<1> DEFINE Saved == \E r \in Rows : SaveRow(r)
<1>1. Saved => ServerNext
  BY DEF ServerNext
<1>2. CASE \/ Boot \/ PairingDone \/ Terminated \/ PowerLoss
           \/ (\E pin \in Pins : SubmitPin(pin))
           \/ PinLost \/ StoreCerts \/ StoreSecret
           \/ SendBeat \/ CopyRow \/ BeatAnswered \/ BeatLost \/ OfflineCheck
  BY <1>2 DEF Boot, PairingDone, Terminated, PowerLoss, SubmitPin, PinLost, StoreCerts,
              StoreSecret, SendBeat, CopyRow, BeatAnswered, BeatLost, OfflineCheck
<1>3. CASE Register \/ MdnsSeen \/ VerifyBeat
  <2>1. Saved \/ UNCHANGED serverVars
    BY <1>0, <1>3, RowsWritten DEF Register, MdnsSeen, VerifyBeat, ReportCamera
  <2>2. QED  BY <1>1, <2>1
<1>4. CASE PinRefused \/ (\E h \in Handlers : PinAccepted(h))
  BY <1>4 DEF PinRefused, PinAccepted, ServerNext, LinkInv, Wired
<1>5. CASE \E h \in Handlers : PinChecked(h) \/ Trusted(h) \/ Finish(h)
  BY <1>5 DEF PinChecked, Trusted, Finish, ServerNext
<1>6. CASE ForgetServer
  BY <1>6 DEF ForgetServer, ServerNext
<1>7. CASE SaveBeat \/ OfflineSave
  BY <1>0, <1>1, <1>7 DEF SaveBeat, OfflineSave
<1>8. CASE AdminOp
  <2>1. InitiateCheck \/ Unpair \/ Saved
    BY <1>0, <1>8, RowsWritten DEF AdminOp, AddCamera, Confirm, Delete
  <2>2. QED  BY <1>1, <2>1 DEF ServerNext
<1>9. CASE ServerStep
  <2>1. InitiateCommit \/ PinExpires \/ GetPendingPairing \/ Saved
    BY <1>0, <1>9, RowsWritten DEF ServerStep, GrowsOld
  <2>2. QED  BY <1>1, <2>1 DEF ServerNext
<1>10. CASE ServerRestart
  BY <1>10 DEF ServerRestart, ServerNext
<1>11. CASE UNCHANGED vars
  BY <1>11 DEF vars
<1>12. QED
  BY <1>2, <1>3, <1>4, <1>5, <1>6, <1>7, <1>8, <1>9, <1>10, <1>11 DEF Next

\* the camera's own variables, the messages and the copies stay well formed
CameraTypes ==
    /\ mode \in {"pairing", "running", "down"}
    /\ cert \in BOOLEAN
    /\ secret \in 0..secrets
    /\ beating \in BOOLEAN
    /\ unknowns \in 0..Threshold
    /\ term \in BOOLEAN

UsedTypes ==
    /\ used \in [DOMAIN Budget -> Nat]
    /\ \A k \in DOMAIN Budget : used[k] <= Budget[k]

PairingTypes ==
    pairing \in [step : {"none", "sent", "served", "answered", "stored"}, pin : Nat,
                 by : Nat, answer : 0..secrets]

BeatTypes ==
    beat \in [step : {"none", "sent", "verified", "copied", "accepted",
                      "unknown", "refused"},
              signed : 0..secrets, copy : Rows]

LEMMA TypesSplit ==
    LinkTypeOK <=> /\ ServerTypeOK /\ CameraTypes /\ UsedTypes /\ PairingTypes
                   /\ BeatTypes /\ sweep \in Rows
BY DEF LinkTypeOK, CameraTypes, UsedTypes, PairingTypes, BeatTypes

LEMMA LinkInitInv == Init => LinkInv
<1> SUFFICES ASSUME Init PROVE LinkInv  OBVIOUS
<1>1. ServerInv
  BY ServerInitInv DEF Init
<1>2. Absent \in Rows
  BY DEF Init, ServerInit, Rows, Absent, None, Statuses, Ages
<1>3. used \in [DOMAIN Budget -> Nat] /\ \A k \in DOMAIN Budget : used[k] <= Budget[k]
  BY LinkAssumption DEF Init, Budget
<1>4. LinkTypeOK
  <2>1. CameraTypes
    <3>1. secret \in 0..secrets /\ unknowns \in 0..Threshold
      BY LinkAssumption DEF Init, ServerInit, None
    <3>2. mode \in {"pairing", "running", "down"}
      BY DEF Init
    <3>3. cert \in BOOLEAN /\ beating \in BOOLEAN /\ term \in BOOLEAN
      BY DEF Init
    <3>4. QED  BY <3>1, <3>2, <3>3 DEF CameraTypes
  <2>2. PairingTypes /\ BeatTypes /\ sweep \in Rows
    BY <1>2 DEF Init, ServerInit, PairingTypes, BeatTypes, NoPairing, NoBeat, None
  <2>3. QED  BY <1>1, <1>3, <2>1, <2>2, TypesSplit DEF UsedTypes, ServerInv
<1>5. Wired
  BY LinkAssumption DEF Init, Wired, NoBeat, NoPairing
<1>6. QED  BY <1>1, <1>4, <1>5 DEF LinkInv, ServerInv

LEMMA SpendTypes ==
    ASSUME used \in [DOMAIN Budget -> Nat],
           \A k \in DOMAIN Budget : used[k] <= Budget[k],
           NEW kinds, Spend(kinds)
    PROVE  /\ used' \in [DOMAIN Budget -> Nat]
           /\ \A k \in DOMAIN Budget : used'[k] <= Budget[k]
<1>1. \A k \in DOMAIN Budget : Budget[k] \in Nat
  BY LinkAssumption DEF Budget
<1>2. QED  BY <1>1 DEF Spend

LEMMA WipeTypes ==
    ASSUME LinkTypeOK, NEW spent, Wipe(spent)
    PROVE  /\ cert' \in BOOLEAN
           /\ secret' \in {secret, None}
           /\ used' \in [DOMAIN Budget -> Nat]
           /\ \A k \in DOMAIN Budget : used'[k] <= Budget[k]
<1>1. CASE Spend(spent) /\ cert' = FALSE /\ secret' = None
  BY <1>1, SpendTypes DEF LinkTypeOK
<1>2. CASE Spend(spent \cup {"mishaps"}) /\ cert' \in {cert, FALSE} /\ secret' \in {secret, None}
  BY <1>2, SpendTypes DEF LinkTypeOK
<1>3. QED  BY <1>1, <1>2 DEF Wipe

\* the counters of the service never go back
LEMMA ServerGrowth ==
    ASSUME ServerInv, [ServerNext]_serverVars
    PROVE  /\ pins \in Nat /\ pins' \in Nat /\ pins <= pins'
           /\ secrets \in Nat /\ secrets' \in Nat /\ secrets <= secrets'
<1>1. pins \in Nat /\ secrets \in Nat
  BY PairingAssumption DEF ServerInv, ServerTypeOK
<1>2. pins' \in {pins, pins + 1} /\ secrets' \in {secrets, secrets + 1}
  BY DEF ServerNext, serverVars, InitiateCheck, InitiateCommit, PinExpires,
         GetPendingPairing, ExchangeRefused, ExchangeAccepted, ExchangeRead,
         ExchangeSave, ExchangeForget, Unpair, Restart, SaveRow
<1>3. QED  BY <1>1, <1>2

LEMMA UsedPreserved ==
    ASSUME LinkInv, [Next]_vars
    PROVE  UsedTypes'
<1>0. UsedTypes /\ LinkTypeOK
  BY TypesSplit DEF LinkInv
<1>1. ASSUME NEW kinds, Spend(kinds) PROVE UsedTypes'
  BY <1>0, <1>1, SpendTypes DEF UsedTypes
<1>2. ASSUME NEW kinds, Wipe(kinds) PROVE UsedTypes'
  BY <1>0, <1>2, WipeTypes DEF UsedTypes
<1>3. CASE UNCHANGED used
  BY <1>0, <1>3 DEF UsedTypes
<1>4. CASE PowerLoss \/ MdnsSeen \/ (\E pin \in Pins : SubmitPin(pin)) \/ PinLost \/ ForgetServer
  BY <1>1, <1>2, <1>4 DEF PowerLoss, MdnsSeen, SubmitPin, PinLost, ForgetServer
<1>5. CASE StoreCerts \/ StoreSecret
  BY <1>1, <1>3, <1>5 DEF StoreCerts, StoreSecret
<1>6. CASE BeatAnswered \/ BeatLost \/ AdminOp
  BY <1>1, <1>2, <1>3, <1>6 DEF BeatAnswered, BeatLost, AdminOp
<1>7. CASE \/ Boot \/ PairingDone \/ Terminated \/ Register \/ PinRefused
           \/ (\E h \in Handlers : PinAccepted(h) \/ PinChecked(h) \/ Trusted(h) \/ Finish(h))
           \/ SendBeat \/ VerifyBeat \/ CopyRow \/ SaveBeat \/ ServerStep
           \/ OfflineCheck \/ OfflineSave \/ ServerRestart
  BY <1>3, <1>7 DEF Boot, PairingDone, Terminated, Register, PinRefused, PinAccepted,
         PinChecked, Trusted, Finish, SendBeat, VerifyBeat, CopyRow, SaveBeat, ServerStep,
         OfflineCheck, OfflineSave, ServerRestart
<1>8. CASE UNCHANGED vars
  BY <1>3, <1>8 DEF vars
<1>9. QED  BY <1>4, <1>5, <1>6, <1>7, <1>8 DEF Next

\* the credentials and the counters of the camera
LEMMA CameraPreserved ==
    ASSUME LinkInv, [Next]_vars
    PROVE  CameraTypes'
<1>0. LinkTypeOK /\ CameraTypes /\ BeatTypes /\ PairingTypes
  BY TypesSplit DEF LinkInv
<1>1. 0..secrets \subseteq 0..secrets' /\ None \in 0..secrets
  BY LinkInvServer, LinkStepRefines, ServerGrowth DEF None
<1>2. ASSUME NEW kinds, Wipe(kinds)
      PROVE  cert' \in BOOLEAN /\ secret' \in 0..secrets'
  BY <1>0, <1>1, <1>2, WipeTypes DEF CameraTypes
<1>3. CASE UNCHANGED cameraVars
  BY <1>0, <1>1, <1>3 DEF CameraTypes, cameraVars
<1>4. CASE Boot \/ PairingDone \/ Terminated \/ PowerLoss
  <2>1. unknowns' \in 0..Threshold /\ secret' \in 0..secrets'
    BY <1>0, <1>1, <1>4, LinkAssumption
       DEF Boot, PairingDone, Terminated, PowerLoss, StopProcess, CameraTypes
  <2>2. mode' \in {"pairing", "running", "down"}
    BY <1>0, <1>4 DEF Boot, PairingDone, Terminated, PowerLoss, StopProcess, CameraTypes
  <2>3. cert' = cert /\ beating' \in {cert, TRUE, FALSE} /\ term' \in {term, FALSE}
    BY <1>4 DEF Boot, PairingDone, Terminated, PowerLoss, StopProcess
  <2>4. cert' \in BOOLEAN /\ beating' \in BOOLEAN /\ term' \in BOOLEAN
    BY <1>0, <2>3 DEF CameraTypes
  <2>5. QED  BY <2>1, <2>2, <2>4 DEF CameraTypes
<1>5. ASSUME NEW pin \in Pins, SubmitPin(pin)
      PROVE  CameraTypes'
  BY <1>0, <1>1, <1>2, <1>5 DEF SubmitPin, CameraTypes
<1>6. CASE StoreCerts \/ StoreSecret
  BY <1>0, <1>1, <1>6 DEF StoreCerts, StoreSecret, CameraTypes, PairingTypes
<1>7. CASE ForgetServer
  BY <1>0, <1>1, <1>2, <1>7 DEF ForgetServer, CameraTypes
<1>8. CASE BeatAnswered
  <2>1. unknowns' \in 0..Threshold
    BY <1>0, <1>8, LinkAssumption DEF BeatAnswered, CameraTypes, LinkInv, Wired
  <2>2. cert' \in BOOLEAN /\ secret' \in 0..secrets'
    BY <1>0, <1>1, <1>2, <1>8 DEF BeatAnswered, CameraTypes
  <2>3. mode' = mode /\ beating' \in BOOLEAN /\ term' \in BOOLEAN
    BY <1>0, <1>8 DEF BeatAnswered, CameraTypes
  <2>4. QED  BY <1>0, <2>1, <2>2, <2>3 DEF CameraTypes
<1>9. CASE \/ Register \/ MdnsSeen \/ PinRefused \/ PinLost
           \/ (\E h \in Handlers : PinAccepted(h) \/ PinChecked(h) \/ Trusted(h) \/ Finish(h))
           \/ SendBeat \/ VerifyBeat \/ CopyRow \/ SaveBeat \/ BeatLost \/ AdminOp
           \/ ServerStep \/ OfflineCheck \/ OfflineSave \/ ServerRestart
  BY <1>3, <1>9 DEF Register, MdnsSeen, PinRefused, PinAccepted, PinChecked, Trusted,
         PinLost, Finish, wireVars, SendBeat, VerifyBeat, CopyRow, SaveBeat, BeatLost,
         AdminOp, ServerStep, OfflineCheck, OfflineSave, ServerRestart
<1>10. CASE UNCHANGED vars
  BY <1>3, <1>10 DEF vars
<1>11. QED  BY <1>4, <1>5, <1>6, <1>7, <1>8, <1>9, <1>10 DEF Next

\* the messages and the copies of the row
LEMMA MessagesPreserved ==
    ASSUME LinkInv, [Next]_vars
    PROVE  PairingTypes' /\ BeatTypes' /\ (sweep \in Rows)'
<1>0. /\ CameraTypes /\ BeatTypes /\ PairingTypes
      /\ sweep \in Rows /\ row \in Rows /\ Absent \in Rows
      /\ secrets \in Nat
  <2>1. pins \in Nat /\ secrets \in Nat /\ row \in Rows
    BY PairingAssumption DEF LinkInv, LinkTypeOK, ServerTypeOK
  <2>2. QED  BY <2>1, TypesSplit, RowsWritten DEF LinkInv
<1>1. /\ 0..secrets \subseteq 0..secrets' /\ Rows \subseteq Rows'
      /\ secrets' \in Nat /\ None \in 0..secrets'
  <2>1. ServerInv /\ [ServerNext]_serverVars
    BY LinkInvServer, LinkStepRefines
  <2>2. QED  BY <2>1, ServerGrowth, Grown DEF None
<1>2. NoPairing \in [step : {"none", "sent", "served", "answered", "stored"}, pin : Nat,
                     by : Nat, answer : 0..secrets']
  BY <1>1 DEF NoPairing, None
<1>3. NoBeat \in [step : {"none", "sent", "verified", "copied", "accepted",
                          "unknown", "refused"},
                  signed : 0..secrets', copy : Rows']
  BY <1>0, <1>1 DEF NoBeat, None
<1>4. UNCHANGED pairing => PairingTypes'
  BY <1>0, <1>1 DEF PairingTypes
<1>5. UNCHANGED beat => BeatTypes'
  BY <1>0, <1>1 DEF BeatTypes
<1>6. (sweep \in Rows)'
  BY <1>0, <1>1
     DEF Next, vars, Boot, PairingDone, Terminated, PowerLoss, Register, MdnsSeen, SubmitPin,
         PinRefused, PinAccepted, PinChecked, Trusted, PinLost, Finish, StoreCerts,
         StoreSecret, ForgetServer, SendBeat, VerifyBeat, CopyRow, SaveBeat, BeatAnswered, BeatLost,
         AdminOp, ServerStep, OfflineCheck, OfflineSave, ServerRestart, StopProcess,
         wireVars
<1>7. PairingTypes'
  <2>1. ASSUME NEW pin \in Pins, SubmitPin(pin) PROVE PairingTypes'
    <3>1. pairing' = [step |-> "sent", pin |-> pin, by |-> None, answer |-> None]
      BY <2>1 DEF SubmitPin, NoPairing
    <3>2. QED  BY <1>1, <3>1, PairingAssumption DEF PairingTypes, Pins, None
  <2>2. ASSUME NEW h \in Handlers,
               PinAccepted(h) \/ PinChecked(h) \/ Trusted(h) \/ Finish(h)
        PROVE  PairingTypes'
    <3>1. \/ pairing' = NoPairing \/ pairing' = pairing
          \/ pairing' = [pairing EXCEPT !.step = "served", !.by = h]
          \/ pairing' = [pairing EXCEPT !.step = "answered", !.answer = exchange[h].secret]
      BY <2>2 DEF PinAccepted, PinChecked, Trusted, Finish, wireVars
    <3>2. h \in Nat /\ exchange[h].secret \in 0..secrets'
      <4>1. exchange[h] \in Exchanges
        BY DEF LinkInv, LinkTypeOK, ServerTypeOK
      <4>2. QED  BY <1>1, <4>1, PairingAssumption DEF Exchanges, Handlers
    <3>3. ASSUME pairing' = [pairing EXCEPT !.step = "served", !.by = h]
          PROVE  PairingTypes'
      BY <1>0, <1>1, <3>2, <3>3 DEF PairingTypes
    <3>4. ASSUME pairing' = [pairing EXCEPT !.step = "answered",
                                            !.answer = exchange[h].secret]
          PROVE  PairingTypes'
      BY <1>0, <1>1, <3>2, <3>4 DEF PairingTypes
    <3>5. QED  BY <1>2, <1>4, <3>1, <3>3, <3>4 DEF PairingTypes
  <2>3. CASE StoreCerts \/ StoreSecret
    BY <1>0, <1>1, <1>2, <2>3 DEF StoreCerts, StoreSecret, PairingTypes
  <2>4. CASE pairing' = NoPairing
    BY <1>2, <2>4 DEF PairingTypes
  <2>5. CASE \/ Boot \/ PairingDone \/ Terminated \/ PowerLoss \/ Register \/ MdnsSeen
             \/ PinRefused \/ PinLost \/ ForgetServer
             \/ SendBeat \/ VerifyBeat \/ CopyRow \/ SaveBeat \/ BeatAnswered \/ BeatLost
             \/ AdminOp \/ ServerStep \/ OfflineCheck \/ OfflineSave \/ ServerRestart
             \/ UNCHANGED vars
    BY <1>4, <2>4, <2>5
       DEF vars, Boot, PairingDone, Terminated, PowerLoss, Register, MdnsSeen, PinRefused,
           PinLost, ForgetServer, SendBeat, VerifyBeat, CopyRow, SaveBeat,
           BeatAnswered, BeatLost, AdminOp, ServerStep, OfflineCheck, OfflineSave,
           ServerRestart, StopProcess, wireVars
  <2>6. QED  BY <2>1, <2>2, <2>3, <2>5 DEF Next
<1>8. BeatTypes'
  <2>1. CASE beat' = NoBeat
    BY <1>3, <2>1 DEF BeatTypes
  <2>2. CASE Terminated \/ PowerLoss
    <3>1. beat' = NoBeat \/ beat' = [beat EXCEPT !.signed = None]
      BY <2>2 DEF Terminated, PowerLoss, StopProcess
    <3>2. QED  BY <1>0, <1>1, <2>1, <3>1 DEF BeatTypes
  <2>3. CASE SendBeat
    <3>1. beat' = [step |-> "sent", signed |-> secret, copy |-> Absent]
      BY <2>3 DEF SendBeat, NoBeat
    <3>2. QED  BY <1>0, <1>1, <3>1 DEF BeatTypes, CameraTypes
  <2>4. CASE VerifyBeat
    <3>1. \E st \in {"unknown", "refused", "verified"} : beat' = [beat EXCEPT !.step = st]
      BY <2>4 DEF VerifyBeat
    <3>2. QED  BY <1>0, <1>1, <3>1 DEF BeatTypes
  <2>5. CASE CopyRow
    <3>1. \/ beat' = NoBeat \/ beat' = [beat EXCEPT !.step = "refused"]
          \/ beat' = [beat EXCEPT !.step = "copied", !.copy = row]
      BY <2>5 DEF CopyRow
    <3>2. QED  BY <1>0, <1>1, <2>1, <3>1 DEF BeatTypes
  <2>6. CASE SaveBeat
    <3>1. beat' = NoBeat \/ beat' = [step |-> "accepted", signed |-> None, copy |-> Absent]
      BY <2>6 DEF SaveBeat, NoBeat
    <3>2. QED  BY <1>0, <1>1, <2>1, <3>1 DEF BeatTypes
  <2>7. CASE \/ Boot \/ PairingDone \/ Register \/ MdnsSeen
             \/ (\E pin \in Pins : SubmitPin(pin))
             \/ (\E h \in Handlers : PinAccepted(h) \/ PinChecked(h) \/ Trusted(h) \/ Finish(h))
             \/ PinRefused \/ PinLost \/ StoreCerts \/ StoreSecret
             \/ ForgetServer \/ BeatAnswered \/ BeatLost
             \/ AdminOp \/ ServerStep \/ OfflineCheck \/ OfflineSave \/ ServerRestart
             \/ UNCHANGED vars
    BY <1>5, <2>1, <2>7
       DEF vars, Boot, PairingDone, Register, MdnsSeen, SubmitPin, PinRefused,
           PinAccepted, PinChecked, Trusted, PinLost, Finish, StoreCerts, StoreSecret,
           ForgetServer,
           BeatAnswered, BeatLost, AdminOp, ServerStep, OfflineCheck, OfflineSave,
           ServerRestart, wireVars
  <2>8. QED  BY <2>2, <2>3, <2>4, <2>5, <2>6, <2>7 DEF Next
<1>9. QED  BY <1>6, <1>7, <1>8

LEMMA WiredPreserved ==
    ASSUME LinkInv, [Next]_vars
    PROVE  Wired'
<1>0. LinkTypeOK /\ CameraTypes /\ BeatTypes /\ PairingTypes /\ Wired
  BY TypesSplit DEF LinkInv
<1>1. CASE Boot \/ PairingDone
  BY <1>0, <1>1, LinkAssumption
     DEF Boot, PairingDone, Wired, wireVars, CameraTypes
<1>2. CASE Terminated \/ PowerLoss
  BY <1>0, <1>2
     DEF Terminated, PowerLoss, StopProcess, Wired, BeatTypes, NoBeat, NoPairing
<1>3. ASSUME NEW pin \in Pins, SubmitPin(pin)
      PROVE  Wired'
  BY <1>0, <1>3 DEF SubmitPin, Wired, NoPairing
<1>4. CASE \/ PinRefused \/ PinLost
           \/ \E h \in Handlers : PinAccepted(h) \/ PinChecked(h) \/ Trusted(h) \/ Finish(h)
  <2>1. pairing'.step \in {"sent", "served"} =>
            pairing.step \in {"sent", "served"} /\ pairing'.pin = pairing.pin
    <3>1. NoPairing.step = "none"
      BY DEF NoPairing
    <3>2. CASE PinRefused \/ PinLost
      BY <3>1, <3>2 DEF PinRefused, PinLost
    <3>3. ASSUME NEW h \in Handlers,
                 PinAccepted(h) \/ PinChecked(h) \/ Trusted(h) \/ Finish(h)
          PROVE  pairing'.step \in {"sent", "served"} =>
                     pairing.step \in {"sent", "served"} /\ pairing'.pin = pairing.pin
      <4>1. CASE PinAccepted(h)
        BY <1>0, <4>1 DEF PinAccepted, PairingTypes
      <4>2. CASE PinChecked(h) \/ Trusted(h)
        BY <3>1, <4>2 DEF PinChecked, Trusted, wireVars
      <4>3. CASE Finish(h)
        <5>1. [pairing EXCEPT !.step = "answered", !.answer = exchange[h].secret].step
                = "answered"
          BY <1>0 DEF PairingTypes
        <5>2. QED  BY <3>1, <4>3, <5>1 DEF Finish
      <4>4. QED  BY <3>3, <4>1, <4>2, <4>3
    <3>4. QED  BY <1>4, <3>2, <3>3
  <2>2. UNCHANGED <<cameraVars, beat>>
    BY <1>4 DEF PinRefused, PinLost, PinAccepted, PinChecked, Trusted, Finish, wireVars
  <2>3. QED  BY <1>0, <2>1, <2>2 DEF Wired, cameraVars
<1>5. CASE StoreCerts \/ StoreSecret
  BY <1>0, <1>5 DEF StoreCerts, StoreSecret, Wired, NoPairing, PairingTypes
<1>6. CASE SendBeat \/ BeatLost
  BY <1>0, <1>6 DEF SendBeat, BeatLost, Wired, cameraVars, NoBeat
<1>7. CASE VerifyBeat \/ CopyRow \/ SaveBeat
  <2>1. beat'.step \in {"sent", "unknown"} => beat.step = "sent"
    <3>1. NoBeat.step = "none" /\ [NoBeat EXCEPT !.step = "accepted"].step = "accepted"
      BY DEF NoBeat
    <3>2. /\ \A st : [beat EXCEPT !.step = st].step = st
          /\ [beat EXCEPT !.step = "copied", !.copy = row].step = "copied"
      BY <1>0 DEF BeatTypes
    <3>3. CASE VerifyBeat
      BY <3>3 DEF VerifyBeat
    <3>4. CASE CopyRow
      BY <3>1, <3>2, <3>4 DEF CopyRow
    <3>5. CASE SaveBeat
      BY <3>1, <3>5 DEF SaveBeat
    <3>6. QED  BY <1>7, <3>3, <3>4, <3>5
  <2>2. UNCHANGED <<cameraVars, pairing>>
    BY <1>7 DEF VerifyBeat, CopyRow, SaveBeat
  <2>3. QED  BY <1>0, <2>1, <2>2 DEF Wired, cameraVars
<1>8. CASE BeatAnswered
  <2>1. beat'.step = "none" /\ mode' = mode /\ pairing' = pairing
    BY <1>8 DEF BeatAnswered, NoBeat
  <2>2. CASE beat.step = "unknown"
    <3>1. mode = "running" /\ beating
      BY <1>0, <2>2 DEF Wired
    <3>2. beating' => unknowns' < Threshold
      <4>1. unknowns' = unknowns + 1 /\ (unknowns' >= Threshold => beating' = FALSE)
        BY <1>8, <2>2 DEF BeatAnswered
      <4>2. QED  BY <1>0, <4>1, LinkAssumption DEF CameraTypes
    <3>3. QED  BY <1>0, <2>1, <3>1, <3>2 DEF Wired
  <2>3. CASE beat.step # "unknown"
    <3>1. unknowns' \in {0, unknowns} /\ beating' = beating
      BY <1>8, <2>3 DEF BeatAnswered
    <3>2. QED  BY <1>0, <2>1, <3>1, LinkAssumption DEF Wired
  <2>4. QED  BY <2>2, <2>3
<1>9. CASE ServerRestart
  BY <1>0, <1>9 DEF ServerRestart, Wired, cameraVars, NoBeat, NoPairing
<1>10. CASE \/ Register \/ MdnsSeen \/ ForgetServer \/ AdminOp
            \/ ServerStep \/ OfflineCheck \/ OfflineSave \/ UNCHANGED vars
  BY <1>0, <1>10
     DEF Register, MdnsSeen, ForgetServer, AdminOp, ServerStep,
         OfflineCheck, OfflineSave, vars, Wired, cameraVars, wireVars
<1>11. QED
  BY <1>1, <1>2, <1>3, <1>4, <1>5, <1>6, <1>7, <1>8, <1>9, <1>10 DEF Next

LEMMA LinkStepInv ==
    ASSUME LinkInv, [Next]_vars
    PROVE  LinkInv'
<1>1. ServerInv'
  BY LinkInvServer, LinkStepRefines, ServerStepInv
<1>2. (ServerTypeOK /\ CameraTypes /\ UsedTypes /\ PairingTypes /\ BeatTypes
       /\ sweep \in Rows)'
  BY <1>1, UsedPreserved, CameraPreserved, MessagesPreserved DEF ServerInv
<1>3. LinkTypeOK'
  BY <1>2 DEF LinkTypeOK, CameraTypes, UsedTypes, PairingTypes, BeatTypes
<1>4. QED  BY <1>1, <1>3, WiredPreserved DEF LinkInv, ServerInv

\* Camera and server together stay well formed: in particular the count of
\* "Unknown camera" answers never passes UNPAIR_401_THRESHOLD, and no copy of
\* the row that a handler holds mentions a secret that was never issued.
THEOREM LinkTypes == Spec => []LinkTypeOK
<1>1. LinkInv => LinkTypeOK  BY DEF LinkInv
<1>2. QED  BY <1>1, LinkInitInv, LinkStepInv, PTL DEF Spec

\* The same of the whole system: with a camera that gives up, loses power or is
\* told another PIN while a handler still serves it, a second secret for a PIN
\* takes two exchanges that overlapped, and an honoured PIN does not stay.
THEOREM LinkOneSecretPerPin == Spec => []OneSecretPerPin
<1>1. LinkInv => OneSecretPerPin
  BY LinkInvServer, LifeMeansOnce
<1>2. QED  BY <1>1, LinkInitInv, LinkStepInv, PTL DEF Spec

=============================================================================
