--------------------------- MODULE PairingService ---------------------------
(***************************************************************************)
(* The server's side of camera pairing, for one camera id: PairingService  *)
(* (services/pairing_service.py), the camera's row in the store, and the   *)
(* parts of DiscoveryService and CameraService that create, move or remove *)
(* that row.                                                               *)
(*                                                                         *)
(* Initiations are numbered; the number stands for the PIN shown to the    *)
(* administrator and for the serial of the client certificate generated    *)
(* with it.  Secrets are numbered in the order exchange_certs issues them. *)
(* Zero is "none" throughout.  A request handler is one action, except     *)
(* where it works for a while between reading and writing: the certificate *)
(* generation of initiate_pairing is a step of its own, and exchange_certs *)
(* is four, because requests are served by several threads and it takes no *)
(* lock: the PIN, the reading of the row, its saving, and the end.         *)
(***************************************************************************)
EXTENDS Naturals

CONSTANTS
    MaxPins,       \* bound on completed initiations
    MaxRestarts,   \* bound on server restarts
    MaxHandlers,   \* bound on exchange_certs requests served at a time
    MaxAttempts    \* PIN_MAX_ATTEMPTS

ASSUME PairingAssumption ==
    /\ MaxPins \in Nat
    /\ MaxRestarts \in Nat
    /\ MaxHandlers \in Nat
    /\ MaxAttempts \in Nat

None == 0
Pins == 1..MaxPins
Handlers == 1..MaxHandlers

VARIABLES
    row,          \* the camera's row: status, pairing_secret, cert_serial,
                  \* and how long ago last_seen is
    pend,         \* _pending_pairings.get(camera_id)
    pins,         \* initiations so far
    secrets,      \* secrets issued so far
    issued,       \* history: secrets issued for each PIN
    generating,   \* an initiate_pairing is generating its certificate
    exchange,     \* each handler's exchange_certs past validation: its step,
                  \* PIN, what its copy of the row says of last_seen (it sets
                  \* the other fields), and the secret it has issued
    shared,       \* history: PINs accepted while being exchanged already
    certFile,     \* serial of cameras/<id>.crt
    revokedFile,  \* serial of cameras/revoked/<id>.crt
    revoked,      \* _revoked_serials
    restarts      \* server restarts so far

serverVars == <<row, pend, pins, secrets, issued, generating, exchange,
                shared, certFile, revokedFile, revoked, restarts>>
certs == <<certFile, revokedFile, revoked>>

Statuses == {"absent", "pending", "online", "offline"}
Ages     == {"never", "recent", "old"}

Absent == [status |-> "absent", secret |-> None, serial |-> None, seen |-> "never"]
NoPend == [pin |-> None, attempts |-> 0, fresh |-> FALSE]
Idle   == [step |-> "idle", pin |-> None, seen |-> "never", secret |-> None]

\* the rows that hold no secret and no serial but those issued so far
Rows == [status : Statuses, secret : 0..secrets, serial : 0..pins, seen : Ages]

Pendings == [pin : 0..pins, attempts : 0..MaxAttempts, fresh : BOOLEAN]

Exchanges == [step : {"idle", "valid", "read", "saved"}, pin : 0..pins,
              seen : Ages, secret : 0..secrets]

\* the handlers that are past validation with this PIN
Honouring(pin) == {h \in Handlers : exchange[h].step # "idle" /\ exchange[h].pin = pin}

Exists == row.status # "absent"

ServerTypeOK ==
    /\ row \in Rows
    /\ pend \in Pendings
    /\ pins \in 0..MaxPins
    /\ secrets \in Nat
    /\ issued \in [Pins -> Nat]
    /\ generating \in BOOLEAN
    /\ exchange \in [Handlers -> Exchanges]
    /\ shared \subseteq Pins
    /\ certFile \in 0..pins
    /\ revokedFile \in 0..pins
    /\ revoked \subseteq 1..pins
    /\ restarts \in 0..MaxRestarts

ServerInit ==
    /\ row = Absent
    /\ pend = NoPend
    /\ pins = 0
    /\ secrets = 0
    /\ issued = [p \in Pins |-> 0]
    /\ generating = FALSE
    /\ exchange = [h \in Handlers |-> Idle]
    /\ shared = {}
    /\ certFile = None
    /\ revokedFile = None
    /\ revoked = {}
    /\ restarts = 0

-----------------------------------------------------------------------------
(* PairingService                                                          *)

\* initiate_pairing up to the certificate: the row must be unpaired or away
InitiateCheck ==
    /\ ~generating
    /\ row.status \in {"pending", "offline"}
    /\ pins < MaxPins
    /\ generating' = TRUE
    /\ UNCHANGED <<row, pend, pins, secrets, issued, exchange, shared, certs, restarts>>

\* the certificate replaces the camera's file, the new PIN replaces a pending
\* one; or openssl fails and nothing is pending
InitiateCommit ==
    /\ generating
    /\ generating' = FALSE
    /\ \/ /\ pins' = pins + 1
          /\ certFile' = pins + 1
          /\ pend' = [pin |-> pins + 1, attempts |-> 0, fresh |-> TRUE]
       \/ UNCHANGED <<pins, certFile, pend>>
    /\ UNCHANGED <<row, secrets, issued, exchange, shared, revokedFile, revoked, restarts>>

\* five minutes pass
PinExpires ==
    /\ pend.fresh
    /\ pend' = [pend EXCEPT !.fresh = FALSE]
    /\ UNCHANGED <<row, pins, secrets, issued, generating, exchange, shared, certs,
                   restarts>>

\* get_pending_pairing forgets an expired PIN when the dashboard asks for it
GetPendingPairing ==
    /\ pend # NoPend
    /\ ~pend.fresh
    /\ pend' = NoPend
    /\ UNCHANGED <<row, pins, secrets, issued, generating, exchange, shared, certs,
                   restarts>>

\* exchange_certs up to the PIN comparison
ExchangeRefused(pin) ==
    /\ \/ pend = NoPend /\ UNCHANGED pend
       \/ /\ pend # NoPend
          /\ ~pend.fresh \/ pend.attempts = MaxAttempts
          /\ pend' = NoPend
       \/ /\ pend.fresh
          /\ pend.attempts < MaxAttempts
          /\ pin # pend.pin
          /\ pend' = [pend EXCEPT !.attempts = @ + 1]
    /\ UNCHANGED <<row, pins, secrets, issued, generating, exchange, shared, certs,
                   restarts>>

\* the PIN is right, and the first handler that is free goes on (they are alike)
ExchangeAccepted(h, pin) ==
    /\ exchange[h] = Idle
    /\ \A g \in Handlers : g < h => exchange[g] # Idle
    /\ pend.fresh
    /\ pend.attempts < MaxAttempts
    /\ pin = pend.pin
    /\ pend' = [pend EXCEPT !.attempts = @ + 1]
    /\ exchange' = [exchange EXCEPT ![h] = [Idle EXCEPT !.step = "valid", !.pin = pin]]
    /\ shared' = IF Honouring(pin) = {} THEN shared ELSE shared \cup {pin}
    /\ UNCHANGED <<row, pins, secrets, issued, generating, certs, restarts>>

\* the handler reads the row; without one, or without a CA certificate, it
\* answers with an error and the PIN stays pending
ExchangeRead(h) ==
    /\ exchange[h].step = "valid"
    /\ \/ exchange' = [exchange EXCEPT ![h] = Idle]
       \/ /\ Exists
          /\ exchange' = [exchange EXCEPT ![h].step = "read", ![h].seen = row.seen]
    /\ UNCHANGED <<row, pend, pins, secrets, issued, generating, shared, certs, restarts>>

\* its copy is saved with the new secret ...
ExchangeSave(h) ==
    /\ exchange[h].step = "read"
    /\ row' = [status |-> "online", secret |-> secrets + 1, serial |-> exchange[h].pin,
               seen |-> exchange[h].seen]
    /\ secrets' = secrets + 1
    /\ issued' = [issued EXCEPT ![exchange[h].pin] = @ + 1]
    /\ exchange' = [exchange EXCEPT ![h].step = "saved", ![h].secret = secrets + 1]
    /\ UNCHANGED <<pend, pins, generating, shared, certs, restarts>>

\* mutant of ExchangeForget: the PIN stays pending
ExchangeForgetKeepsPin(h) ==
    /\ exchange[h].step = "saved"
    /\ exchange' = [exchange EXCEPT ![h] = Idle]
    /\ UNCHANGED <<row, pend, pins, secrets, issued, generating, shared, certs, restarts>>

\* ... and whatever is pending by now is dropped, a newer PIN too (del raises
\* KeyError when nothing is, after the row has been saved)
ExchangeForget(h) ==
    /\ exchange[h].step = "saved"
    /\ exchange' = [exchange EXCEPT ![h] = Idle]
    /\ pend' = NoPend
    /\ UNCHANGED <<row, pins, secrets, issued, generating, shared, certs, restarts>>

\* unpair, from the dashboard or from a camera's goodbye: the certificate file
\* moves to revoked/, the row's serial joins the set, the row is pending again
Unpair ==
    /\ Exists
    /\ row' = [row EXCEPT !.status = "pending", !.serial = None, !.secret = None]
    /\ pend' = NoPend
    /\ certFile' = None
    /\ \/ certFile = None /\ UNCHANGED <<revokedFile, revoked>>
       \/ /\ certFile # None
          /\ revokedFile' = certFile
          /\ revoked' = revoked \cup ({row.serial} \ {None})
    /\ UNCHANGED <<pins, secrets, issued, generating, exchange, shared, restarts>>

\* the process starts again: what was in memory is gone, and
\* _load_revoked_serials reads the revoked certificate file
Restart ==
    /\ restarts < MaxRestarts
    /\ restarts' = restarts + 1
    /\ pend' = NoPend
    /\ generating' = FALSE
    /\ exchange' = [h \in Handlers |-> Idle]
    /\ revoked' = {revokedFile} \ {None}
    /\ UNCHANGED <<row, pins, secrets, issued, shared, certFile, revokedFile>>

-----------------------------------------------------------------------------
(* The row, outside pairing.                                               *)

SaveRow(r) ==
    /\ row' = r
    /\ UNCHANGED <<pend, pins, secrets, issued, generating, exchange, shared, certs,
                   restarts>>

\* DiscoveryService.report_camera with what the caller knows of pairing
Reported(paired) ==
    IF ~Exists THEN [Absent EXCEPT !.status = "pending", !.seen = "recent"]
    ELSE [row EXCEPT !.seen = "recent",
                     !.status = IF row.status = "pending" \/ paired = "no"
                                THEN "pending" ELSE "online"]

ReportCamera(paired) == SaveRow(Reported(paired))

\* thirty seconds pass in which nothing has touched last_seen
GrowsOld == row.seen = "recent" /\ SaveRow([row EXCEPT !.seen = "old"])

\* CameraService.add_camera, confirm and delete
AddCamera == ~Exists /\ SaveRow([Absent EXCEPT !.status = "pending"])
Confirm   == row.status = "pending" /\ SaveRow([row EXCEPT !.status = "online"])
Delete    == Exists /\ SaveRow(Absent)

-----------------------------------------------------------------------------
(* The service alone: any PIN may arrive at any time.                      *)

ServerNext ==
    \/ InitiateCheck \/ InitiateCommit \/ PinExpires \/ GetPendingPairing
    \/ \E pin \in Pins : ExchangeRefused(pin)
    \/ \E h \in Handlers :
        \/ \E pin \in Pins : ExchangeAccepted(h, pin)
        \/ ExchangeRead(h) \/ ExchangeSave(h) \/ ExchangeForget(h)
    \/ Unpair \/ Restart
    \/ \E r \in Rows : SaveRow(r)

ServerSpec == ServerInit /\ [][ServerNext]_serverVars

\* A PIN is good for one secret: however often the camera or the user tries
\* again after a lost answer, an expiry, an unpair or a restart, no second
\* secret is issued for the same initiation, and a PIN that has been honoured is
\* not pending once its exchanges have ended (exchange_certs deletes the entry
\* it has honoured).  Excepted are PINs of exchanges that overlapped.
OneSecretPerPin ==
    \A p \in Pins :
        /\ issued[p] > 1 => p \in shared
        /\ issued[p] > 0 /\ Honouring(p) = {} => pend.pin # p

\* A PIN is good for one secret, whatever overlaps ("Invalidates PIN (one-time
\* use)", docs/history/adr/0009-camera-pairing-mtls.md:154).
PinIsOneTime == \A p \in Pins : issued[p] <= 1

=============================================================================
