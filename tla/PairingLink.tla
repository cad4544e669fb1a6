---------------------------- MODULE PairingLink ----------------------------
(***************************************************************************)
(* A camera and the server that may or may not know it.  The camera's side *)
(* is CameraLifecycle, PairingManager, HeartbeatSender and the pairing     *)
(* handlers of the status server (camera_streamer/); the server's side is  *)
(* PairingService plus the heartbeat and goodbye handlers (api/cameras.py, *)
(* CameraService.accept_heartbeat).  Between them messages are delayed and *)
(* lost, and either side may stop and start again at any point.            *)
(***************************************************************************)
EXTENDS PairingService

CONSTANTS
    Threshold,     \* UNPAIR_401_THRESHOLD
    MaxLost,       \* bound on lost messages
    MaxMishaps,    \* bound on the camera's power losses and failed file operations
    MaxPeople      \* bound on what administrators and camera users do

ASSUME LinkAssumption ==
    /\ Threshold \in Nat \ {0}
    /\ MaxLost \in Nat
    /\ MaxMishaps \in Nat
    /\ MaxPeople \in Nat

VARIABLES
    mode,       \* "pairing" or "running": CameraLifecycle; "down"
    cert,       \* client.crt exists (PairingManager.is_paired)
    secret,     \* what pairing_secret holds
    beating,    \* the heartbeat thread is in its loop
    unknowns,   \* _consecutive_unknown_camera
    term,       \* a SIGTERM to the process is on its way
    pairing,    \* the /pair request under way: step, PIN, the handler that
                \* serves it, and the answer
    beat,       \* the heartbeat under way: step, signing secret (None once
                \* the sender is gone), the handler's copy of the row
    sweep,      \* check_offline's copy of the row, Absent when it has none
    used        \* how much of each bound has been spent

cameraVars == <<mode, cert, secret, beating, unknowns, term>>
wireVars   == <<pairing, beat>>
vars       == <<serverVars, cameraVars, wireVars, sweep, used>>

NoPairing == [step |-> "none", pin |-> None, by |-> None, answer |-> None]
NoBeat    == [step |-> "none", signed |-> None, copy |-> Absent]

Budget == [lost |-> MaxLost, mishaps |-> MaxMishaps, people |-> MaxPeople]

LinkTypeOK ==
    /\ ServerTypeOK
    /\ mode \in {"pairing", "running", "down"}
    /\ cert \in BOOLEAN
    /\ secret \in 0..secrets
    /\ beating \in BOOLEAN
    /\ unknowns \in 0..Threshold
    /\ term \in BOOLEAN
    /\ pairing \in [step : {"none", "sent", "served", "answered", "stored"}, pin : Nat,
                    by : Nat, answer : 0..secrets]
    /\ beat \in [step : {"none", "sent", "verified", "copied", "accepted",
                         "unknown", "refused"},
                 signed : 0..secrets, copy : Rows]
    /\ sweep \in Rows
    /\ used \in [DOMAIN Budget -> Nat]
    /\ \A k \in DOMAIN Budget : used[k] <= Budget[k]

Init ==
    /\ ServerInit
    /\ mode = "down"
    /\ cert = FALSE
    /\ secret = None
    /\ beating = FALSE
    /\ unknowns = 0
    /\ term = FALSE
    /\ pairing = NoPairing
    /\ beat = NoBeat
    /\ sweep = Absent
    /\ used = [k \in DOMAIN Budget |-> 0]

Spend(kinds) ==
    /\ \A k \in kinds : used[k] < Budget[k]
    /\ used' = [k \in DOMAIN used |-> IF k \in kinds THEN used[k] + 1 ELSE used[k]]

-----------------------------------------------------------------------------
(* The camera's life.                                                      *)

\* systemd starts the process: PAIRING without a certificate, otherwise on to
\* RUNNING, where the heartbeat thread is started if there is one
Boot ==
    /\ mode = "down"
    /\ mode' = IF cert THEN "running" ELSE "pairing"
    /\ beating' = cert
    /\ unknowns' = 0
    /\ UNCHANGED <<serverVars, cert, secret, term, wireVars, sweep, used>>

\* _do_pairing sees the certificate and moves on by itself
PairingDone ==
    /\ mode = "pairing"
    /\ cert
    /\ mode' = "running"
    /\ beating' = TRUE
    /\ UNCHANGED <<serverVars, cert, secret, unknowns, term, wireVars, sweep, used>>

\* the process dies with its requests; the server may still be serving one
StopProcess ==
    /\ mode' = "down"
    /\ beating' = FALSE
    /\ term' = FALSE
    /\ pairing' = NoPairing
    /\ beat' = IF beat.step \in {"verified", "copied"}
               THEN [beat EXCEPT !.signed = None] ELSE NoBeat
    /\ UNCHANGED <<cert, secret, unknowns>>

Terminated ==
    /\ term
    /\ StopProcess
    /\ UNCHANGED <<serverVars, sweep, used>>

PowerLoss ==
    /\ mode # "down"
    /\ Spend({"mishaps"})
    /\ StopProcess
    /\ UNCHANGED <<serverVars, sweep>>

\* _register_with_server, every ten seconds while unpaired
Register ==
    /\ mode = "pairing"
    /\ ~cert
    /\ ReportCamera("no")
    /\ UNCHANGED <<cameraVars, wireVars, sweep, used>>

\* the mDNS record of a running camera is seen; its paired flag is the one
\* read when the record was published
MdnsSeen ==
    /\ mode = "running"
    /\ Spend({"people"})
    /\ ReportCamera("yes")
    /\ UNCHANGED <<cameraVars, wireVars, sweep>>

-----------------------------------------------------------------------------
(* Pairing, from the camera's /pair page.                                  *)

\* reset_local_state removes the files one by one and only logs a failure
Wipe(spent) ==
    \/ cert' = FALSE /\ secret' = None /\ Spend(spent)
    \/ /\ cert' \in {cert, FALSE}
       /\ secret' \in {secret, None}
       /\ Spend(spent \cup {"mishaps"})

\* _handle_pair: a paired camera forgets first, then the PIN is sent; the
\* user types the PIN of some initiation
SubmitPin(pin) ==
    /\ mode # "down"
    /\ pairing = NoPairing
    /\ pin <= pins
    /\ IF cert THEN Wipe({"people"}) ELSE Spend({"people"}) /\ UNCHANGED <<cert, secret>>
    /\ pairing' = [NoPairing EXCEPT !.step = "sent", !.pin = pin]
    /\ UNCHANGED <<serverVars, mode, beating, unknowns, term, beat, sweep>>

\* exchange_certs refuses
PinRefused ==
    /\ pairing.step = "sent"
    /\ ExchangeRefused(pairing.pin)
    /\ pairing' = NoPairing
    /\ UNCHANGED <<cameraVars, beat, sweep, used>>

PinAccepted(h) ==
    /\ pairing.step = "sent"
    /\ ExchangeAccepted(h, pairing.pin)
    /\ pairing' = [pairing EXCEPT !.step = "served", !.by = h]
    /\ UNCHANGED <<cameraVars, beat, sweep, used>>

\* the camera still waits for what this handler does
Awaited(h) == pairing.step = "served" /\ pairing.by = h

\* an error on the way is the answer
PinChecked(h) ==
    /\ ExchangeRead(h)
    /\ pairing' = IF Awaited(h) /\ exchange'[h] = Idle THEN NoPairing ELSE pairing
    /\ UNCHANGED <<cameraVars, beat, sweep, used>>

Trusted(h) ==
    /\ ExchangeSave(h)
    /\ UNCHANGED <<cameraVars, wireVars, sweep, used>>

\* the server finishes; its answer reaches the camera that still waits for it,
\* or carries an error because nothing was pending any more
Finish(h) ==
    /\ ExchangeForget(h)
    /\ pairing' = IF ~Awaited(h) THEN pairing
                  ELSE IF pend = NoPend THEN NoPairing
                  ELSE [pairing EXCEPT !.step = "answered", !.answer = exchange[h].secret]
    /\ UNCHANGED <<cameraVars, beat, sweep, used>>

\* the request never reaches the server, or its answer is lost or too late (the
\* camera waits for thirty seconds): the handler goes on alone
PinLost ==
    /\ pairing.step \in {"sent", "served"}
    /\ Spend({"lost"})
    /\ pairing' = NoPairing
    /\ UNCHANGED <<serverVars, cameraVars, beat, sweep>>

\* PairingManager._store_certs: client.crt is the first file; a write that
\* fails ends the pairing with the files written so far in place
StoreCerts ==
    /\ pairing.step = "answered"
    /\ \/ /\ cert' = TRUE
          /\ pairing' = [pairing EXCEPT !.step = "stored"]
          /\ UNCHANGED used
       \/ /\ cert' \in BOOLEAN
          /\ pairing' = NoPairing
          /\ Spend({"mishaps"})
    /\ UNCHANGED <<serverVars, mode, secret, beating, unknowns, term, beat, sweep>>

\* the secret, which may fail to be written without the pairing failing; then
\* the process restarts itself
StoreSecret ==
    /\ pairing.step = "stored"
    /\ \/ secret' = pairing.answer /\ UNCHANGED used
       \/ UNCHANGED secret /\ Spend({"mishaps"})
    /\ term' = TRUE
    /\ pairing' = NoPairing
    /\ UNCHANGED <<serverVars, mode, cert, beating, unknowns, beat, sweep>>

\* _handle_unpair on the camera's page, which serves one request at a time:
\* goodbye, which counts only if signed with the secret of the row, then the
\* local wipe whatever came of it
ForgetServer ==
    /\ mode # "down"
    /\ pairing = NoPairing
    /\ cert
    /\ \/ secret # None /\ secret = row.secret /\ Unpair /\ Wipe({"people"})
       \/ secret = None /\ UNCHANGED serverVars /\ Wipe({"people"})
       \/ secret # row.secret /\ UNCHANGED serverVars /\ Wipe({"people"})
       \/ secret # None /\ UNCHANGED serverVars /\ Wipe({"people", "lost"})
    /\ term' = TRUE
    /\ UNCHANGED <<mode, beating, unknowns, wireVars, sweep>>

-----------------------------------------------------------------------------
(* Heartbeats.                                                             *)

SendBeat ==
    /\ mode = "running"
    /\ beating
    /\ secret # None
    /\ beat = NoBeat
    /\ beat' = [NoBeat EXCEPT !.step = "sent", !.signed = secret]
    /\ UNCHANGED <<serverVars, cameraVars, pairing, sweep, used>>

\* _verify_camera_hmac; an unknown camera is also reported to discovery
VerifyBeat ==
    /\ beat.step = "sent"
    /\ \/ /\ row.secret = None
          /\ beat' = [beat EXCEPT !.step = "unknown"]
          /\ ReportCamera("unsaid")
       \/ /\ row.secret \notin {None, beat.signed}
          /\ beat' = [beat EXCEPT !.step = "refused"]
          /\ UNCHANGED serverVars
       \/ /\ row.secret = beat.signed
          /\ beat' = [beat EXCEPT !.step = "verified"]
          /\ UNCHANGED serverVars
    /\ UNCHANGED <<cameraVars, pairing, sweep, used>>

\* accept_heartbeat takes a copy of the row, which may have gone by now ...
CopyRow ==
    /\ beat.step = "verified"
    /\ \/ /\ ~Exists
          /\ beat' = IF beat.signed = None THEN NoBeat
                     ELSE [beat EXCEPT !.step = "refused"]
       \/ /\ Exists
          /\ beat' = [beat EXCEPT !.step = "copied", !.copy = row]
    /\ UNCHANGED <<serverVars, cameraVars, pairing, sweep, used>>

\* ... and saves the whole copy with the camera online
SaveBeat ==
    /\ beat.step = "copied"
    /\ SaveRow([beat.copy EXCEPT !.status = "online", !.seen = "recent"])
    /\ beat' = IF beat.signed = None THEN NoBeat
               ELSE [NoBeat EXCEPT !.step = "accepted"]
    /\ UNCHANGED <<cameraVars, pairing, sweep, used>>

\* mutant of BeatAnswered: the loop goes on after the camera has forgotten
BeatAnsweredGoesOn ==
    /\ \/ /\ beat.step = "accepted"
          /\ unknowns' = 0
          /\ UNCHANGED <<cert, secret, beating, term, used>>
       \/ /\ beat.step = "refused"
          /\ UNCHANGED <<cert, secret, beating, unknowns, term, used>>
       \/ /\ beat.step = "unknown"
          /\ unknowns' = unknowns + 1
          /\ IF unknowns' >= Threshold
             THEN Wipe({}) /\ UNCHANGED <<beating, term>>
             ELSE UNCHANGED <<cert, secret, beating, term, used>>
    /\ beat' = NoBeat
    /\ UNCHANGED <<serverVars, mode, pairing, sweep>>

\* mutant of BeatAnswered: the loop ends and nothing is forgotten
BeatAnsweredGivesUp ==
    /\ \/ /\ beat.step = "accepted"
          /\ unknowns' = 0
          /\ UNCHANGED <<cert, secret, beating, term, used>>
       \/ /\ beat.step = "refused"
          /\ UNCHANGED <<cert, secret, beating, unknowns, term, used>>
       \/ /\ beat.step = "unknown"
          /\ unknowns' = unknowns + 1
          /\ IF unknowns' >= Threshold
             THEN beating' = FALSE /\ UNCHANGED <<cert, secret, term, used>>
             ELSE UNCHANGED <<cert, secret, beating, term, used>>
    /\ beat' = NoBeat
    /\ UNCHANGED <<serverVars, mode, pairing, sweep>>

\* the camera reads the answer; a run of "Unknown camera" answers makes it
\* forget the server and restart (_handle_server_unpair)
BeatAnswered ==
    /\ \/ /\ beat.step = "accepted"
          /\ unknowns' = 0
          /\ UNCHANGED <<cert, secret, beating, term, used>>
       \/ /\ beat.step = "refused"
          /\ UNCHANGED <<cert, secret, beating, unknowns, term, used>>
       \/ /\ beat.step = "unknown"
          /\ unknowns' = unknowns + 1
          /\ IF unknowns' >= Threshold
             THEN Wipe({}) /\ beating' = FALSE /\ term' = TRUE
             ELSE UNCHANGED <<cert, secret, beating, term, used>>
    /\ beat' = NoBeat
    /\ UNCHANGED <<serverVars, mode, pairing, sweep>>

\* a request or an answer is lost: the camera sees a network error
BeatLost ==
    /\ beat.step \in {"sent", "accepted", "unknown", "refused"}
    /\ Spend({"lost"})
    /\ beat' = NoBeat
    /\ UNCHANGED <<serverVars, cameraVars, pairing, sweep>>

-----------------------------------------------------------------------------
(* The administrator and the server's own threads.                         *)

AdminOp ==
    /\ Spend({"people"})
    /\ InitiateCheck \/ Unpair \/ AddCamera \/ Confirm \/ Delete
    /\ UNCHANGED <<cameraVars, wireVars, sweep>>

ServerStep ==
    /\ InitiateCommit \/ PinExpires \/ GetPendingPairing \/ GrowsOld
    /\ UNCHANGED <<cameraVars, wireVars, sweep, used>>

\* mutant of OfflineCheck: only paired rows are looked at
OfflineCheckPaired ==
    /\ sweep = Absent
    /\ row.status = "online"
    /\ row.seen = "old"
    /\ row.secret # None
    /\ sweep' = row
    /\ UNCHANGED <<serverVars, cameraVars, wireVars, used>>

\* check_offline, every few seconds and without a lock: it reads the rows,
\* skips one that was never seen, and saves its whole copy as offline
OfflineCheck ==
    /\ sweep = Absent
    /\ row.status = "online"
    /\ row.seen = "old"
    /\ sweep' = row
    /\ UNCHANGED <<serverVars, cameraVars, wireVars, used>>

OfflineSave ==
    /\ sweep # Absent
    /\ SaveRow([sweep EXCEPT !.status = "offline"])
    /\ sweep' = Absent
    /\ UNCHANGED <<cameraVars, wireVars, used>>

\* the requests being served are lost with the server
ServerRestart ==
    /\ Restart
    /\ pairing' = IF pairing.step \in {"sent", "served"} THEN NoPairing ELSE pairing
    /\ beat' = IF beat.step \in {"sent", "verified", "copied"} THEN NoBeat ELSE beat
    /\ sweep' = Absent
    /\ UNCHANGED <<cameraVars, used>>

Next ==
    \/ Boot \/ PairingDone \/ Terminated \/ PowerLoss \/ Register \/ MdnsSeen
    \/ \E pin \in Pins : SubmitPin(pin)
    \/ \E h \in Handlers : PinAccepted(h) \/ PinChecked(h) \/ Trusted(h) \/ Finish(h)
    \/ PinRefused \/ PinLost \/ StoreCerts \/ StoreSecret
    \/ ForgetServer
    \/ SendBeat \/ VerifyBeat \/ CopyRow \/ SaveBeat \/ BeatAnswered \/ BeatLost
    \/ AdminOp \/ ServerStep \/ OfflineCheck \/ OfflineSave \/ ServerRestart

Spec == Init /\ [][Next]_vars

\* Both processes run their loops, a request that is being served is finished,
\* and time passes.  Losses, crashes and what people do are bounded or free.
Fairness ==
    /\ WF_vars(Boot) /\ WF_vars(PairingDone) /\ WF_vars(Terminated)
    /\ WF_vars(Register)
    /\ WF_vars(PinRefused \/ \E h \in Handlers : PinAccepted(h))
    /\ \A h \in Handlers : WF_vars(PinChecked(h) \/ Trusted(h) \/ Finish(h))
    /\ WF_vars(StoreCerts) /\ WF_vars(StoreSecret)
    /\ WF_vars(SendBeat) /\ WF_vars(VerifyBeat) /\ WF_vars(CopyRow)
    /\ WF_vars(SaveBeat) /\ WF_vars(BeatAnswered)
    /\ WF_vars(ServerStep) /\ WF_vars(OfflineCheck) /\ WF_vars(OfflineSave)

LiveSpec == Spec /\ Fairness

-----------------------------------------------------------------------------
(* Properties.                                                             *)

\* A camera whose secret the server has dropped finds out: its heartbeats are
\* answered "Unknown camera" until it forgets the server, or it is paired
\* again first (HeartbeatSender._send and _handle_server_unpair).
NoticesUnpair ==
    (cert /\ secret # None /\ row.secret = None)
        ~> (~cert \/ secret = None \/ row.secret # None)

Linked  == mode = "running" /\ secret # None /\ secret = row.secret
Offered == row.status # "online" \/ row.seen = "never"

\* Whatever was lost, crashed or half done, the two sides come back again and
\* again to a state in which the camera is linked or the dashboard offers to
\* pair it: a row that was ever seen does not stay online for a camera that
\* cannot speak for it (check_offline, report_camera, the camera's restarts).
Recovers == []<>(Linked \/ Offered)

\* A camera that stays unpaired ends up, for good, as a pending row
\* (_do_pairing registers until it is paired; report_camera, paired=False).
UnpairedIsListed == <>[](mode = "pairing" /\ ~cert) => <>[](row.status = "pending")

\* What is out of order heals: both of the above, whatever was lost, failed or
\* restarted on the way.
LinkHeals == Recovers /\ UnpairedIsListed

\* A row without a secret gets one only from exchange_certs: what an unpair has
\* removed from trust stays out until the camera is paired again.
TrustOnlyByExchange ==
    [][row.secret = None /\ row'.secret # None => secrets' # secrets]_vars

=============================================================================
