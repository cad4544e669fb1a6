--------------------------- MODULE ServerResolver ---------------------------
(***************************************************************************)
(* The camera's idea of its server's address.  A thread resolves the       *)
(* configured name until a deadline, a cache file bridges restarts, and    *)
(* the heartbeat thread looks the name up again after failures and takes   *)
(* the address the server itself advertises.  Both threads store an        *)
(* address under the lock, then rewrite the cache and clear the fault.     *)
(***************************************************************************)
EXTENDS Naturals
CONSTANTS
  Addresses,    \* addresses the server may have
  Threshold,    \* RESOLVER_REFRESH_FAILURE_THRESHOLD
  MaxMoves    \* bound: moves of the server, outages of the name, restarts
ASSUME ThresholdAssumption == Threshold \in Nat \ {0} /\ MaxMoves \in Nat
VARIABLES
  real,         \* the server's addresses: what a lookup finds, what it advertises
  named,        \* a lookup of the name succeeds
  resolved,     \* _resolved_ip
  cache,        \* server_resolved_ip
  fault,        \* mdns_resolution_failed is reported
  search,       \* the resolver thread: "trying", "clear", "blame" or "ended"
  pulse,        \* the heartbeat thread: its step, and the step after it
  failures,     \* _consecutive_network_failures
  moves
resolverVars == <<real, named, resolved, cache, fault, search, pulse, failures, moves>>

Unknown == "unknown"
Known == Addresses \cup {Unknown}
Homes == [found : Addresses, advertised : Addresses]
At(step, next) == [at |-> step, next |-> next]
Asleep == At("idle", "idle")

ResolverInit ==
  /\ real \in Homes /\ named \in BOOLEAN /\ cache \in Known /\ resolved = cache
  /\ fault = FALSE /\ search = "trying" /\ pulse = Asleep /\ failures = 0 /\ moves = 0

Moved == moves < MaxMoves /\ moves' = moves + 1

(* start: _prime_from_cache ignores an entry that is too old               *)
ResolverStarts ==
  /\ Moved /\ resolved' \in {cache, Unknown}
  /\ fault' = FALSE /\ search' = "trying" /\ pulse' = Asleep /\ failures' = 0
  /\ UNCHANGED <<real, named, cache>>

Move(home) ==
  /\ Moved /\ home # real /\ real' = home
  /\ UNCHANGED <<named, resolved, cache, fault, search, pulse, failures>>

NameComesOrGoes ==
  /\ Moved /\ named' = ~named
  /\ UNCHANGED <<real, resolved, cache, fault, search, pulse, failures>>

(* _run: the name resolves; _set_resolved_ip up to the lock's release      *)
Found ==
  /\ search = "trying" /\ named /\ resolved' = real.found /\ search' = "clear"
  /\ UNCHANGED <<real, named, cache, fault, pulse, failures, moves>>

(* DEADLINE_S is over                                                      *)
Deadline ==
  /\ search = "trying" /\ search' = IF resolved = Unknown THEN "blame" ELSE "ended"
  /\ UNCHANGED <<real, named, resolved, cache, fault, pulse, failures, moves>>

AddFault ==
  /\ search = "blame" /\ search' = "ended" /\ fault' = TRUE
  /\ UNCHANGED <<real, named, resolved, cache, pulse, failures, moves>>

\* mutant of Settled: the fault is left for the resolver's own thread to clear
SettledFaultKept == cache' \in {cache, resolved} /\ fault' = (fault /\ search # "clear")

(* The rest of _set_resolved_ip; the cache is written on a best effort     *)
Settled == cache' \in {cache, resolved} /\ fault' = FALSE

SearchEnds ==
  /\ search = "clear" /\ Settled /\ search' = "ended"
  /\ UNCHANGED <<real, named, resolved, pulse, failures, moves>>

(* _run looks the name up before every heartbeat                           *)
NextPulse ==
  /\ pulse.at = "idle" /\ pulse' = At("lookup", "send")
  /\ UNCHANGED <<real, named, resolved, cache, fault, search, failures, moves>>

(* refresh_now: the tick's, a network event's or the one after failures    *)
LookUp ==
  /\ pulse.at = "lookup"
  /\ IF named THEN resolved' = real.found /\ pulse' = At("clear", pulse.next)
     ELSE UNCHANGED resolved /\ pulse' = At(pulse.next, "idle")
  /\ UNCHANGED <<real, named, cache, fault, search, failures, moves>>

PulseEnds ==
  /\ pulse.at = "clear" /\ Settled /\ pulse' = At(pulse.next, "idle")
  /\ UNCHANGED <<real, named, resolved, search, failures, moves>>

(* _send goes to the address, or to the name where there is none           *)
Reaches == IF resolved = Unknown THEN named ELSE resolved \in {real.found, real.advertised}

(* _apply_server_endpoint, update_preferred_ip                             *)
Answered ==
  /\ pulse.at = "send" /\ Reaches /\ failures' = 0
  /\ resolved' = real.advertised /\ pulse' = At("clear", "idle")
  /\ UNCHANGED <<real, named, cache, fault, search, moves>>

Unanswered ==
  /\ pulse.at = "send" /\ ~Reaches
  /\ failures' = IF failures < Threshold THEN failures + 1 ELSE failures
  /\ pulse' = IF failures' >= Threshold THEN At("lookup", "idle") ELSE Asleep
  /\ UNCHANGED <<real, named, resolved, cache, fault, search, moves>>

Searching == Found \/ Deadline \/ AddFault \/ SearchEnds
Beating == NextPulse \/ LookUp \/ PulseEnds \/ Answered \/ Unanswered
ResolverNext ==
  Searching \/ Beating \/ ResolverStarts \/ NameComesOrGoes \/ \E home \in Homes : Move(home)

(* Two threads that never stop, one with a deadline and one periodic       *)
ResolverFairness == WF_resolverVars(Searching) /\ WF_resolverVars(Beating)
ResolverSpec == ResolverInit /\ [][ResolverNext]_resolverVars /\ ResolverFairness

ResolverTypeOK ==
  /\ real \in Homes /\ {resolved, cache} \subseteq Known /\ {named, fault} \subseteq BOOLEAN
  /\ search \in {"trying", "clear", "blame", "ended"}
  /\ {pulse.at, pulse.next} \subseteq {"idle", "lookup", "send", "clear"}
  /\ failures \in 0..Threshold /\ moves \in 0..MaxMoves

(* Once the name resolves for good the camera comes to use an address of   *)
(* its server and the fault is gone for good, whatever the cache held,     *)
(* however often the server moved, and although the deadline's fault can   *)
(* overtake a heartbeat that has just resolved the name: _run, refresh_now,*)
(* _set_resolved_ip, _send.                                                *)
FollowsServer == <>[]named => <>[](resolved \in {real.found, real.advertised} /\ ~fault)
=============================================================================
