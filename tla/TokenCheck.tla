----------------------------- MODULE TokenCheck ------------------------------
(***************************************************************************)
(* How the forum service checks the access token of a request              *)
(* (lib/auth-jwt.ts, middleware/auth.ts, scope-guard.ts, forum-writer.ts): *)
(* look the signing key up in the auth service's published key set; when   *)
(* the look-up fails, ask the key endpoint itself whether it works, one    *)
(* probe shared by all requests that fail meanwhile; classify; then        *)
(* resolve the caller, apply the scope and role guards and run the route.  *)
(*                                                                         *)
(* The key set cache is jose's (external): it is fetched when empty, and   *)
(* again when a key is missing and the last fetch is not recent.  Keys are *)
(* numbered by generation; the set holds the current one.                  *)
(*                                                                         *)
(* The probe reads the status of the answer and nothing else; jose wants   *)
(* status 200 and a key set.  So there are five kinds of endpoint: "up",   *)
(* "error" (5xx or 429), "wrong" (any other status but 200), "malformed"   *)
(* (200, but no key set in it), and "down" (no answer).                    *)
(*                                                                         *)
(* srv[c].saw and srv[c].lagging are history: no guard looks at them.      *)
(***************************************************************************)
EXTENDS Naturals

CONSTANTS
  Calls,    \* request slots: at most one request of a client at a time
  MaxGen    \* bound on the number of key rotations

ASSUME TokenCheckAssumption == MaxGen \in Nat \ {0}

VARIABLES
  endpoint,  \* how the key endpoint answers now
  keyGen,    \* the generation of the auth service's signing key
  cached,    \* the generation in the cached key set, 0 if there is none
  cooling,   \* the key set was fetched within jose's cooldown
  probe,     \* the entry of inFlightProbes
  srv,       \* the request in every slot
  applied    \* how many writes were carried out for every slot

checkVars == <<endpoint, keyGen, cached, cooling, probe, srv, applied>>

Endpoints == {"up", "error", "wrong", "malformed", "down"}

\* The probe calls these healthy, whatever they serve.
Healthy == {"up", "wrong", "malformed"}

\* How well an endpoint did while a probe was under way.
Sights == {"outage", "healthy", "keys"}
Sight(how) == IF how = "up" THEN "keys" ELSE IF how \in Healthy THEN "healthy" ELSE "outage"
Better(a, b) == IF b = "outage" \/ a = "keys" THEN a ELSE b

NoProbe == [st |-> "none", status |-> "none", saw |-> "outage"]
Quiet   == [st |-> "quiet", gen |-> 0, write |-> FALSE, cause |-> "none",
            code |-> "none", saw |-> "outage", lagging |-> FALSE]
Probes  == [st: {"none", "sent", "answered"}, status: {"none", "ok", "error"}, saw: Sights]
Served  == [st: {"quiet", "lookup", "probe", "admit", "replied"}, gen: 0 .. MaxGen,
            write: BOOLEAN, cause: {"none", "miss", "status", "network", "expired"},
            code: {"none", "ok", "refresh", "unavailable", "refused"},
            saw: Sights, lagging: BOOLEAN]

\* A request reaches the service, signed with a key of generation gen.
Arrive(c, gen, write) ==
  srv' = [srv EXCEPT ![c] = [Quiet EXCEPT !.st = "lookup", !.gen = gen, !.write = write]]

Reply(c, code) == [srv[c] EXCEPT !.st = "replied", !.code = code]

-----------------------------------------------------------------------------
(* The key look-up. *)

Missing(c) == cached # 0 /\ cached # srv[c].gen

\* The first failure starts a probe, the others wait for the same one.
WaitForProbe(c, cause) ==
  /\ srv' = [srv EXCEPT ![c].st = "probe", ![c].cause = cause,
                        ![c].lagging = cached # 0 /\ cached < srv[c].gen]
  /\ probe' = IF probe.st = "none"
              THEN [st |-> "sent", status |-> "none", saw |-> Sight(endpoint)]
              ELSE probe

\* What jose makes of a failed fetch: an unexpected status is an error that
\* classifyVerifyError cannot place, everything else it knows as the network's.
Failure(how) == IF how \in {"error", "wrong"} THEN "status" ELSE "network"

\* jwtVerify with the right key: the signature holds, only exp can fail.
WithKey(c, expired) ==
  srv' = [srv EXCEPT ![c] =
            IF expired THEN [Reply(c, "refresh") EXCEPT !.cause = "expired"]
            ELSE [@ EXCEPT !.st = "admit"]]

Lookup(c, expired) ==
  LET q == srv[c] IN
  /\ q.st = "lookup"
  /\ \/ /\ cached = q.gen
        /\ WithKey(c, expired)
        /\ UNCHANGED <<probe, cached, cooling>>
     \/ /\ Missing(c) /\ cooling
        /\ WaitForProbe(c, "miss")
        /\ UNCHANGED <<cached, cooling>>
     \/ /\ cached = 0 \/ (Missing(c) /\ ~cooling)
        /\ endpoint = "up"
        /\ cached' = keyGen /\ cooling' = TRUE
        /\ IF q.gen = keyGen THEN WithKey(c, expired) /\ UNCHANGED probe
                             ELSE WaitForProbe(c, "miss")
     \/ /\ cached = 0 \/ (Missing(c) /\ ~cooling)
        /\ endpoint # "up"
        /\ WaitForProbe(c, Failure(endpoint))
        /\ UNCHANGED <<cached, cooling>>
  /\ UNCHANGED <<endpoint, keyGen, applied>>

-----------------------------------------------------------------------------
(* The shared probe. *)

\* Mutant: only a network failure counts as unavailable.
VerdictIgnoringStatus(cause, status) ==
  IF status = "none" \/ cause = "network" THEN "unavailable" ELSE "refresh"

\* What a failed look-up becomes: unavailable when the probe fails; else the
\* first error is raised again, which is unavailable for a network failure and
\* an invalid token for a missing key and for a status jose does not explain.
Verdict(cause, status) ==
  IF status # "ok" \/ cause = "network" THEN "unavailable" ELSE "refresh"

\* The endpoint answers the probe with a status; a dead one does not.
ProbeAnswer ==
  /\ probe.st = "sent"
  /\ endpoint # "down"
  /\ probe' = [probe EXCEPT !.st = "answered",
                            !.status = IF endpoint \in Healthy THEN "ok" ELSE "error"]
  /\ UNCHANGED <<endpoint, keyGen, cached, cooling, srv, applied>>

\* The probe ends: the map entry goes, and everyone waiting gets its verdict.
Settle(status) ==
  /\ srv' = [c \in Calls |->
               IF srv[c].st = "probe"
               THEN [Reply(c, Verdict(srv[c].cause, status)) EXCEPT !.saw = probe.saw]
               ELSE srv[c]]
  /\ probe' = NoProbe
  /\ UNCHANGED <<endpoint, keyGen, cached, cooling, applied>>

\* The body is released, or the deadline ends that.
ProbeDone == probe.st = "answered" /\ Settle(probe.status)

\* Mutant: the probe has no deadline.
ProbeDeadlineNever == FALSE /\ Settle("none")

\* The deadline aborts a fetch that has no answer yet: a network failure.
ProbeDeadline == probe.st = "sent" /\ Settle("none")

-----------------------------------------------------------------------------
(* After verification: contract claims, the caller's principal, scope and    *)
(* role guards, and the route.  Every refusal here is one the client must    *)
(* not refresh for; the route itself may also refuse or fail.                *)

Admit(c) ==
  /\ srv[c].st = "admit"
  /\ srv' = [srv EXCEPT ![c] = Reply(c, "ok")]
  /\ applied' = [applied EXCEPT ![c] = IF srv[c].write THEN @ + 1 ELSE @]
  /\ UNCHANGED <<endpoint, keyGen, cached, cooling, probe>>

Refuse(c) ==
  /\ srv[c].st = "admit"
  /\ srv' = [srv EXCEPT ![c] = Reply(c, "refused")]
  /\ UNCHANGED <<endpoint, keyGen, cached, cooling, probe, applied>>

-----------------------------------------------------------------------------
(* The auth service and the passing of time. *)

\* saw remembers the best the endpoint did before it answered the probe.
Turn(how) ==
  /\ endpoint # how
  /\ endpoint' = how
  /\ probe' = IF probe.st = "sent" THEN [probe EXCEPT !.saw = Better(@, Sight(how))]
              ELSE probe
  /\ UNCHANGED <<keyGen, cached, cooling, srv, applied>>

Rotate ==
  /\ keyGen < MaxGen
  /\ keyGen' = keyGen + 1
  /\ UNCHANGED <<endpoint, cached, cooling, probe, srv, applied>>

CoolDown ==
  /\ cooling
  /\ cooling' = FALSE
  /\ UNCHANGED <<endpoint, keyGen, cached, probe, srv, applied>>

\* The cached set reaches its maximal age.
DropKeys ==
  /\ cached # 0 /\ ~cooling
  /\ cached' = 0
  /\ UNCHANGED <<endpoint, keyGen, cooling, probe, srv, applied>>

CheckInit ==
  /\ endpoint = "up"
  /\ keyGen = 1 /\ cached = 0 /\ cooling = FALSE
  /\ probe = NoProbe
  /\ srv = [c \in Calls |-> Quiet]
  /\ applied = [c \in Calls |-> 0]

=============================================================================
