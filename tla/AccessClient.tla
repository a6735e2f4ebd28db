---------------------------- MODULE AccessClient -----------------------------
(***************************************************************************)
(* The agents' command line client (forum-access.mjs) against the token    *)
(* check of the service.  A process runs one command: it obtains a token,  *)
(* sends the command's requests one after the other, and exits.  Its token *)
(* cache starts empty and lives as long as the process; nothing in it runs *)
(* concurrently, so a refresh is never shared.  Arguments are checked      *)
(* before anything is sent; a refused command is not a step.               *)
(*                                                                         *)
(* excused[c] is history: no guard looks at it.  early[c] stands for the   *)
(* clocks: only the guard of Age, which is time passing, looks at it.      *)
(***************************************************************************)
EXTENDS TokenCheck

CONSTANTS
  Clients,     \* the request slots of client processes; the others belong to
               \* callers of whom only the requests are modelled
  Commands     \* the kinds of commands that are run

ReadCommands  == {"read"}
WriteCommands == {"write", "create"}

ASSUME AccessClientAssumption ==
  /\ Clients \subseteq Calls
  /\ Commands \subseteq {"login"} \cup ReadCommands \cup WriteCommands

VARIABLES
  pc,       \* where the process is
  cmd,      \* its command
  todo,     \* how many requests the command still has to make
  token,    \* the cached token
  result,   \* how the process ended
  early,    \* its last request left with more than a minute of token to go
  excused   \* the key service gave it a reason to fail

clientVars == <<pc, cmd, todo, token, result, early, excused>>
vars == <<checkVars, clientVars>>

NoToken == [gen |-> 0, age |-> "none"]

\* A token is "good", then "due" (within PRE_REFRESH_SECONDS of its exp), then
\* "expired".
Minted == [gen |-> keyGen, age |-> "good"]

\* Mutant: refreshed only when it has expired.
NeedsRefreshLate(t) == t.age \in {"none", "expired"}

NeedsRefresh(t) == t.age # "good"

Waiting == {"await", "reawait"}

\* create-thread posts the thread, then a first message if stdin has one
\* (without one it is like any other write).
Requests(k) ==
  CASE k = "login"  -> 0
    [] k = "create" -> 2
    [] OTHER        -> 1

-----------------------------------------------------------------------------
(* What the actions leave alone. *)

ServiceSame == UNCHANGED <<endpoint, keyGen, cached, cooling, probe, applied>>

Goto(c, where) == pc' = [pc EXCEPT ![c] = where]

\* The process continues at a place of its program with t in its cache.
Continue(c, where, t) ==
  /\ Goto(c, where)
  /\ token' = [token EXCEPT ![c] = t]
  /\ early' = [early EXCEPT ![c] = FALSE]
  /\ excused' = [excused EXCEPT ![c] = @ \/ srv[c].lagging]
  /\ UNCHANGED <<cmd, result>>

\* The process ends, and its memory with it.
Exit(c, how) ==
  /\ Goto(c, "done")
  /\ result' = [result EXCEPT ![c] = how]
  /\ token' = [token EXCEPT ![c] = NoToken]
  /\ early' = [early EXCEPT ![c] = FALSE]
  /\ excused' = [excused EXCEPT ![c] = how = "rejected" /\ (@ \/ srv[c].lagging)]
  /\ UNCHANGED cmd

-----------------------------------------------------------------------------

Start(c, k) ==
  /\ pc[c] = "idle"
  /\ Goto(c, "ensure")
  /\ cmd' = [cmd EXCEPT ![c] = k]
  /\ todo' = [todo EXCEPT ![c] = Requests(k)]
  /\ excused' = [excused EXCEPT ![c] = endpoint # "up"]
  /\ UNCHANGED <<checkVars, token, result, early>>

\* The getAccessToken (or doLogin) every command starts with.
Login(c) ==
  /\ pc[c] = "ensure"
  /\ IF todo[c] = 0 THEN Exit(c, "ok") ELSE Continue(c, "auth", Minted)
  /\ UNCHANGED <<checkVars, todo>>

\* The token endpoint refuses, fails, or does not answer in time.
LoginFails(c) ==
  /\ pc[c] = "ensure" \/ (pc[c] \in {"auth", "reauth"} /\ NeedsRefresh(token[c]))
  /\ Exit(c, "failed")
  /\ UNCHANGED <<checkVars, todo>>

\* authHeader, then the request, in one go.
Send(c) ==
  LET t == IF NeedsRefresh(token[c]) THEN Minted ELSE token[c] IN
  /\ pc[c] \in {"auth", "reauth"}
  /\ Goto(c, IF pc[c] = "auth" THEN "await" ELSE "reawait")
  /\ token' = [token EXCEPT ![c] = t]
  /\ early' = [early EXCEPT ![c] = t.age = "good"]
  /\ Arrive(c, t.gen, cmd[c] \in WriteCommands)
  /\ ServiceSame /\ UNCHANGED <<cmd, todo, result, excused>>

\* Mutant: the refused token stays in the cache.
ClearedNot(t) == t

\* clearTokenCache
Cleared(t) == NoToken

\* An answer is taken.
Receive(c, where, codes) ==
  /\ pc[c] \in where
  /\ srv[c].st = "replied" /\ srv[c].code \in codes
  /\ srv' = [srv EXCEPT ![c] = Quiet]
  /\ ServiceSame

ReceiveOk(c) ==
  /\ Receive(c, Waiting, {"ok"})
  /\ todo' = [todo EXCEPT ![c] = @ - 1]
  /\ IF todo[c] > 1 THEN Continue(c, "auth", token[c]) ELSE Exit(c, "ok")

\* A 401 TOKEN_INVALID_OR_EXPIRED, for the first time: a GET tries once more.
ReceiveInvalid(c) ==
  /\ Receive(c, {"await"}, {"refresh"})
  /\ IF cmd[c] \in ReadCommands THEN Continue(c, "reauth", Cleared(token[c]))
                                 ELSE Exit(c, "expired")
  /\ UNCHANGED todo

\* Mutant: the client refreshes and tries again for as long as it is refused.
ReceiveInvalidForever(c) ==
  /\ Receive(c, {"reawait"}, {"refresh"})
  /\ Continue(c, "reauth", Cleared(token[c]))
  /\ UNCHANGED todo

\* ... and for the second time.
ReceiveInvalidAgain(c) ==
  /\ Receive(c, {"reawait"}, {"refresh"})
  /\ Exit(c, "rejected")
  /\ UNCHANGED todo

\* 503, 403, contract errors, anything else: reported, nothing refreshed.
ReceiveError(c) ==
  /\ Receive(c, Waiting, {"unavailable", "refused"})
  /\ Exit(c, "failed")
  /\ UNCHANGED todo

\* Mutant: the request is sent again.
TimeoutResends(c) ==
  /\ pc[c] \in Waiting
  /\ Continue(c, "auth", token[c])
  /\ UNCHANGED <<checkVars, todo>>

\* REQUEST_TIMEOUT: the request or its answer is lost, or late; whatever the
\* service has begun goes on.
Timeout(c) ==
  /\ pc[c] \in Waiting
  /\ Exit(c, "failed")
  /\ srv' = [srv EXCEPT ![c] = IF @.st = "replied" THEN Quiet ELSE @]
  /\ ServiceSame /\ UNCHANGED todo

-----------------------------------------------------------------------------

Lost(c) ==
  /\ srv[c].st = "lookup"
  /\ srv' = [srv EXCEPT ![c] = Quiet]
  /\ ServiceSame /\ UNCHANGED clientVars

\* A request its client no longer waits for may be checked at any time.
Check(c) ==
  /\ \/ Lookup(c, token[c].age = "expired")
     \/ pc[c] = "done" /\ Lookup(c, TRUE)
  /\ UNCHANGED clientVars

\* Another caller, with a token from any time, whatever it does with the answer.
OtherArrives(c, gen) ==
  /\ srv[c].st = "quiet"
  /\ Arrive(c, gen, FALSE)
  /\ ServiceSame /\ UNCHANGED clientVars

OtherEnds(c) ==
  /\ srv[c].st = "replied"
  /\ srv' = [srv EXCEPT ![c] = Quiet]
  /\ ServiceSame /\ UNCHANGED clientVars

OtherCheck(c) == (\E expired \in BOOLEAN : Lookup(c, expired)) /\ UNCHANGED clientVars

Serve(c) == (Admit(c) \/ Refuse(c)) /\ UNCHANGED clientVars

\* Everyone running sees the endpoint fail.
EndpointTurns(how) ==
  /\ Turn(how)
  /\ excused' = [c \in Clients |->
       excused[c] \/ (how # "up" /\ pc[c] \notin {"idle", "done"})]
  /\ UNCHANGED <<pc, cmd, todo, token, result, early>>

\* A key that is replaced while a new token signed with it is under way is a
\* reason, too.
KeyRotates ==
  /\ Rotate
  /\ excused' = [c \in Clients |-> excused[c] \/ pc[c] = "reawait"]
  /\ UNCHANGED <<pc, cmd, todo, token, result, early>>

\* A token comes into its last minute, and expires when that is over: not
\* while a request it was still good for is waiting, as REQUEST_TIMEOUT is
\* shorter than PRE_REFRESH_SECONDS.
Age(c) ==
  /\ token[c].age \in {"good", "due"}
  /\ token[c].age = "due" => ~(pc[c] \in Waiting /\ early[c])
  /\ token' = [token EXCEPT ![c].age = IF @ = "good" THEN "due" ELSE "expired"]
  /\ UNCHANGED <<checkVars, pc, cmd, todo, result, early, excused>>

Init ==
  /\ CheckInit
  /\ pc = [c \in Clients |-> "idle"]
  /\ cmd = [c \in Clients |-> "none"]
  /\ todo = [c \in Clients |-> 0]
  /\ token = [c \in Clients |-> NoToken]
  /\ result = [c \in Clients |-> "none"]
  /\ early = [c \in Clients |-> FALSE]
  /\ excused = [c \in Clients |-> FALSE]

ClientStep(c) ==
  \/ Login(c) \/ LoginFails(c) \/ Send(c)
  \/ ReceiveOk(c) \/ ReceiveInvalid(c) \/ ReceiveInvalidAgain(c) \/ ReceiveError(c)
  \/ Timeout(c)

Next ==
  \/ \E c \in Clients, k \in Commands : Start(c, k)
  \/ \E c \in Clients : ClientStep(c) \/ Check(c) \/ Age(c)
  \/ \E c \in Calls \ Clients :
       OtherEnds(c) \/ OtherCheck(c) \/ \E gen \in 1 .. keyGen : OtherArrives(c, gen)
  \/ \E c \in Calls : Lost(c) \/ Serve(c)
  \/ (ProbeAnswer \/ ProbeDone \/ ProbeDeadline) /\ UNCHANGED clientVars
  \/ \E how \in Endpoints : EndpointTurns(how)
  \/ KeyRotates
  \/ (CoolDown \/ DropKeys) /\ UNCHANGED clientVars

\* The timers and the processes run; nothing is assumed of the key endpoint,
\* the network, or time passing for a token or a key set.
Fairness ==
  /\ \A c \in Clients : WF_vars(ClientStep(c))
  /\ WF_vars((ProbeDone \/ ProbeDeadline) /\ UNCHANGED clientVars)

Spec == Init /\ [][Next]_vars /\ Fairness

-----------------------------------------------------------------------------
(* Properties. *)

\* Every variable holds one of its values.
TypeOK ==
  /\ endpoint \in Endpoints
  /\ keyGen \in 1 .. MaxGen /\ cached \in 0 .. MaxGen /\ cooling \in BOOLEAN
  /\ probe \in Probes
  /\ srv \in [Calls -> Served]
  /\ applied \in [Calls -> 0 .. 2] /\ todo \in [Clients -> 0 .. 2]
  /\ pc \in [Clients -> {"idle", "ensure", "auth", "reauth", "done"} \cup Waiting]
  /\ cmd \in [Clients -> {"none"} \cup Commands]
  /\ token \in [Clients -> [gen: 0 .. MaxGen, age: {"none", "good", "due", "expired"}]]
  /\ result \in [Clients -> {"none", "ok", "failed", "expired", "rejected"}]
  /\ early \in [Clients -> BOOLEAN] /\ excused \in [Clients -> BOOLEAN]

\* "POST/PUT/DELETE are never auto-retried", and what a process reports of its
\* writes is so.  Whatever is lost, late or refused, each write is carried out
\* at most once; success means that all were, "please retry" that the one
\* refused was not (those before it were), and no read or login ever writes.
ExitHonest ==
  \A c \in Clients :
    /\ applied[c] <= IF cmd[c] \in WriteCommands THEN Requests(cmd[c]) ELSE 0
    /\ result[c] \in {"ok", "expired"} /\ cmd[c] \in WriteCommands =>
         applied[c] = Requests(cmd[c]) - todo[c]
    /\ result[c] = "ok" => todo[c] = 0

\* One rotation of the key never fails a read by itself: a GET gives up after its
\* second 401 only if the key endpoint did not serve its keys during the command, its new
\* token was signed with a key the service could not have fetched yet, or the key
\* rotated again while that token was under way.
RotationSurvived == \A c \in Clients : result[c] = "rejected" => excused[c]

\* The margin of the proactive refresh does its work: no client that is still
\* waiting is told that its token has expired.
NoExpiryInFlight ==
  \A c \in Clients : pc[c] \in Waiting => srv[c].cause # "expired"

\* No refresh storm from a key endpoint that is down, does not answer in time or
\* answers 5xx or 429: a request whose key look-up failed is answered with the
\* error that makes clients refresh only if the endpoint was seen to answer with
\* some other status while the probe it waited for was under way.
NoRefreshInOutage ==
  \A c \in Calls :
    srv[c].code = "refresh" /\ srv[c].cause # "expired" => srv[c].saw # "outage"

\* The same for every outage of the key set the header of auth-jwt.ts promises a
\* 503 for, a "malformed JWKS body" and a "non-2xx" included: only if the
\* endpoint served its keys meanwhile.
OutageIs503 ==
  \A c \in Calls :
    srv[c].code = "refresh" /\ srv[c].cause # "expired" => srv[c].saw = "keys"

\* Every command that was started ends, whatever the network and the services do.
CommandEnds == []<>(\A c \in Clients : pc[c] \in {"idle", "done"})

\* The service answers every request it has begun: a key endpoint that hangs
\* cannot hang the verification, and no stream of new requests keeps the old
\* ones waiting.
HandlerEnds == []<>(\A c \in Calls : srv[c].st # "probe")
=============================================================================
