-------------------------- MODULE AccessClientProofs --------------------------
(***************************************************************************)
(* Theorems about AccessClient, for any callers, clients, commands and any *)
(* number of key rotations.                                                *)
(*                                                                         *)
(* The argument.  The slot of a client tells where its one request is, so  *)
(* what has been carried out is what the command has sent, less what is    *)
(* still on its way (WritesSound).  A retry carries a token signed with    *)
(* the key of the moment; unless that key is replaced under way, the       *)
(* look-up can only miss it in a key set that is older (RetrySound).       *)
(***************************************************************************)
EXTENDS AccessClient, TLAPS

-----------------------------------------------------------------------------
(* The inductive invariant. *)

Causes == {"miss", "status", "network"}

\* A slot holds the cause of a failed look-up from then on, and a code only when
\* the request is answered; only clients write.
SlotsSound ==
  \A c \in Calls :
    /\ srv[c].st # "replied" => srv[c].code = "none"
    /\ srv[c].st = "probe"   => srv[c].cause \in Causes
    /\ srv[c].code = "refresh" => srv[c].cause # "none"
    /\ srv[c].code = "refresh" /\ srv[c].cause # "expired" => srv[c].saw # "outage"
    /\ c \notin Clients => ~srv[c].write

\* The shared probe knows whether the endpoint answered well since it was sent.
ProbeSound ==
  /\ probe.st = "sent" /\ endpoint \in Healthy => probe.saw # "outage"
  /\ probe.status = "ok" => probe.saw # "outage"

\* Keys are not known before they exist.
KeysSound ==
  /\ cached <= keyGen
  /\ \A c \in Calls : srv[c].gen <= keyGen
  /\ \A c \in Clients : token[c].gen <= keyGen

\* A client that waits sent a token with more than the margin to go.
WaitSound ==
  \A c \in Clients : pc[c] \in Waiting =>
    /\ early[c] /\ token[c].age \in {"good", "due"}
    /\ srv[c].cause # "expired"

\* An outage excuses whoever runs.
OutageSound ==
  \A c \in Clients : pc[c] \notin {"idle", "done"} /\ endpoint # "up" => excused[c]

\* A retry that has no excuse carries the current key, and misses it only in a
\* key set that is behind.
RetrySound ==
  \A c \in Clients :
    /\ pc[c] = "reauth" => token[c] = NoToken
    /\ pc[c] = "reawait" /\ ~excused[c] =>
         /\ srv[c].st # "quiet" => srv[c].gen = keyGen
         /\ srv[c].cause \in {"none", "miss"}
         /\ srv[c].cause = "miss" => srv[c].lagging

InFlight(c) == IF srv[c].st \in {"lookup", "probe", "admit"} THEN 1 ELSE 0
Answered(c) == IF srv[c].st = "replied" /\ srv[c].code = "ok" THEN 1 ELSE 0

\* What has been carried out for a client is what its command has sent, less the
\* request that is on its way.
Accounted(c) ==
  /\ pc[c] \in {"idle", "ensure", "auth", "reauth"} => srv[c] = Quiet
  /\ pc[c] \in {"auth", "reauth"} \cup Waiting => todo[c] >= 1
  /\ pc[c] \in {"reauth", "reawait"} => cmd[c] \in ReadCommands
  /\ pc[c] # "done" => result[c] = "none"
  /\ pc[c] = "idle" => cmd[c] = "none"
  /\ result[c] = "ok" => todo[c] = 0
  /\ cmd[c] \notin WriteCommands => ~srv[c].write /\ applied[c] = 0
  /\ cmd[c] \in WriteCommands =>
       /\ todo[c] <= Requests(cmd[c])
       /\ srv[c].st # "quiet" => srv[c].write
       /\ pc[c] \in {"ensure", "auth"} => applied[c] = Requests(cmd[c]) - todo[c]
       /\ pc[c] \in Waiting =>
            applied[c] = Requests(cmd[c]) - todo[c] + Answered(c)
       /\ result[c] \in {"ok", "expired"} =>
            srv[c] = Quiet /\ applied[c] = Requests(cmd[c]) - todo[c]
       /\ pc[c] = "done" => applied[c] + InFlight(c) <= Requests(cmd[c])

WritesSound == \A c \in Clients : Accounted(c)

AccessInv ==
  /\ TypeOK
  /\ SlotsSound /\ ProbeSound /\ KeysSound
  /\ WaitSound /\ OutageSound /\ RetrySound /\ WritesSound /\ RotationSurvived

-----------------------------------------------------------------------------
(* Facts that many steps use. *)

LEMMA QuietServed == Quiet \in Served
  BY TokenCheckAssumption DEF Quiet, Served, Sights

LEMMA MintedType ==
  ASSUME TypeOK PROVE Minted \in [gen: 0 .. MaxGen, age: {"good"}]
  BY TokenCheckAssumption DEF TypeOK, Minted

LEMMA NoTokenType ==
  NoToken \in [gen: 0 .. MaxGen, age: {"none", "good", "due", "expired"}]
  BY TokenCheckAssumption DEF NoToken

LEMMA RequestsType ==
  /\ \A k \in Commands : Requests(k) \in 0 .. 2
  /\ \A k \in WriteCommands : Requests(k) \in 1 .. 2
  /\ \A k \in ReadCommands : Requests(k) = 1 /\ k \notin WriteCommands
  /\ "none" \notin ReadCommands \cup WriteCommands
  BY DEF Requests, WriteCommands, ReadCommands

\* What a look-up does to its slot: the key is there and the token good, or not
\* good; or it fails, for a reason, and waits for the probe.
LEMMA WithKeyEffect ==
  ASSUME srv \in [Calls -> Served], NEW c \in Calls, NEW expired \in BOOLEAN,
         WithKey(c, expired)
  PROVE  LET q == srv[c] IN
         \/ ~expired /\ srv' = [srv EXCEPT ![c] = [q EXCEPT !.st = "admit"]]
         \/ expired /\ srv' = [srv EXCEPT ![c] =
              [q EXCEPT !.st = "replied", !.code = "refresh", !.cause = "expired"]]
  BY DEF WithKey, Reply

LEMMA WaitEffect ==
  ASSUME srv \in [Calls -> Served], NEW c \in Calls, NEW cause, WaitForProbe(c, cause)
  PROVE  LET q == srv[c] IN
         srv' = [srv EXCEPT ![c] = [q EXCEPT !.st = "probe", !.cause = cause,
                                      !.lagging = cached # 0 /\ cached < q.gen]]
  BY DEF WaitForProbe

\* The ways a look-up ends, in terms of the slot before (q) and after (n).
Admitted(q, n) == n.st = "admit" /\ n.code = q.code /\ n.cause = q.cause
Expired(q, n)  == n.st = "replied" /\ n.code = "refresh" /\ n.cause = "expired"
Failed(q, n) ==
  /\ n.st = "probe" /\ n.code = q.code /\ n.cause \in Causes
  /\ n.lagging <=> cached # 0 /\ cached < q.gen
  /\ n.cause = "miss" => (cached # 0 /\ cached # q.gen) \/ q.gen # keyGen
  /\ n.cause # "miss" => endpoint # "up"

ProbeSent ==
  /\ probe' \in Probes /\ probe'.status = "none"
  /\ endpoint \in Healthy => probe'.saw # "outage"

LEMMA LookupEffect ==
  ASSUME TypeOK, NEW c \in Calls, NEW expired \in BOOLEAN, Lookup(c, expired)
  PROVE  /\ \E n \in Served :
              /\ srv' = [srv EXCEPT ![c] = n]
              /\ n.gen = srv[c].gen /\ n.write = srv[c].write /\ n.saw = srv[c].saw
              /\ \/ Admitted(srv[c], n) /\ n.lagging = srv[c].lagging
                 \/ Expired(srv[c], n) /\ n.lagging = srv[c].lagging /\ expired
                 \/ Failed(srv[c], n)
         /\ \/ probe' = probe \/ ProbeSent
         /\ cached' \in {cached, keyGen} /\ cooling' \in BOOLEAN
         /\ srv[c].st = "lookup"
<1> DEFINE q == srv[c]
<1>1. srv \in [Calls -> Served] /\ q \in Served
  BY DEF TypeOK
<1>2. cooling' \in BOOLEAN /\ cached' \in {cached, keyGen}
  <2>1. cooling' = cooling \/ cooling' = TRUE
    BY DEF Lookup
  <2>2. QED
    BY <2>1 DEF Lookup, TypeOK
<1>3. CASE WithKey(c, expired) /\ UNCHANGED probe
  <2> DEFINE a == [q EXCEPT !.st = "admit"]
             e == [q EXCEPT !.st = "replied", !.code = "refresh", !.cause = "expired"]
  <2>1. a \in Served /\ a.gen = q.gen /\ a.write = q.write /\ a.saw = q.saw
        /\ Admitted(q, a) /\ a.lagging = q.lagging
    BY <1>1 DEF Served, Admitted
  <2>2. e \in Served /\ e.gen = q.gen /\ e.write = q.write /\ e.saw = q.saw
        /\ Expired(q, e) /\ e.lagging = q.lagging
    BY <1>1 DEF Served, Expired
  <2>3. \/ ~expired /\ srv' = [srv EXCEPT ![c] = a]
        \/ expired /\ srv' = [srv EXCEPT ![c] = e]
    BY <1>1, <1>3, WithKeyEffect
  <2> HIDE DEF a, e
  <2>4. q.st = "lookup"
    BY DEF Lookup
  <2>5. QED
    BY <1>2, <1>3, <2>1, <2>2, <2>3, <2>4
<1>4. ASSUME NEW cause \in Causes, WaitForProbe(c, cause),
             cause = "miss" => (cached # 0 /\ cached # q.gen) \/ q.gen # keyGen,
             cause # "miss" => endpoint # "up"
      PROVE  /\ \E n \in Served :
                  /\ srv' = [srv EXCEPT ![c] = n]
                  /\ n.gen = q.gen /\ n.write = q.write /\ n.saw = q.saw
                  /\ Failed(q, n)
             /\ \/ probe' = probe \/ ProbeSent
             /\ cached' \in {cached, keyGen} /\ cooling' \in BOOLEAN
             /\ q.st = "lookup"
  <2> DEFINE f == [q EXCEPT !.st = "probe", !.cause = cause,
                            !.lagging = cached # 0 /\ cached < q.gen]
  <2>1. f \in Served /\ f.gen = q.gen /\ f.write = q.write /\ f.saw = q.saw
        /\ f.st = "probe" /\ f.code = q.code /\ f.cause = cause
    BY <1>1, <1>4 DEF Served, Causes
  <2>2. f.lagging = (cached # 0 /\ cached < q.gen)
    BY <1>1 DEF Served
  <2>3. Failed(q, f)
    BY <1>4, <2>1, <2>2 DEF Failed
  <2>4. srv' = [srv EXCEPT ![c] = f]
    BY <1>1, <1>4, WaitEffect
  <2>5. \/ probe' = probe \/ ProbeSent
    <3> DEFINE p == [st |-> "sent", status |-> "none", saw |-> Sight(endpoint)]
    <3>1. p \in Probes /\ p.status = "none"
      BY DEF Probes, Sight, Sights
    <3>2. endpoint \in Healthy => p.saw # "outage"
      BY DEF Sight
    <3>3. probe' = probe \/ probe' = p
      BY <1>4 DEF WaitForProbe
    <3> HIDE DEF p
    <3>4. QED
      BY <3>1, <3>2, <3>3 DEF ProbeSent
  <2> HIDE DEF f
  <2>6. q.st = "lookup"
    BY DEF Lookup
  <2>7. QED
    BY <1>2, <2>1, <2>3, <2>4, <2>5, <2>6
<1>5. CASE Missing(c) /\ cooling /\ WaitForProbe(c, "miss")
  BY <1>4, <1>5 DEF Missing, Causes
<1>6. CASE q.gen # keyGen /\ WaitForProbe(c, "miss")
  BY <1>4, <1>6 DEF Causes
<1>7. CASE endpoint # "up" /\ WaitForProbe(c, Failure(endpoint))
  <2>1. Failure(endpoint) \in {"status", "network"}
    BY DEF Failure
  <2>2. QED
    BY <1>4, <1>7, <2>1 DEF Causes
<1>8. QED
  BY <1>3, <1>5, <1>6, <1>7 DEF Lookup

\* The end of a probe answers everyone who waits for it.
LEMMA SettleEffect ==
  ASSUME srv \in [Calls -> Served], probe \in Probes, NEW status, Settle(status)
  PROVE  /\ srv' \in [Calls -> Served]
         /\ \A c \in Calls : srv[c].st # "probe" => srv'[c] = srv[c]
         /\ \A c \in Calls : srv[c].st = "probe" =>
              /\ srv'[c].st = "replied" /\ srv'[c].code \in {"refresh", "unavailable"}
              /\ srv'[c].gen = srv[c].gen /\ srv'[c].write = srv[c].write
              /\ srv'[c].cause = srv[c].cause /\ srv'[c].lagging = srv[c].lagging
              /\ srv'[c].saw = probe.saw
              /\ srv'[c].code = "refresh" => status = "ok"
         /\ probe' = NoProbe
<1> DEFINE v(c) == Verdict(srv[c].cause, status)
           n(c) == [srv[c] EXCEPT !.st = "replied", !.code = v(c), !.saw = probe.saw]
<1>1. srv' = [c \in Calls |-> IF srv[c].st = "probe" THEN n(c) ELSE srv[c]]
  BY DEF Settle, Reply
<1>2. \A c \in Calls : v(c) \in {"refresh", "unavailable"} /\ (v(c) = "refresh" => status = "ok")
  BY DEF Verdict
<1> HIDE DEF v
<1>3. \A c \in Calls :
        /\ n(c) \in Served /\ n(c).st = "replied" /\ n(c).code = v(c)
        /\ n(c).gen = srv[c].gen /\ n(c).write = srv[c].write
        /\ n(c).cause = srv[c].cause /\ n(c).lagging = srv[c].lagging
        /\ n(c).saw = probe.saw
  BY <1>2 DEF Served, Probes
<1> HIDE DEF n
<1>4. probe' = NoProbe
  BY DEF Settle
<1>5. QED
  BY <1>1, <1>2, <1>3, <1>4

\* Requests that are answered, lost or taken.
LEMMA AdmitEffect ==
  ASSUME srv \in [Calls -> Served], NEW c \in Calls, Admit(c) \/ Refuse(c)
  PROVE  \E n \in Served :
           /\ srv' = [srv EXCEPT ![c] = n]
           /\ n.st = "replied" /\ n.code = (IF Admit(c) THEN "ok" ELSE "refused")
           /\ n.gen = srv[c].gen /\ n.write = srv[c].write /\ n.saw = srv[c].saw
           /\ n.cause = srv[c].cause /\ n.lagging = srv[c].lagging
<1> DEFINE n(k) == [srv[c] EXCEPT !.st = "replied", !.code = k]
<1>1. \A k \in {"ok", "refused"} :
        /\ n(k) \in Served /\ n(k).st = "replied" /\ n(k).code = k
        /\ n(k).gen = srv[c].gen /\ n(k).write = srv[c].write /\ n(k).saw = srv[c].saw
        /\ n(k).cause = srv[c].cause /\ n(k).lagging = srv[c].lagging
  BY DEF Served
<1>2. Admit(c) => srv' = [srv EXCEPT ![c] = n("ok")]
  BY DEF Admit, Reply
<1>3. Refuse(c) => srv' = [srv EXCEPT ![c] = n("refused")]
  BY DEF Refuse, Reply
<1> HIDE DEF n
<1>4. QED
  BY <1>1, <1>2, <1>3

LEMMA ArriveEffect ==
  ASSUME srv \in [Calls -> Served], NEW c \in Calls, NEW gen \in 0 .. MaxGen,
         NEW write \in BOOLEAN, Arrive(c, gen, write)
  PROVE  \E n \in Served :
           /\ srv' = [srv EXCEPT ![c] = n]
           /\ n.st = "lookup" /\ n.code = "none" /\ n.cause = "none"
           /\ n.gen = gen /\ n.write = write
<1> DEFINE n == [Quiet EXCEPT !.st = "lookup", !.gen = gen, !.write = write]
<1>1. n \in Served /\ n.st = "lookup" /\ n.code = "none" /\ n.cause = "none"
      /\ n.gen = gen /\ n.write = write
  BY DEF Quiet, Served, Sights
<1>2. srv' = [srv EXCEPT ![c] = n]
  BY DEF Arrive
<1> HIDE DEF n
<1>3. QED
  BY <1>1, <1>2

-----------------------------------------------------------------------------
(* Every variable holds one of its values. *)

ServiceTyped ==
  /\ endpoint \in Endpoints
  /\ keyGen \in 1 .. MaxGen /\ cached \in 0 .. MaxGen /\ cooling \in BOOLEAN
  /\ probe \in Probes
  /\ srv \in [Calls -> Served]
  /\ applied \in [Calls -> 0 .. 2]

Tokens == [gen: 0 .. MaxGen, age: {"none", "good", "due", "expired"}]

ClientTyped ==
  /\ pc \in [Clients -> {"idle", "ensure", "auth", "reauth", "done"} \cup Waiting]
  /\ cmd \in [Clients -> {"none"} \cup Commands]
  /\ token \in [Clients -> Tokens]
  /\ result \in [Clients -> {"none", "ok", "failed", "expired", "rejected"}]
  /\ early \in [Clients -> BOOLEAN] /\ excused \in [Clients -> BOOLEAN]

LEMMA TypeParts ==
  /\ TypeOK <=> ServiceTyped /\ ClientTyped /\ todo \in [Clients -> 0 .. 2]
  /\ TypeOK' <=> ServiceTyped' /\ ClientTyped' /\ todo' \in [Clients -> 0 .. 2]
  BY DEF TypeOK, ServiceTyped, ClientTyped, Tokens

\* An answer is taken, or nobody waits for it any more.
LEMMA QuietedTyped ==
  ASSUME ServiceTyped, NEW c \in Calls,
         srv' = [srv EXCEPT ![c] = Quiet] \/ srv' = srv, ServiceSame
  PROVE  ServiceTyped'
  BY QuietServed DEF ServiceTyped, ServiceSame

LEMMA ContinueTyped ==
  ASSUME TypeOK, NEW c \in Clients, NEW where \in {"auth", "reauth"},
         NEW t \in Tokens, Continue(c, where, t)
  PROVE  ClientTyped'
<1>1. (excused[c] \/ srv[c].lagging) \in BOOLEAN
  BY AccessClientAssumption DEF AccessClientAssumption, TypeOK, Served
<1>2. QED
  BY <1>1 DEF Continue, Goto, TypeOK, ClientTyped, Tokens

LEMMA ExitTyped ==
  ASSUME TypeOK, NEW c \in Clients, NEW how \in {"ok", "failed", "expired", "rejected"},
         Exit(c, how)
  PROVE  ClientTyped'
<1>1. (how = "rejected" /\ (excused[c] \/ srv[c].lagging)) \in BOOLEAN
  OBVIOUS
<1>2. QED
  BY <1>1, NoTokenType DEF Exit, Goto, TypeOK, ClientTyped, Tokens

\* A client's own steps.
LEMMA ClientStepTyped ==
  ASSUME AccessInv, NEW c \in Clients, ClientStep(c)
  PROVE  TypeOK'
<1> USE TypeParts
<1>1. TypeOK /\ ServiceTyped /\ ClientTyped /\ todo \in [Clients -> 0 .. 2] /\ c \in Calls
  BY AccessClientAssumption DEF AccessInv, AccessClientAssumption
<1>2. token[c] \in Tokens /\ NoToken \in Tokens /\ Minted \in Tokens
  BY <1>1, NoTokenType, MintedType DEF ClientTyped, Tokens
<1>3. UNCHANGED checkVars => ServiceTyped'
  BY <1>1 DEF checkVars, ServiceTyped
<1>4. pc[c] \in {"auth", "reauth"} \cup Waiting => todo[c] >= 1
  BY DEF AccessInv, WritesSound, Accounted
<1>5. CASE Login(c)
  BY <1>1, <1>2, <1>3, <1>5, ContinueTyped, ExitTyped DEF Login
<1>6. CASE LoginFails(c)
  BY <1>1, <1>3, <1>6, ExitTyped DEF LoginFails
<1>7. CASE Send(c)
  <2> DEFINE t == IF NeedsRefresh(token[c]) THEN Minted ELSE token[c]
             w == cmd[c] \in WriteCommands
  <2>1. t \in Tokens /\ t.gen \in 0 .. MaxGen /\ w \in BOOLEAN /\ (t.age = "good") \in BOOLEAN
    BY <1>2 DEF Tokens
  <2>2. Arrive(c, t.gen, w) /\ ServiceSame
    BY <1>7 DEF Send
  <2>3. ServiceTyped'
    <3> HIDE DEF t, w
    <3>1. srv' \in [Calls -> Served]
      BY <1>1, <2>1, <2>2, ArriveEffect DEF ServiceTyped
    <3>2. UNCHANGED applied
      BY <1>7 DEF Send, ServiceSame
    <3>3. QED
      BY <1>1, <2>2, <3>1, <3>2 DEF ServiceTyped, ServiceSame
  <2>4. ClientTyped'
    <3>1. /\ pc' = [pc EXCEPT ![c] = IF pc[c] = "auth" THEN "await" ELSE "reawait"]
          /\ token' = [token EXCEPT ![c] = t]
          /\ early' = [early EXCEPT ![c] = t.age = "good"]
          /\ UNCHANGED <<cmd, result, excused>>
      BY <1>7 DEF Send, Goto
    <3> HIDE DEF t
    <3>2. QED
      BY <1>1, <2>1, <3>1 DEF ClientTyped, Waiting
  <2>5. QED
    BY <1>1, <1>7, <2>3, <2>4 DEF Send
<1>8. CASE ReceiveOk(c)
  <2>1. ServiceTyped'
    BY <1>1, <1>8, QuietedTyped DEF ReceiveOk, Receive
  <2>2. ClientTyped'
    BY <1>1, <1>2, <1>8, ContinueTyped, ExitTyped DEF ReceiveOk
  <2>3. QED
    BY <1>1, <1>4, <1>8, <2>1, <2>2 DEF ReceiveOk, Receive
<1>9. CASE ReceiveInvalid(c)
  <2>1. ServiceTyped'
    BY <1>1, <1>9, QuietedTyped DEF ReceiveInvalid, Receive
  <2>2. ClientTyped'
    BY <1>1, <1>2, <1>9, ContinueTyped, ExitTyped DEF ReceiveInvalid, Cleared
  <2>3. QED
    BY <1>1, <1>9, <2>1, <2>2 DEF ReceiveInvalid
<1>10. CASE ReceiveInvalidAgain(c) \/ ReceiveError(c)
  <2>1. ServiceTyped'
    BY <1>1, <1>10, QuietedTyped DEF ReceiveInvalidAgain, ReceiveError, Receive
  <2>2. ClientTyped'
    BY <1>1, <1>10, ExitTyped DEF ReceiveInvalidAgain, ReceiveError
  <2>3. QED
    BY <1>1, <1>10, <2>1, <2>2 DEF ReceiveInvalidAgain, ReceiveError
<1>11. CASE Timeout(c)
  <2>1. ServiceTyped'
    BY <1>1, <1>11, QuietedTyped DEF Timeout, ServiceTyped
  <2>2. ClientTyped'
    BY <1>1, <1>11, ExitTyped DEF Timeout
  <2>3. QED
    BY <1>1, <1>11, <2>1, <2>2 DEF Timeout
<1>12. QED
  BY <1>5, <1>6, <1>7, <1>8, <1>9, <1>10, <1>11 DEF ClientStep

-----------------------------------------------------------------------------
(* The service's steps keep the invariant: a look-up ... *)

LEMMA LookupKeeps ==
  ASSUME AccessInv, NEW c \in Calls, NEW expired \in BOOLEAN, Lookup(c, expired),
         UNCHANGED clientVars,
         c \in Clients /\ expired => pc[c] = "done" \/ token[c].age = "expired"
  PROVE  AccessInv'
<1> DEFINE q == srv[c]
<1>1. PICK n \in Served :
        /\ srv' = [srv EXCEPT ![c] = n]
        /\ n.gen = q.gen /\ n.write = q.write /\ n.saw = q.saw
        /\ \/ Admitted(q, n) /\ n.lagging = q.lagging
           \/ Expired(q, n) /\ n.lagging = q.lagging /\ expired
           \/ Failed(q, n)
  BY LookupEffect DEF AccessInv
<1>2. /\ \/ probe' = probe \/ ProbeSent
      /\ cached' \in {cached, keyGen} /\ cooling' \in BOOLEAN
      /\ q.st = "lookup"
  BY LookupEffect DEF AccessInv
<1>3. UNCHANGED <<endpoint, keyGen, applied, pc, cmd, todo, token, result, early, excused>>
  BY DEF Lookup, clientVars
<1>4. srv \in [Calls -> Served] /\ q \in Served
  BY DEF AccessInv, TypeOK
<1>5. \A d \in Calls : d # c => srv'[d] = srv[d]
  BY <1>1, <1>4
<1>6. srv'[c] = n
  BY <1>1, <1>4
<1>7. Clients \subseteq Calls
  BY AccessClientAssumption DEF AccessClientAssumption
<1> HIDE DEF q
<1>8. TypeOK'
  <2>1. srv' \in [Calls -> Served]
    BY <1>1, <1>4
  <2>2. probe' \in Probes
    BY <1>2 DEF AccessInv, TypeOK, ProbeSent
  <2>3. cached' \in 0 .. MaxGen /\ cooling' \in BOOLEAN
    BY <1>2, TokenCheckAssumption DEF AccessInv, TypeOK
  <2>4. QED
    BY <1>3, <2>1, <2>2, <2>3 DEF AccessInv, TypeOK
<1>9. SlotsSound'
  BY <1>1, <1>2, <1>4, <1>5, <1>6 DEF AccessInv, SlotsSound, Admitted, Expired, Failed, q
<1>10. ProbeSound' /\ KeysSound'
  <2>1. ProbeSound'
    BY <1>2, <1>3 DEF AccessInv, ProbeSound, ProbeSent
  <2>2. cached' <= keyGen'
    BY <1>2, <1>3, TokenCheckAssumption DEF AccessInv, KeysSound, TypeOK
  <2>3. \A d \in Calls : srv'[d].gen = srv[d].gen
    BY <1>1, <1>5, <1>6 DEF q
  <2>4. QED
    BY <1>3, <1>7, <2>1, <2>2, <2>3 DEF AccessInv, KeysSound
<1>11. WaitSound'
  BY <1>1, <1>3, <1>5, <1>6, <1>7
     DEF AccessInv, WaitSound, Waiting, Admitted, Expired, Failed, Causes, q
<1>12. OutageSound'
  BY <1>3 DEF AccessInv, OutageSound
<1>13. RetrySound'
  <2> SUFFICES ASSUME c \in Clients, pc[c] = "reawait", ~excused[c]
               PROVE  n.gen = keyGen /\ n.cause \in {"none", "miss"}
                      /\ (n.cause = "miss" => n.lagging)
    BY <1>3, <1>5, <1>6, <1>7 DEF AccessInv, RetrySound
  <2>1. q.gen = keyGen /\ q.cause \in {"none", "miss"} /\ (q.cause = "miss" => q.lagging)
    BY <1>2 DEF AccessInv, RetrySound, q
  <2>2. endpoint = "up" /\ ~expired
    BY DEF AccessInv, OutageSound, WaitSound, Waiting
  <2>3. cached <= keyGen /\ cached \in Nat /\ keyGen \in Nat
    BY DEF AccessInv, KeysSound, TypeOK
  <2>4. CASE Admitted(q, n) /\ n.lagging = q.lagging
    BY <1>1, <2>1, <2>4 DEF Admitted
  <2>5. CASE Failed(q, n)
    BY <1>1, <2>1, <2>2, <2>3, <2>5 DEF Failed
  <2>6. QED
    BY <1>1, <2>2, <2>4, <2>5
<1>14. WritesSound'
  <2>1. \A d \in Calls : srv[d] # Quiet => srv'[d] # Quiet \/ d = c
    BY <1>5
  <2>2. q # Quiet /\ InFlight(c) = 1 /\ Answered(c) = 0
    BY <1>2 DEF q, Quiet, InFlight, Answered
  <2>3. InFlight(c)' \in {0, 1} /\ Answered(c)' = 0 /\ srv'[c].st # "quiet"
    BY <1>1, <1>6 DEF InFlight, Answered, Admitted, Expired, Failed
  <2>4. \A d \in Clients \ {c} : InFlight(d)' = InFlight(d) /\ Answered(d)' = Answered(d)
    BY <1>5, <1>7 DEF InFlight, Answered
  <2>5. \A d \in Clients \ {c} : srv'[d] = srv[d]
    BY <1>5, <1>7
  <2>6. TypeOK
    BY DEF AccessInv
  <2> SUFFICES ASSUME NEW d \in Clients PROVE Accounted(d)'
    BY DEF WritesSound
  <2>7. CASE d = c
    BY <1>1, <1>2, <1>3, <1>6, <2>2, <2>3, <2>6, <2>7, RequestsType
       DEF AccessInv, WritesSound, Accounted, q, TypeOK
  <2>8. CASE d # c
    BY <1>3, <2>4, <2>5, <2>8 DEF AccessInv, WritesSound, Accounted
  <2>9. QED
    BY <2>7, <2>8
<1>15. RotationSurvived'
  BY <1>3 DEF AccessInv, RotationSurvived
<1>16. QED
  BY <1>8, <1>9, <1>10, <1>11, <1>12, <1>13, <1>14, <1>15 DEF AccessInv

\* ... what the route does, or refuses ...
LEMMA ServeKeeps ==
  ASSUME AccessInv, NEW c \in Calls, Admit(c) \/ Refuse(c), UNCHANGED clientVars
  PROVE  AccessInv'
<1> DEFINE q == srv[c]
<1>1. PICK n \in Served :
        /\ srv' = [srv EXCEPT ![c] = n]
        /\ n.st = "replied" /\ n.code = (IF Admit(c) THEN "ok" ELSE "refused")
        /\ n.gen = q.gen /\ n.write = q.write /\ n.saw = q.saw
        /\ n.cause = q.cause /\ n.lagging = q.lagging
  BY AdmitEffect DEF AccessInv, TypeOK
<1>2. /\ q.st = "admit"
      /\ UNCHANGED <<endpoint, keyGen, cached, cooling, probe>>
      /\ UNCHANGED <<pc, cmd, todo, token, result, early, excused>>
  BY DEF Admit, Refuse, clientVars
<1>3. TypeOK /\ srv \in [Calls -> Served] /\ q \in Served /\ applied \in [Calls -> 0 .. 2]
  BY DEF AccessInv, TypeOK
<1>4. /\ \A d \in Calls : d # c => srv'[d] = srv[d] /\ applied'[d] = applied[d]
      /\ srv'[c] = n
      /\ applied'[c] = IF Admit(c) /\ q.write THEN applied[c] + 1 ELSE applied[c]
      /\ applied' \in [Calls -> Nat]
  BY <1>1, <1>3 DEF Admit, Refuse
<1>5. Clients \subseteq Calls
  BY AccessClientAssumption DEF AccessClientAssumption
<1> HIDE DEF q
<1>6. WritesSound'
  <2> SUFFICES ASSUME NEW d \in Clients PROVE Accounted(d)'
    BY DEF WritesSound
  <2>1. Accounted(d)
    BY DEF AccessInv, WritesSound
  <2>2. CASE d = c
    <3>1. q # Quiet /\ InFlight(c) = 1 /\ Answered(c) = 0
      BY <1>2 DEF q, Quiet, InFlight, Answered
    <3>2. InFlight(c)' = 0 /\ Answered(c)' = IF Admit(c) THEN 1 ELSE 0
      BY <1>1, <1>4 DEF InFlight, Answered
    <3>3. pc[c] \in Waiting \cup {"done"}
      <4>1. pc[c] \in {"idle", "ensure", "auth", "reauth", "done"} \cup Waiting
        BY <1>3, <2>2 DEF TypeOK
      <4>2. QED
        BY <2>1, <2>2, <3>1, <4>1 DEF Accounted, q
    <3>4. cmd[c] \in WriteCommands => result[c] \notin {"ok", "expired"}
      BY <2>1, <2>2, <3>1 DEF Accounted, q
    <3>5. cmd[c] \notin WriteCommands => ~q.write
      BY <2>1, <2>2 DEF Accounted, q
    <3>6. QED
      BY <1>1, <1>2, <1>3, <1>4, <2>1, <2>2, <3>1, <3>2, <3>3, <3>4,
         <3>5, RequestsType
         DEF Accounted, q, TypeOK
  <2>3. CASE d # c
    BY <1>2, <1>4, <1>5, <2>1, <2>3 DEF Accounted, InFlight, Answered
  <2>4. QED
    BY <2>2, <2>3
<1>7. TypeOK'
  <2>1. applied'[c] \in 0 .. 2
    <3>1. CASE c \in Clients
      BY <1>2, <1>3, <1>4, <1>6, <3>1, RequestsType
         DEF WritesSound, Accounted, InFlight, Answered, TypeOK, q
    <3>2. CASE c \notin Clients
      BY <1>3, <1>4, <3>2 DEF AccessInv, SlotsSound, q
    <3>3. QED
      BY <3>1, <3>2
  <2>2. applied' \in [Calls -> 0 .. 2]
    BY <1>3, <1>4, <2>1
  <2>3. srv' \in [Calls -> Served]
    BY <1>1, <1>3
  <2>4. QED
    BY <1>2, <1>3, <2>2, <2>3 DEF TypeOK
<1>8. SlotsSound'
  BY <1>1, <1>2, <1>4 DEF AccessInv, SlotsSound, q
<1>9. ProbeSound' /\ KeysSound'
  <2>1. \A d \in Calls : srv'[d].gen = srv[d].gen
    BY <1>1, <1>4 DEF q
  <2>2. QED
    BY <1>2, <1>5, <2>1 DEF AccessInv, ProbeSound, KeysSound
<1>10. WaitSound' /\ OutageSound' /\ RotationSurvived'
  <2>1. \A d \in Calls : srv'[d].cause = srv[d].cause
    BY <1>1, <1>4 DEF q
  <2>2. QED
    BY <1>2, <1>5, <2>1 DEF AccessInv, WaitSound, OutageSound, RotationSurvived
<1>11. RetrySound'
  BY <1>1, <1>2, <1>4, <1>5 DEF AccessInv, RetrySound, q
<1>12. QED
  BY <1>6, <1>7, <1>8, <1>9, <1>10, <1>11 DEF AccessInv

\* ... a request that is lost, or an answer another caller takes ...
LEMMA QuietedKeeps ==
  ASSUME AccessInv, NEW c \in Calls, srv' = [srv EXCEPT ![c] = Quiet],
         srv[c].st = "lookup" \/ c \notin Clients,
         ServiceSame, UNCHANGED clientVars
  PROVE  AccessInv'
<1>1. TypeOK /\ srv \in [Calls -> Served] /\ Clients \subseteq Calls
  BY AccessClientAssumption DEF AccessInv, TypeOK, AccessClientAssumption
<1>2. \A d \in Calls : srv'[d] = IF d = c THEN Quiet ELSE srv[d]
  BY <1>1
<1>3. /\ UNCHANGED <<endpoint, keyGen, cached, cooling, probe, applied>>
      /\ UNCHANGED <<pc, cmd, todo, token, result, early, excused>>
  BY DEF ServiceSame, clientVars
<1>4. TypeOK'
  BY <1>1, <1>3, QuietServed DEF TypeOK
<1>5. SlotsSound'
  BY <1>2, <1>3 DEF AccessInv, SlotsSound, Quiet
<1>6. ProbeSound' /\ KeysSound'
  BY <1>1, <1>2, <1>3 DEF AccessInv, ProbeSound, KeysSound, Quiet, TypeOK
<1>7. WaitSound' /\ OutageSound' /\ RotationSurvived'
  BY <1>1, <1>2, <1>3 DEF AccessInv, WaitSound, OutageSound, RotationSurvived, Quiet
<1>8. RetrySound'
  BY <1>1, <1>2, <1>3 DEF AccessInv, RetrySound, Quiet
<1>9. WritesSound'
  <2> SUFFICES ASSUME NEW d \in Clients PROVE Accounted(d)'
    BY DEF WritesSound
  <2>1. Accounted(d)
    BY DEF AccessInv, WritesSound
  <2>2. CASE d = c
    <3>1. InFlight(c) = 1 /\ Answered(c) = 0 /\ srv[c] # Quiet
      BY <2>2 DEF InFlight, Answered, Quiet
    <3>2. InFlight(c)' = 0 /\ Answered(c)' = 0 /\ ~srv'[c].write /\ srv'[c].st = "quiet"
          /\ srv'[c] = Quiet
      BY <1>2 DEF InFlight, Answered, Quiet
    <3>3. QED
      BY <1>1, <1>3, <2>1, <2>2, <3>1, <3>2, RequestsType DEF Accounted, TypeOK
  <2>3. CASE d # c
    BY <1>1, <1>2, <1>3, <2>1, <2>3 DEF Accounted, InFlight, Answered
  <2>4. QED
    BY <2>2, <2>3
<1>10. QED
  BY <1>4, <1>5, <1>6, <1>7, <1>8, <1>9 DEF AccessInv

\* ... a request of another caller ...
LEMMA OtherArrivesKeeps ==
  ASSUME AccessInv, NEW c \in Calls \ Clients, NEW gen \in 1 .. keyGen,
         OtherArrives(c, gen)
  PROVE  AccessInv'
<1>1. TypeOK /\ srv \in [Calls -> Served] /\ Clients \subseteq Calls
  BY AccessClientAssumption DEF AccessInv, TypeOK, AccessClientAssumption
<1>2. gen \in 0 .. MaxGen /\ gen <= keyGen /\ FALSE \in BOOLEAN
  BY <1>1, TokenCheckAssumption DEF TypeOK
<1>3. PICK n \in Served :
        /\ srv' = [srv EXCEPT ![c] = n]
        /\ n.st = "lookup" /\ n.code = "none" /\ n.cause = "none"
        /\ n.gen = gen /\ n.write = FALSE
  <2>1. Arrive(c, gen, FALSE) /\ srv \in [Calls -> Served] /\ c \in Calls
    BY <1>1 DEF OtherArrives
  <2>2. \A w \in BOOLEAN : Arrive(c, gen, w) => \E n \in Served :
          /\ srv' = [srv EXCEPT ![c] = n]
          /\ n.st = "lookup" /\ n.code = "none" /\ n.cause = "none"
          /\ n.gen = gen /\ n.write = w
    BY <1>2, <2>1, ArriveEffect
  <2>3. QED
    BY <1>2, <2>1, <2>2, Zenon
<1>4. /\ UNCHANGED <<endpoint, keyGen, cached, cooling, probe, applied>>
      /\ UNCHANGED <<pc, cmd, todo, token, result, early, excused>>
  BY DEF OtherArrives, ServiceSame, clientVars
<1>5. \A d \in Calls : srv'[d] = IF d = c THEN n ELSE srv[d]
  BY <1>1, <1>3
<1>6. \A d \in Clients : srv'[d] = srv[d]
  BY <1>1, <1>5
<1>7. TypeOK'
  BY <1>1, <1>3, <1>4 DEF TypeOK
<1>8. SlotsSound'
  BY <1>3, <1>5 DEF AccessInv, SlotsSound
<1>9. ProbeSound' /\ KeysSound'
  BY <1>1, <1>2, <1>3, <1>4, <1>5 DEF AccessInv, ProbeSound, KeysSound
<1>10. WaitSound' /\ OutageSound' /\ RetrySound' /\ RotationSurvived'
  BY <1>4, <1>6 DEF AccessInv, WaitSound, OutageSound, RetrySound, RotationSurvived
<1>11. WritesSound'
  <2> SUFFICES ASSUME NEW d \in Clients PROVE Accounted(d)'
    BY DEF WritesSound
  <2>1. QED
    BY <1>1, <1>4, <1>6 DEF AccessInv, WritesSound, Accounted, InFlight, Answered
<1>12. QED
  BY <1>7, <1>8, <1>9, <1>10, <1>11 DEF AccessInv

\* ... and the end of a probe.
LEMMA SettleKeeps ==
  ASSUME AccessInv, NEW status, Settle(status), status = "ok" => probe.status = "ok",
         UNCHANGED clientVars
  PROVE  AccessInv'
<1>1. TypeOK /\ srv \in [Calls -> Served] /\ probe \in Probes /\ Clients \subseteq Calls
  BY AccessClientAssumption DEF AccessInv, TypeOK, AccessClientAssumption
<1>2. /\ srv' \in [Calls -> Served]
      /\ \A c \in Calls : srv[c].st # "probe" => srv'[c] = srv[c]
      /\ \A c \in Calls : srv[c].st = "probe" =>
           /\ srv'[c].st = "replied" /\ srv'[c].code \in {"refresh", "unavailable"}
           /\ srv'[c].gen = srv[c].gen /\ srv'[c].write = srv[c].write
           /\ srv'[c].cause = srv[c].cause /\ srv'[c].lagging = srv[c].lagging
           /\ srv'[c].saw = probe.saw
           /\ srv'[c].code = "refresh" => status = "ok"
      /\ probe' = NoProbe
  BY <1>1, SettleEffect
<1>3. /\ UNCHANGED <<endpoint, keyGen, cached, cooling, applied>>
      /\ UNCHANGED <<pc, cmd, todo, token, result, early, excused>>
  BY DEF Settle, clientVars
<1>4. /\ probe' \in Probes /\ probe'.st = "none" /\ probe'.status = "none"
  BY <1>2 DEF NoProbe, Probes, Sights
<1>5. TypeOK'
  BY <1>1, <1>2, <1>3, <1>4 DEF TypeOK
<1>6. SlotsSound'
  <2> SUFFICES ASSUME NEW c \in Calls
               PROVE  /\ srv'[c].st # "replied" => srv'[c].code = "none"
                      /\ srv'[c].st = "probe" => srv'[c].cause \in Causes
                      /\ srv'[c].code = "refresh" => srv'[c].cause # "none"
                      /\ srv'[c].code = "refresh" /\ srv'[c].cause # "expired" =>
                           srv'[c].saw # "outage"
                      /\ c \notin Clients => ~srv'[c].write
    BY DEF SlotsSound
  <2>1. CASE srv[c].st = "probe"
    BY <1>2, <2>1 DEF AccessInv, SlotsSound, ProbeSound, Causes
  <2>2. CASE srv[c].st # "probe"
    BY <1>2, <2>2 DEF AccessInv, SlotsSound
  <2>3. QED
    BY <2>1, <2>2
<1>7. ProbeSound' /\ KeysSound'
  <2>1. \A d \in Calls : srv'[d].gen = srv[d].gen
    BY <1>2
  <2>2. QED
    BY <1>3, <1>4, <2>1 DEF AccessInv, ProbeSound, KeysSound
<1>8. WaitSound' /\ OutageSound' /\ RotationSurvived'
  <2>1. \A d \in Clients : srv'[d].cause = srv[d].cause
    BY <1>1, <1>2
  <2>2. QED
    BY <1>3, <2>1 DEF AccessInv, WaitSound, OutageSound, RotationSurvived
<1>9. RetrySound'
  <2>1. \A d \in Clients :
          /\ srv'[d].gen = srv[d].gen /\ srv'[d].cause = srv[d].cause
          /\ srv'[d].lagging = srv[d].lagging
          /\ srv'[d].st # "quiet" => srv[d].st # "quiet"
    BY <1>1, <1>2
  <2>2. QED
    BY <1>3, <2>1 DEF AccessInv, RetrySound
<1>10. WritesSound'
  <2> SUFFICES ASSUME NEW d \in Clients PROVE Accounted(d)'
    BY DEF WritesSound
  <2>1. Accounted(d) /\ d \in Calls
    BY <1>1 DEF AccessInv, WritesSound
  <2>2. CASE srv[d].st = "probe"
    <3>1. srv[d] # Quiet /\ InFlight(d) = 1 /\ Answered(d) = 0
      BY <2>2 DEF Quiet, InFlight, Answered
    <3>2. InFlight(d)' = 0 /\ Answered(d)' = 0
      BY <1>2, <2>1, <2>2 DEF InFlight, Answered
    <3>3. srv'[d].write = srv[d].write
      BY <1>2, <2>1, <2>2
    <3>4. QED
      BY <1>1, <1>3, <2>1, <2>2, <3>1, <3>2, <3>3, RequestsType DEF Accounted, TypeOK
  <2>3. CASE srv[d].st # "probe"
    BY <1>2, <1>3, <2>1, <2>3 DEF Accounted, InFlight, Answered
  <2>4. QED
    BY <2>2, <2>3
<1>11. QED
  BY <1>5, <1>6, <1>7, <1>8, <1>9, <1>10 DEF AccessInv

-----------------------------------------------------------------------------
(* The key endpoint, the auth service and the passing of time. *)

\* The clients' side and every slot stay as they are.
SlotsSame == UNCHANGED <<srv, applied, pc, cmd, todo, token, result, early>>

LEMMA WritesSame ==
  ASSUME WritesSound, SlotsSame PROVE WritesSound'
  BY DEF WritesSound, Accounted, InFlight, Answered, SlotsSame

LEMMA ProbeAnswerKeeps ==
  ASSUME AccessInv, ProbeAnswer, UNCHANGED clientVars PROVE AccessInv'
<1> DEFINE code == IF endpoint \in Healthy THEN "ok" ELSE "error"
           p == [probe EXCEPT !.st = "answered", !.status = code]
<1>1. TypeOK /\ probe \in Probes /\ probe.st = "sent"
  BY DEF AccessInv, TypeOK, ProbeAnswer
<1>2. p \in Probes /\ p.st = "answered" /\ p.saw = probe.saw
      /\ (p.status = "ok" => endpoint \in Healthy)
  BY <1>1 DEF Probes
<1>3. probe' = p
  BY DEF ProbeAnswer
<1> HIDE DEF p
<1>4. SlotsSame /\ UNCHANGED <<endpoint, keyGen, cached, cooling, excused>>
  BY DEF ProbeAnswer, clientVars, SlotsSame
<1>5. TypeOK'
  BY <1>1, <1>2, <1>3, <1>4 DEF TypeOK, SlotsSame
<1>6. ProbeSound'
  BY <1>1, <1>2, <1>3, <1>4 DEF AccessInv, ProbeSound
<1>7. SlotsSound' /\ KeysSound' /\ WaitSound' /\ OutageSound' /\ RetrySound'
      /\ RotationSurvived'
  BY <1>4 DEF AccessInv, SlotsSame, SlotsSound, KeysSound, WaitSound, OutageSound,
              RetrySound, RotationSurvived
<1>8. QED
  BY <1>4, <1>5, <1>6, <1>7, WritesSame DEF AccessInv

LEMMA EndpointTurnsKeeps ==
  ASSUME AccessInv, NEW how \in Endpoints, EndpointTurns(how)
  PROVE  AccessInv'
<1> DEFINE p == [probe EXCEPT !.saw = Better(probe.saw, Sight(how))]
           e(c) == excused[c] \/ (how # "up" /\ pc[c] \notin {"idle", "done"})
<1>1. TypeOK /\ probe \in Probes
  BY DEF AccessInv, TypeOK
<1>2. /\ p \in Probes /\ p.st = probe.st /\ p.status = probe.status
      /\ probe.saw # "outage" => p.saw # "outage"
      /\ how \in Healthy => p.saw # "outage"
  BY <1>1 DEF Probes, Sights, Better, Sight
<1>3. /\ SlotsSame /\ UNCHANGED <<keyGen, cached, cooling>> /\ endpoint' = how
      /\ probe' = IF probe.st = "sent" THEN p ELSE probe
  BY DEF EndpointTurns, Turn, SlotsSame
<1>4. \A c \in Clients : e(c) \in BOOLEAN
  BY <1>1 DEF TypeOK
<1>5. excused' = [c \in Clients |-> e(c)]
  BY DEF EndpointTurns
<1>6. \A c \in Clients : excused[c] => e(c)
  OBVIOUS
<1>7. \A c \in Clients : how # "up" /\ pc[c] \notin {"idle", "done"} => e(c)
  OBVIOUS
<1> HIDE DEF p, e
<1>8. TypeOK'
  <2>1. excused' \in [Clients -> BOOLEAN]
    BY <1>4, <1>5
  <2>2. probe' \in Probes
    BY <1>1, <1>2, <1>3
  <2>3. QED
    BY <1>1, <1>3, <2>1, <2>2 DEF TypeOK, SlotsSame
<1>9. ProbeSound'
  BY <1>2, <1>3 DEF AccessInv, ProbeSound
<1>10. \A c \in Clients : excused[c] => excused'[c]
  BY <1>5, <1>6
<1>11. OutageSound'
  <2>1. \A c \in Clients : how # "up" /\ pc[c] \notin {"idle", "done"} => excused'[c]
    BY <1>5, <1>7
  <2>2. QED
    BY <1>3, <2>1 DEF OutageSound, SlotsSame
<1>12. SlotsSound' /\ KeysSound' /\ WaitSound'
  BY <1>3 DEF AccessInv, SlotsSame, SlotsSound, KeysSound, WaitSound
<1>13. RetrySound' /\ RotationSurvived'
  BY <1>3, <1>10 DEF AccessInv, SlotsSame, RetrySound, RotationSurvived
<1>14. QED
  BY <1>3, <1>8, <1>9, <1>11, <1>12, <1>13, WritesSame DEF AccessInv

LEMMA KeyRotatesKeeps ==
  ASSUME AccessInv, KeyRotates PROVE AccessInv'
<1> DEFINE e(c) == excused[c] \/ pc[c] = "reawait"
<1>1. TypeOK /\ keyGen \in 1 .. MaxGen /\ keyGen < MaxGen /\ MaxGen \in Nat
      /\ Clients \subseteq Calls
  BY TokenCheckAssumption, AccessClientAssumption
     DEF AccessInv, TypeOK, KeyRotates, Rotate, AccessClientAssumption
<1>2. /\ SlotsSame /\ UNCHANGED <<endpoint, probe, cached, cooling>>
      /\ keyGen' = keyGen + 1
  BY DEF KeyRotates, Rotate, SlotsSame
<1>3. \A c \in Clients : e(c) \in BOOLEAN
  BY <1>1 DEF TypeOK
<1>4. excused' = [c \in Clients |-> e(c)]
  BY DEF KeyRotates
<1>5. \A c \in Clients : (excused[c] => e(c)) /\ (pc[c] = "reawait" => e(c))
  OBVIOUS
<1> HIDE DEF e
<1>6. \A c \in Clients : (excused[c] => excused'[c]) /\ (pc[c] = "reawait" => excused'[c])
  BY <1>4, <1>5
<1>7. TypeOK'
  <2>1. excused' \in [Clients -> BOOLEAN]
    BY <1>3, <1>4
  <2>2. keyGen' \in 1 .. MaxGen
    BY <1>1, <1>2
  <2>3. QED
    BY <1>1, <1>2, <2>1, <2>2 DEF TypeOK, SlotsSame
<1>8. KeysSound'
  <2>1. cached \in Nat /\ \A c \in Calls : srv[c].gen \in Nat
    BY <1>1 DEF TypeOK, Served
  <2>2. \A c \in Clients : token[c].gen \in Nat
    BY <1>1 DEF TypeOK
  <2>3. QED
    BY <1>1, <1>2, <2>1, <2>2 DEF AccessInv, KeysSound, SlotsSame
<1>9. RetrySound' /\ RotationSurvived' /\ OutageSound'
  BY <1>2, <1>6 DEF AccessInv, SlotsSame, RetrySound, RotationSurvived, OutageSound
<1>10. SlotsSound' /\ ProbeSound' /\ WaitSound'
  BY <1>2 DEF AccessInv, SlotsSame, SlotsSound, ProbeSound, WaitSound
<1>11. QED
  BY <1>2, <1>7, <1>8, <1>9, <1>10, WritesSame DEF AccessInv

LEMMA KeySetAgesKeeps ==
  ASSUME AccessInv, CoolDown \/ DropKeys, UNCHANGED clientVars PROVE AccessInv'
<1>1. /\ SlotsSame /\ UNCHANGED <<endpoint, keyGen, probe, excused>>
      /\ cached' \in {0, cached} /\ (cooling' = FALSE \/ cooling' = cooling)
  BY DEF CoolDown, DropKeys, clientVars, SlotsSame
<1>2. TypeOK /\ cached \in 0 .. MaxGen /\ keyGen \in 1 .. MaxGen
      /\ MaxGen \in Nat
  BY TokenCheckAssumption DEF AccessInv, TypeOK
<1>3. TypeOK'
  <2>1. cooling' \in BOOLEAN
    BY <1>1, <1>2 DEF TypeOK
  <2>2. cached' \in 0 .. MaxGen
    BY <1>1, <1>2
  <2>3. QED
    BY <1>1, <1>2, <2>1, <2>2 DEF TypeOK, SlotsSame
<1>4. KeysSound'
  BY <1>1, <1>2 DEF AccessInv, KeysSound, SlotsSame
<1>5. SlotsSound' /\ ProbeSound' /\ WaitSound' /\ OutageSound' /\ RetrySound'
      /\ RotationSurvived'
  BY <1>1 DEF AccessInv, SlotsSame, SlotsSound, ProbeSound, WaitSound, OutageSound,
              RetrySound, RotationSurvived
<1>6. QED
  BY <1>1, <1>3, <1>4, <1>5, WritesSame DEF AccessInv

LEMMA AgeKeeps ==
  ASSUME AccessInv, NEW c \in Clients, Age(c) PROVE AccessInv'
<1> DEFINE t == [token[c] EXCEPT !.age = IF @ = "good" THEN "due" ELSE "expired"]
<1>1. TypeOK /\ token \in [Clients -> Tokens] /\ Clients \subseteq Calls
  BY AccessClientAssumption DEF AccessInv, TypeOK, Tokens, AccessClientAssumption
<1>2. t \in Tokens /\ t.gen = token[c].gen
      /\ t.age = IF token[c].age = "good" THEN "due" ELSE "expired"
  BY <1>1 DEF Tokens
<1>3. token' = [token EXCEPT ![c] = t]
  BY <1>1 DEF Age
<1> HIDE DEF t
<1>4. \A d \in Clients : token'[d] = IF d = c THEN t ELSE token[d]
  BY <1>1, <1>3
<1>5. /\ UNCHANGED <<endpoint, keyGen, cached, cooling, probe, srv, applied>>
      /\ UNCHANGED <<pc, cmd, todo, result, early, excused>>
  BY DEF Age, checkVars
<1>6. TypeOK'
  <2>1. token' \in [Clients -> Tokens]
    BY <1>1, <1>2, <1>3
  <2>2. QED
    BY <1>1, <1>5, <2>1 DEF TypeOK, Tokens
<1>7. KeysSound'
  BY <1>2, <1>4, <1>5 DEF AccessInv, KeysSound
<1>8. WaitSound'
  BY <1>2, <1>4, <1>5 DEF AccessInv, WaitSound, Age
<1>9. RetrySound'
  <2>1. token[c] # NoToken
    BY DEF Age, NoToken
  <2>2. QED
    BY <1>4, <1>5, <2>1 DEF AccessInv, RetrySound
<1>10. SlotsSound' /\ ProbeSound' /\ OutageSound' /\ RotationSurvived'
  BY <1>5 DEF AccessInv, SlotsSound, ProbeSound, OutageSound, RotationSurvived
<1>11. WritesSound'
  BY <1>5 DEF AccessInv, WritesSound, Accounted, InFlight, Answered
<1>12. QED
  BY <1>6, <1>7, <1>8, <1>9, <1>10, <1>11 DEF AccessInv

-----------------------------------------------------------------------------
(* A client's steps: what they leave alone, and what is left to show of the *)
(* client itself.                                                           *)

OnlyClient(c) ==
  /\ UNCHANGED <<endpoint, keyGen, cached, cooling, probe, applied>>
  /\ \A d \in Calls \ {c} : srv'[d] = srv[d]
  /\ \A d \in Clients \ {c} :
       /\ pc'[d] = pc[d] /\ cmd'[d] = cmd[d] /\ todo'[d] = todo[d]
       /\ token'[d] = token[d] /\ result'[d] = result[d]
       /\ early'[d] = early[d] /\ excused'[d] = excused[d]

SlotHolds(c) ==
  /\ srv[c].st # "replied" => srv[c].code = "none"
  /\ srv[c].st = "probe"   => srv[c].cause \in Causes
  /\ srv[c].code = "refresh" => srv[c].cause # "none"
  /\ srv[c].code = "refresh" /\ srv[c].cause # "expired" => srv[c].saw # "outage"
  /\ srv[c].gen <= keyGen

ProcessHolds(c) ==
  /\ token[c].gen <= keyGen
  /\ pc[c] \in Waiting =>
       /\ early[c] /\ token[c].age \in {"good", "due"}
       /\ srv[c].cause # "expired"
  /\ pc[c] \notin {"idle", "done"} /\ endpoint # "up" => excused[c]
  /\ pc[c] = "reauth" => token[c] = NoToken
  /\ pc[c] = "reawait" /\ ~excused[c] =>
       /\ srv[c].st # "quiet" => srv[c].gen = keyGen
       /\ srv[c].cause \in {"none", "miss"}
       /\ srv[c].cause = "miss" => srv[c].lagging
  /\ result[c] = "rejected" => excused[c]

LEMMA OneClientMoves ==
  ASSUME AccessInv, NEW c \in Clients, TypeOK', OnlyClient(c),
         SlotHolds(c)', ProcessHolds(c)', Accounted(c)'
  PROVE  AccessInv'
<1>1. Clients \subseteq Calls /\ c \in Calls
  BY AccessClientAssumption DEF AccessClientAssumption
<1>2. /\ UNCHANGED <<endpoint, keyGen, cached, cooling, probe, applied>>
      /\ \A d \in Calls \ {c} : srv'[d] = srv[d]
      /\ \A d \in Clients \ {c} : srv'[d] = srv[d]
  BY <1>1 DEF OnlyClient
<1>3. SlotsSound'
  BY <1>1, <1>2 DEF AccessInv, SlotsSound, SlotHolds
<1>4. ProbeSound'
  BY <1>2 DEF AccessInv, ProbeSound
<1>5. KeysSound'
  BY <1>1, <1>2 DEF AccessInv, KeysSound, SlotHolds, ProcessHolds, OnlyClient
<1>6. WaitSound'
  BY <1>1, <1>2 DEF AccessInv, WaitSound, ProcessHolds, OnlyClient
<1>7. OutageSound' /\ RotationSurvived'
  BY <1>2 DEF AccessInv, OutageSound, RotationSurvived, ProcessHolds, OnlyClient
<1>8. RetrySound'
  BY <1>1, <1>2 DEF AccessInv, RetrySound, ProcessHolds, OnlyClient
<1>9. WritesSound'
  <2> SUFFICES ASSUME NEW d \in Clients \ {c} PROVE Accounted(d)'
    BY DEF WritesSound
  <2>1. QED
    BY <1>2 DEF AccessInv, WritesSound, Accounted, InFlight, Answered, OnlyClient
<1>10. QED
  BY <1>3, <1>4, <1>5, <1>6, <1>7, <1>8, <1>9 DEF AccessInv

\* The slot of the client is emptied, or stays.
LEMMA SlotStays ==
  ASSUME AccessInv, NEW c \in Clients, keyGen' = keyGen,
         srv'[c] = Quiet \/ srv'[c] = srv[c]
  PROVE  SlotHolds(c)'
<1>1. c \in Calls /\ keyGen \in Nat
  BY AccessClientAssumption DEF AccessInv, TypeOK, AccessClientAssumption
<1>2. CASE srv'[c] = Quiet
  BY <1>1, <1>2 DEF SlotHolds, Quiet
<1>3. CASE srv'[c] = srv[c]
  BY <1>1, <1>3 DEF AccessInv, SlotsSound, KeysSound, SlotHolds
<1>4. QED
  BY <1>2, <1>3

\* A process that ends.
LEMMA ExitHolds ==
  ASSUME AccessInv, NEW c \in Clients, NEW how, Exit(c, how), keyGen' = keyGen,
         how = "rejected" => excused[c] \/ srv[c].lagging
  PROVE  ProcessHolds(c)'
<1>1. TypeOK /\ keyGen \in Nat
  BY DEF AccessInv, TypeOK
<1>2. pc'[c] = "done" /\ token'[c] = NoToken /\ result'[c] = how
      /\ (how = "rejected" => excused'[c])
  BY <1>1 DEF TypeOK, Exit, Goto
<1>3. QED
  BY <1>1, <1>2 DEF ProcessHolds, NoToken, Waiting

\* A process that goes on.
LEMMA ContinueHolds ==
  ASSUME AccessInv, NEW c \in Clients, NEW where \in {"auth", "reauth"}, NEW t,
         Continue(c, where, t), t.gen <= keyGen, where = "reauth" => t = NoToken,
         pc[c] \notin {"idle", "done"}, UNCHANGED <<keyGen, endpoint>>
  PROVE  ProcessHolds(c)'
<1>1. TypeOK
  BY DEF AccessInv
<1>2. pc'[c] = where /\ token'[c] = t /\ result'[c] = result[c]
      /\ (excused[c] => excused'[c])
  BY <1>1 DEF TypeOK, Continue, Goto
<1>3. result[c] # "rejected"
  BY DEF AccessInv, WritesSound, Accounted
<1>4. endpoint # "up" => excused[c]
  BY DEF AccessInv, OutageSound
<1>5. QED
  BY <1>2, <1>3, <1>4 DEF ProcessHolds, Waiting

LEMMA ClientStepMovesOnly ==
  ASSUME TypeOK, NEW c \in Clients, ClientStep(c)
  PROVE  OnlyClient(c)
<1>1. c \in Calls /\ Clients \subseteq Calls
  BY AccessClientAssumption DEF AccessClientAssumption
<1>2. UNCHANGED <<endpoint, keyGen, cached, cooling, probe, applied>>
  BY DEF ClientStep, Login, LoginFails, Send, ReceiveOk, ReceiveInvalid,
         ReceiveInvalidAgain, ReceiveError, Timeout, Receive, ServiceSame, checkVars
<1>3. \A d \in Calls \ {c} : srv'[d] = srv[d]
  BY DEF ClientStep, Login, LoginFails, Send, ReceiveOk, ReceiveInvalid,
         ReceiveInvalidAgain, ReceiveError, Timeout, Receive, Arrive, checkVars, TypeOK
<1>4. \/ \E how : Exit(c, how)
      \/ \E where, t : Continue(c, where, t)
      \/ Send(c)
  BY DEF ClientStep, Login, LoginFails, ReceiveOk, ReceiveInvalid,
         ReceiveInvalidAgain, ReceiveError, Timeout
<1>5. todo' = todo \/ todo' = [todo EXCEPT ![c] = @ - 1]
  BY DEF ClientStep, Login, LoginFails, Send, ReceiveOk, ReceiveInvalid,
         ReceiveInvalidAgain, ReceiveError, Timeout
<1>6. \A d \in Clients \ {c} :
        /\ pc'[d] = pc[d] /\ cmd'[d] = cmd[d] /\ token'[d] = token[d]
        /\ result'[d] = result[d] /\ early'[d] = early[d] /\ excused'[d] = excused[d]
  <2> SUFFICES ASSUME NEW d \in Clients \ {c}
               PROVE  /\ pc'[d] = pc[d] /\ cmd'[d] = cmd[d] /\ token'[d] = token[d]
                      /\ result'[d] = result[d] /\ early'[d] = early[d]
                      /\ excused'[d] = excused[d]
    OBVIOUS
  <2>1. CASE \E how : Exit(c, how)
    BY <2>1 DEF Exit, Goto, TypeOK
  <2>2. CASE \E where, t : Continue(c, where, t)
    BY <2>2 DEF Continue, Goto, TypeOK
  <2>3. CASE Send(c)
    BY <2>3 DEF Send, Goto, TypeOK
  <2>4. QED
    BY <1>4, <2>1, <2>2, <2>3
<1>7. QED
  BY <1>2, <1>3, <1>5, <1>6 DEF OnlyClient, TypeOK

\* What a client's step needs of the client, and what is left to show after it.
LEMMA AtClient ==
  ASSUME AccessInv, NEW c \in Clients
  PROVE  /\ TypeOK /\ c \in Calls /\ Accounted(c)
         /\ srv[c] \in Served /\ keyGen \in Nat
         /\ todo[c] \in 0 .. 2 /\ applied[c] \in 0 .. 2
         /\ cmd[c] \in WriteCommands => Requests(cmd[c]) \in 1 .. 2
         /\ cmd[c] \in ReadCommands => cmd[c] \notin WriteCommands
         /\ token[c].gen \in 0 .. keyGen /\ Minted.gen = keyGen /\ NoToken.gen = 0
<1>1. c \in Calls /\ TypeOK
  BY AccessClientAssumption DEF AccessClientAssumption, AccessInv
<1>2. token[c].gen \in Nat /\ keyGen \in Nat /\ srv[c] \in Served
  BY <1>1 DEF TypeOK
<1>3. QED
  BY <1>1, <1>2, RequestsType
     DEF AccessInv, WritesSound, KeysSound, Minted, NoToken, TypeOK

LEMMA ClientStepKeeps ==
  ASSUME AccessInv, NEW c \in Clients, ClientStep(c),
         SlotHolds(c)', ProcessHolds(c)', Accounted(c)'
  PROVE  AccessInv'
<1>1. TypeOK' /\ OnlyClient(c)
  BY ClientStepTyped, ClientStepMovesOnly DEF AccessInv
<1>2. QED
  BY <1>1, OneClientMoves

LEMMA LoginKeeps ==
  ASSUME AccessInv, NEW c \in Clients, Login(c) PROVE AccessInv'
<1>1. /\ TypeOK /\ c \in Calls /\ Accounted(c)
      /\ todo[c] \in 0 .. 2 /\ applied[c] \in 0 .. 2
      /\ cmd[c] \in WriteCommands => Requests(cmd[c]) \in 1 .. 2
      /\ Minted.gen = keyGen /\ keyGen \in Nat
  BY AtClient
<1>2. pc[c] = "ensure" /\ UNCHANGED checkVars /\ todo' = todo
  BY DEF Login
<1>3. SlotHolds(c)'
  BY <1>2, SlotStays DEF checkVars
<1>4. InFlight(c)' = 0 /\ Answered(c)' = 0 /\ srv'[c] = Quiet
  BY <1>1, <1>2 DEF Accounted, InFlight, Answered, Quiet, checkVars
<1>5. CASE todo[c] = 0
  <2>1. Exit(c, "ok")
    BY <1>5 DEF Login
  <2>2. pc'[c] = "done" /\ result'[c] = "ok" /\ cmd'[c] = cmd[c]
    BY <1>1, <2>1 DEF Exit, Goto, TypeOK
  <2>3. ProcessHolds(c)'
    BY <1>2, <2>1, ExitHolds DEF checkVars
  <2>4. Accounted(c)'
    BY <1>1, <1>2, <1>4, <1>5, <2>2 DEF Accounted, Waiting, checkVars, Quiet
  <2>5. QED
    BY <1>3, <2>3, <2>4, ClientStepKeeps DEF ClientStep
<1>6. CASE todo[c] # 0
  <2>1. Continue(c, "auth", Minted)
    BY <1>6 DEF Login
  <2>2. pc'[c] = "auth" /\ result'[c] = result[c] /\ cmd'[c] = cmd[c]
    BY <1>1, <2>1 DEF Continue, Goto, TypeOK
  <2>3. ProcessHolds(c)'
    BY <1>1, <1>2, <2>1, ContinueHolds DEF checkVars
  <2>4. Accounted(c)'
    BY <1>1, <1>2, <1>4, <1>6, <2>2 DEF Accounted, Waiting, checkVars, Quiet
  <2>5. QED
    BY <1>3, <2>3, <2>4, ClientStepKeeps DEF ClientStep
<1>7. QED
  BY <1>5, <1>6

LEMMA LoginFailsKeeps ==
  ASSUME AccessInv, NEW c \in Clients, LoginFails(c) PROVE AccessInv'
<1>1. /\ TypeOK /\ c \in Calls /\ Accounted(c)
      /\ todo[c] \in 0 .. 2 /\ applied[c] \in 0 .. 2
      /\ cmd[c] \in WriteCommands => Requests(cmd[c]) \in 1 .. 2
      /\ cmd[c] \in ReadCommands => cmd[c] \notin WriteCommands
  BY AtClient
<1>2. /\ pc[c] \in {"ensure", "auth", "reauth"} /\ UNCHANGED checkVars
      /\ todo' = todo /\ Exit(c, "failed")
  BY DEF LoginFails
<1>3. SlotHolds(c)'
  BY <1>2, SlotStays DEF checkVars
<1>4. InFlight(c)' = 0 /\ Answered(c)' = 0 /\ srv'[c] = Quiet
  BY <1>1, <1>2 DEF Accounted, InFlight, Answered, Quiet, checkVars
<1>5. pc'[c] = "done" /\ result'[c] = "failed" /\ cmd'[c] = cmd[c]
  BY <1>1, <1>2 DEF Exit, Goto, TypeOK
<1>6. ProcessHolds(c)'
  BY <1>2, ExitHolds DEF checkVars
<1>7. Accounted(c)'
  BY <1>1, <1>2, <1>4, <1>5 DEF Accounted, Waiting, checkVars, Quiet
<1>8. QED
  BY <1>3, <1>6, <1>7, ClientStepKeeps DEF ClientStep

LEMMA SendKeeps ==
  ASSUME AccessInv, NEW c \in Clients, Send(c) PROVE AccessInv'
<1> DEFINE t == IF NeedsRefresh(token[c]) THEN Minted ELSE token[c]
           w == cmd[c] \in WriteCommands
<1>1. /\ TypeOK /\ c \in Calls /\ Accounted(c) /\ keyGen \in Nat
      /\ todo[c] \in 0 .. 2 /\ applied[c] \in 0 .. 2
      /\ cmd[c] \in WriteCommands => Requests(cmd[c]) \in 1 .. 2
      /\ cmd[c] \in ReadCommands => cmd[c] \notin WriteCommands
      /\ token[c].gen \in 0 .. keyGen /\ Minted.gen = keyGen
  BY AtClient
<1>2. t.gen \in 0 .. keyGen /\ t.age = "good" /\ (pc[c] = "reauth" => t.gen = keyGen)
  BY <1>1 DEF NeedsRefresh, AccessInv, RetrySound, NoToken, Minted
<1>3. /\ pc[c] \in {"auth", "reauth"} /\ Goto(c, IF pc[c] = "auth" THEN "await" ELSE "reawait")
      /\ token' = [token EXCEPT ![c] = t]
      /\ early' = [early EXCEPT ![c] = t.age = "good"]
      /\ Arrive(c, t.gen, w)
      /\ ServiceSame /\ UNCHANGED <<cmd, todo, result, excused>>
  BY DEF Send
<1>4. w \in BOOLEAN /\ (w <=> cmd[c] \in WriteCommands)
  OBVIOUS
<1> HIDE DEF t, w
<1>5. t.gen \in 0 .. MaxGen /\ srv \in [Calls -> Served]
  BY <1>1, <1>2, TokenCheckAssumption DEF TypeOK
<1>6. PICK n \in Served :
        /\ srv' = [srv EXCEPT ![c] = n]
        /\ n.st = "lookup" /\ n.code = "none" /\ n.cause = "none"
        /\ n.gen = t.gen /\ n.write = w
  BY <1>1, <1>3, <1>4, <1>5, ArriveEffect
<1>7. srv'[c] = n
  BY <1>1, <1>5, <1>6
<1>8. /\ UNCHANGED <<endpoint, keyGen, applied, cmd, todo, result, excused>>
      /\ pc'[c] = (IF pc[c] = "auth" THEN "await" ELSE "reawait")
      /\ token'[c] = t /\ early'[c] = (t.age = "good")
  BY <1>1, <1>3 DEF ServiceSame, Goto, TypeOK
<1>9. early'[c]
  BY <1>2, <1>8
<1>10. SlotHolds(c)'
  BY <1>1, <1>2, <1>6, <1>7, <1>8 DEF SlotHolds
<1>11. ProcessHolds(c)'
  <2>1. endpoint # "up" => excused[c]
    BY <1>3 DEF AccessInv, OutageSound
  <2>2. result[c] = "none"
    BY <1>1, <1>3 DEF Accounted
  <2>3. n.cause = "none" /\ (pc'[c] = "reawait" => n.gen = keyGen) /\ t.gen <= keyGen
    BY <1>1, <1>2, <1>3, <1>6, <1>8
  <2>4. QED
    BY <1>1, <1>2, <1>3, <1>7, <1>8, <1>9, <2>1, <2>2, <2>3 DEF ProcessHolds
<1>12. Accounted(c)'
  <2>1. InFlight(c)' = 1 /\ Answered(c)' = 0 /\ n # Quiet
    BY <1>6, <1>7 DEF InFlight, Answered, Quiet
  <2>2. n.write <=> cmd[c] \in WriteCommands
    BY <1>4, <1>6
  <2>3. pc'[c] \in Waiting /\ (pc'[c] = "reawait" => pc[c] = "reauth")
        /\ result[c] = "none" /\ todo[c] >= 1
    BY <1>1, <1>3, <1>8 DEF Waiting, Accounted
  <2>4. QED
    BY <1>1, <1>3, <1>7, <1>8, <2>1, <2>2, <2>3 DEF Accounted, Waiting
<1>13. QED
  BY <1>10, <1>11, <1>12, ClientStepKeeps DEF ClientStep

\* An answer that is taken leaves nothing behind.
LEMMA ReceiveEffect ==
  ASSUME TypeOK, NEW c \in Clients, NEW where, NEW codes, Receive(c, where, codes)
  PROVE  /\ pc[c] \in where /\ srv[c].st = "replied" /\ srv[c].code \in codes
         /\ srv'[c] = Quiet /\ InFlight(c)' = 0 /\ Answered(c)' = 0
         /\ UNCHANGED <<endpoint, keyGen, applied>>
<1>1. c \in Calls /\ srv \in [Calls -> Served]
  BY AccessClientAssumption DEF AccessClientAssumption, TypeOK
<1>2. srv'[c] = Quiet
  BY <1>1 DEF Receive
<1>3. InFlight(c)' = 0 /\ Answered(c)' = 0
  BY <1>2 DEF InFlight, Answered, Quiet
<1>4. QED
  BY <1>2, <1>3 DEF Receive, ServiceSame

LEMMA ReceiveOkKeeps ==
  ASSUME AccessInv, NEW c \in Clients, ReceiveOk(c) PROVE AccessInv'
<1>1. /\ TypeOK /\ c \in Calls /\ Accounted(c)
      /\ todo[c] \in 0 .. 2 /\ applied[c] \in 0 .. 2
      /\ cmd[c] \in WriteCommands => Requests(cmd[c]) \in 1 .. 2
      /\ cmd[c] \in ReadCommands => cmd[c] \notin WriteCommands
      /\ token[c].gen \in 0 .. keyGen /\ keyGen \in Nat
  BY AtClient
<1>2. /\ pc[c] \in Waiting /\ srv[c].st = "replied" /\ srv[c].code = "ok"
      /\ srv'[c] = Quiet /\ InFlight(c)' = 0 /\ Answered(c)' = 0
      /\ UNCHANGED <<endpoint, keyGen, applied>>
  BY <1>1, ReceiveEffect DEF ReceiveOk
<1>3. todo'[c] = todo[c] - 1 /\ todo[c] >= 1
  BY <1>1, <1>2 DEF ReceiveOk, TypeOK, Accounted
<1>4. SlotHolds(c)'
  BY <1>2, SlotStays
<1>5. Answered(c) = 1
  BY <1>2 DEF Answered
<1>6. /\ cmd[c] \in WriteCommands =>
           applied[c] = Requests(cmd[c]) - todo'[c] /\ todo'[c] <= Requests(cmd[c])
      /\ cmd[c] \notin WriteCommands => applied[c] = 0
  BY <1>1, <1>2, <1>3, <1>5 DEF Accounted
<1>7. CASE todo[c] > 1
  <2>1. Continue(c, "auth", token[c])
    BY <1>7 DEF ReceiveOk
  <2>2. pc'[c] = "auth" /\ result'[c] = "none" /\ cmd'[c] = cmd[c]
    BY <1>1, <1>2, <2>1 DEF Continue, Goto, TypeOK, Accounted, Waiting
  <2>3. ProcessHolds(c)'
    BY <1>1, <1>2, <2>1, ContinueHolds DEF Waiting
  <2>4. Accounted(c)'
    BY <1>1, <1>2, <1>3, <1>6, <1>7, <2>2 DEF Accounted, Waiting, Quiet
  <2>5. QED
    BY <1>4, <2>3, <2>4, ClientStepKeeps DEF ClientStep
<1>8. CASE ~(todo[c] > 1)
  <2>1. Exit(c, "ok")
    BY <1>8 DEF ReceiveOk
  <2>2. pc'[c] = "done" /\ result'[c] = "ok" /\ cmd'[c] = cmd[c] /\ todo'[c] = 0
    BY <1>1, <1>3, <1>8, <2>1 DEF Exit, Goto, TypeOK
  <2>3. ProcessHolds(c)'
    BY <1>2, <2>1, ExitHolds
  <2>4. Accounted(c)'
    BY <1>1, <1>2, <1>6, <2>2 DEF Accounted, Waiting, Quiet
  <2>5. QED
    BY <1>4, <2>3, <2>4, ClientStepKeeps DEF ClientStep
<1>9. QED
  BY <1>7, <1>8

LEMMA ReceiveInvalidKeeps ==
  ASSUME AccessInv, NEW c \in Clients, ReceiveInvalid(c) PROVE AccessInv'
<1>1. /\ TypeOK /\ c \in Calls /\ Accounted(c)
      /\ todo[c] \in 0 .. 2 /\ applied[c] \in 0 .. 2
      /\ cmd[c] \in WriteCommands => Requests(cmd[c]) \in 1 .. 2
      /\ cmd[c] \in ReadCommands => cmd[c] \notin WriteCommands
      /\ NoToken.gen <= keyGen
  BY AtClient
<1>2. /\ pc[c] = "await" /\ srv[c].st = "replied" /\ srv[c].code = "refresh"
      /\ srv'[c] = Quiet /\ InFlight(c)' = 0 /\ Answered(c)' = 0
      /\ UNCHANGED <<endpoint, keyGen, applied>> /\ todo' = todo
  BY <1>1, ReceiveEffect DEF ReceiveInvalid
<1>3. SlotHolds(c)'
  BY <1>2, SlotStays
<1>4. Answered(c) = 0 /\ todo[c] >= 1
  BY <1>1, <1>2 DEF Answered, Accounted, Waiting
<1>5. /\ cmd[c] \in WriteCommands =>
           applied[c] = Requests(cmd[c]) - todo[c] /\ todo[c] <= Requests(cmd[c])
      /\ cmd[c] \notin WriteCommands => applied[c] = 0
  BY <1>1, <1>2, <1>4 DEF Accounted, Waiting
<1>6. CASE cmd[c] \in ReadCommands
  <2>1. Continue(c, "reauth", NoToken)
    BY <1>6 DEF ReceiveInvalid, Cleared
  <2>2. pc'[c] = "reauth" /\ result'[c] = "none" /\ cmd'[c] = cmd[c]
    BY <1>1, <1>2, <2>1 DEF Continue, Goto, TypeOK, Accounted
  <2>3. ProcessHolds(c)'
    BY <1>1, <1>2, <2>1, ContinueHolds
  <2>4. Accounted(c)'
    BY <1>1, <1>2, <1>4, <1>5, <1>6, <2>2 DEF Accounted, Waiting, Quiet
  <2>5. QED
    BY <1>3, <2>3, <2>4, ClientStepKeeps DEF ClientStep
<1>7. CASE cmd[c] \notin ReadCommands
  <2>1. Exit(c, "expired")
    BY <1>7 DEF ReceiveInvalid
  <2>2. pc'[c] = "done" /\ result'[c] = "expired" /\ cmd'[c] = cmd[c]
    BY <1>1, <2>1 DEF Exit, Goto, TypeOK
  <2>3. ProcessHolds(c)'
    BY <1>2, <2>1, ExitHolds
  <2>4. Accounted(c)'
    BY <1>1, <1>2, <1>4, <1>5, <2>2 DEF Accounted, Waiting, Quiet
  <2>5. QED
    BY <1>3, <2>3, <2>4, ClientStepKeeps DEF ClientStep
<1>8. QED
  BY <1>6, <1>7

\* A second 401 that has no other excuse is about a key the service's key set
\* lags behind.
LEMMA ReceiveInvalidAgainKeeps ==
  ASSUME AccessInv, NEW c \in Clients, ReceiveInvalidAgain(c) PROVE AccessInv'
<1>1. /\ TypeOK /\ c \in Calls /\ Accounted(c)
      /\ todo[c] \in 0 .. 2 /\ applied[c] \in 0 .. 2
      /\ cmd[c] \in ReadCommands => cmd[c] \notin WriteCommands
  BY AtClient
<1>2. /\ pc[c] = "reawait" /\ srv[c].st = "replied" /\ srv[c].code = "refresh"
      /\ srv'[c] = Quiet /\ InFlight(c)' = 0 /\ Answered(c)' = 0
      /\ UNCHANGED <<endpoint, keyGen, applied>> /\ todo' = todo /\ Exit(c, "rejected")
  BY <1>1, ReceiveEffect DEF ReceiveInvalidAgain
<1>3. SlotHolds(c)'
  BY <1>2, SlotStays
<1>4. excused[c] \/ srv[c].lagging
  <2> SUFFICES ASSUME ~excused[c] PROVE srv[c].lagging
    OBVIOUS
  <2>1. srv[c].cause # "none"
    BY <1>1, <1>2 DEF AccessInv, SlotsSound
  <2>2. srv[c].cause \in {"none", "miss"} /\ (srv[c].cause = "miss" => srv[c].lagging)
    BY <1>2 DEF AccessInv, RetrySound
  <2>3. QED
    BY <2>1, <2>2
<1>5. pc'[c] = "done" /\ result'[c] = "rejected" /\ cmd'[c] = cmd[c]
  BY <1>1, <1>2 DEF Exit, Goto, TypeOK
<1>6. ProcessHolds(c)'
  BY <1>2, <1>4, ExitHolds
<1>7. Accounted(c)'
  BY <1>1, <1>2, <1>5 DEF Accounted, Waiting, Quiet
<1>8. QED
  BY <1>3, <1>6, <1>7, ClientStepKeeps DEF ClientStep

LEMMA ReceiveErrorKeeps ==
  ASSUME AccessInv, NEW c \in Clients, ReceiveError(c) PROVE AccessInv'
<1>1. /\ TypeOK /\ c \in Calls /\ Accounted(c)
      /\ todo[c] \in 0 .. 2 /\ applied[c] \in 0 .. 2
      /\ cmd[c] \in WriteCommands => Requests(cmd[c]) \in 1 .. 2
      /\ cmd[c] \in ReadCommands => cmd[c] \notin WriteCommands
  BY AtClient
<1>2. /\ pc[c] \in Waiting /\ srv[c].st = "replied" /\ srv[c].code # "ok"
      /\ srv'[c] = Quiet /\ InFlight(c)' = 0 /\ Answered(c)' = 0
      /\ UNCHANGED <<endpoint, keyGen, applied>> /\ todo' = todo /\ Exit(c, "failed")
  BY <1>1, ReceiveEffect DEF ReceiveError
<1>3. SlotHolds(c)'
  BY <1>2, SlotStays
<1>4. Answered(c) = 0
  BY <1>2 DEF Answered
<1>5. pc'[c] = "done" /\ result'[c] = "failed" /\ cmd'[c] = cmd[c]
  BY <1>1, <1>2 DEF Exit, Goto, TypeOK
<1>6. ProcessHolds(c)'
  BY <1>2, ExitHolds
<1>7. Accounted(c)'
  BY <1>1, <1>2, <1>4, <1>5 DEF Accounted, Waiting, Quiet
<1>8. QED
  BY <1>3, <1>6, <1>7, ClientStepKeeps DEF ClientStep

LEMMA TimeoutKeeps ==
  ASSUME AccessInv, NEW c \in Clients, Timeout(c) PROVE AccessInv'
<1>1. /\ TypeOK /\ c \in Calls /\ Accounted(c)
      /\ todo[c] \in 0 .. 2 /\ applied[c] \in 0 .. 2
      /\ cmd[c] \in WriteCommands => Requests(cmd[c]) \in 1 .. 2
      /\ cmd[c] \in ReadCommands => cmd[c] \notin WriteCommands
  BY AtClient
<1>2. /\ pc[c] \in Waiting /\ UNCHANGED <<keyGen, applied, todo>> /\ Exit(c, "failed")
      /\ srv'[c] = IF srv[c].st = "replied" THEN Quiet ELSE srv[c]
  BY <1>1 DEF Timeout, ServiceSame, TypeOK
<1>3. SlotHolds(c)'
  BY <1>2, SlotStays
<1>4. pc'[c] = "done" /\ result'[c] = "failed" /\ cmd'[c] = cmd[c]
  BY <1>1, <1>2 DEF Exit, Goto, TypeOK
<1>5. ProcessHolds(c)'
  BY <1>2, ExitHolds
<1>6. todo[c] >= 1 /\ Answered(c) \in 0 .. 1 /\ InFlight(c)' \in 0 .. 1
      /\ Answered(c) + InFlight(c)' <= 1
  BY <1>1, <1>2 DEF Accounted, Answered, InFlight, Quiet
<1>7. Accounted(c)'
  BY <1>1, <1>2, <1>4, <1>6 DEF Accounted, Waiting, Quiet
<1>8. QED
  BY <1>3, <1>5, <1>7, ClientStepKeeps DEF ClientStep

\* A command starts with nothing sent.
LEMMA StartKeeps ==
  ASSUME AccessInv, NEW c \in Clients, NEW k \in Commands, Start(c, k)
  PROVE  AccessInv'
<1> DEFINE e == endpoint # "up"
<1>1. TypeOK /\ c \in Calls /\ Accounted(c) /\ NoToken.gen = 0 /\ keyGen \in Nat
      /\ token[c].gen \in 0 .. keyGen
  BY AtClient
<1>2. /\ pc[c] = "idle" /\ UNCHANGED <<endpoint, keyGen, cached, cooling, probe, srv, applied>>
      /\ UNCHANGED <<token, result, early>>
      /\ pc' = [pc EXCEPT ![c] = "ensure"] /\ cmd' = [cmd EXCEPT ![c] = k]
      /\ todo' = [todo EXCEPT ![c] = Requests(k)]
      /\ excused' = [excused EXCEPT ![c] = e]
  BY DEF Start, Goto, checkVars
<1>3. e \in BOOLEAN /\ (endpoint # "up" => e)
  OBVIOUS
<1> HIDE DEF e
<1>4. TypeOK'
  <2>1. excused' \in [Clients -> BOOLEAN]
    BY <1>1, <1>2, <1>3 DEF TypeOK
  <2>2. todo' \in [Clients -> 0 .. 2] /\ cmd' \in [Clients -> {"none"} \cup Commands]
        /\ pc' \in [Clients -> {"idle", "ensure", "auth", "reauth", "done"} \cup Waiting]
    BY <1>1, <1>2, RequestsType DEF TypeOK
  <2>3. QED
    BY <1>1, <1>2, <2>1, <2>2 DEF TypeOK
<1>5. OnlyClient(c)
  BY <1>1, <1>2 DEF OnlyClient, TypeOK
<1>6. /\ pc'[c] = "ensure" /\ cmd'[c] = k /\ todo'[c] = Requests(k)
      /\ (endpoint # "up" => excused'[c])
  BY <1>1, <1>2, <1>3 DEF TypeOK
<1>7. SlotHolds(c)'
  BY <1>2, SlotStays
<1>8. srv[c] = Quiet /\ result[c] = "none" /\ applied[c] = 0
  BY <1>1, <1>2, RequestsType DEF Accounted
<1>9. ProcessHolds(c)'
  BY <1>1, <1>2, <1>6, <1>8 DEF ProcessHolds, Waiting
<1>10. Accounted(c)'
  BY <1>2, <1>6, <1>8, RequestsType DEF Accounted, Waiting, Quiet
<1>11. QED
  BY <1>4, <1>5, <1>7, <1>9, <1>10, OneClientMoves

-----------------------------------------------------------------------------
(* The theorems. *)

LEMMA AccessInit == Init => AccessInv
<1> SUFFICES ASSUME Init PROVE AccessInv
  OBVIOUS
<1>1. Clients \subseteq Calls /\ MaxGen \in Nat \ {0}
  BY AccessClientAssumption, TokenCheckAssumption
     DEF AccessClientAssumption, TokenCheckAssumption
<1>2. NoProbe \in Probes /\ Quiet \in Served /\ NoToken \in Tokens
  BY QuietServed, NoTokenType DEF NoProbe, Probes, Sights, Tokens
<1>3. TypeOK
  <2>1. /\ endpoint \in Endpoints /\ keyGen \in 1 .. MaxGen
        /\ cached \in 0 .. MaxGen /\ probe \in Probes
    BY <1>1, <1>2 DEF Init, CheckInit, Endpoints
  <2>2. srv \in [Calls -> Served] /\ applied \in [Calls -> 0 .. 2]
    BY <1>2 DEF Init, CheckInit
  <2>3. /\ token \in [Clients -> Tokens] /\ todo \in [Clients -> 0 .. 2]
        /\ pc \in [Clients -> {"idle", "ensure", "auth", "reauth", "done"} \cup Waiting]
        /\ cmd \in [Clients -> {"none"} \cup Commands]
        /\ result \in [Clients -> {"none", "ok", "failed", "expired", "rejected"}]
    BY <1>2 DEF Init
  <2>4. /\ early \in [Clients -> BOOLEAN] /\ excused \in [Clients -> BOOLEAN]
        /\ cooling \in BOOLEAN
    BY DEF Init, CheckInit
  <2>5. QED
    BY <2>1, <2>2, <2>3, <2>4 DEF TypeOK, Tokens
<1>4. SlotsSound /\ ProbeSound /\ KeysSound
  BY <1>1 DEF Init, CheckInit, SlotsSound, ProbeSound, KeysSound, Quiet, NoProbe, NoToken
<1>5. WaitSound /\ OutageSound /\ RetrySound /\ RotationSurvived
  BY DEF Init, CheckInit, WaitSound, OutageSound, RetrySound, RotationSurvived, Waiting
<1>6. WritesSound
  BY <1>1, RequestsType
     DEF Init, CheckInit, WritesSound, Accounted, InFlight, Answered, Quiet, Waiting
<1>7. QED
  BY <1>3, <1>4, <1>5, <1>6 DEF AccessInv

LEMMA ClientKeeps ==
  ASSUME AccessInv, NEW c \in Clients, ClientStep(c) PROVE AccessInv'
  BY LoginKeeps, LoginFailsKeeps, SendKeeps, ReceiveOkKeeps, ReceiveInvalidKeeps,
     ReceiveInvalidAgainKeeps, ReceiveErrorKeeps, TimeoutKeeps DEF ClientStep

LEMMA AccessNext == AccessInv /\ [Next]_vars => AccessInv'
<1> SUFFICES ASSUME AccessInv, [Next]_vars PROVE AccessInv'
  OBVIOUS
<1>1. ASSUME NEW c \in Clients, NEW k \in Commands, Start(c, k) PROVE AccessInv'
  BY <1>1, StartKeeps
<1>2. ASSUME NEW c \in Clients, ClientStep(c) \/ Age(c) PROVE AccessInv'
  BY <1>2, ClientKeeps, AgeKeeps
<1>3. ASSUME NEW c \in Clients, Check(c) PROVE AccessInv'
  <2> DEFINE x == token[c].age = "expired"
  <2>1. c \in Calls /\ UNCHANGED clientVars /\ x \in BOOLEAN /\ (x => token[c].age = "expired")
    BY <1>3, AtClient DEF Check
  <2>2. Lookup(c, x) \/ (pc[c] = "done" /\ Lookup(c, TRUE))
    BY <1>3, Zenon DEF Check
  <2> HIDE DEF x
  <2>3. CASE Lookup(c, x)
    BY <2>1, <2>3, LookupKeeps
  <2>4. CASE pc[c] = "done" /\ Lookup(c, TRUE)
    BY <2>1, <2>4, LookupKeeps
  <2>5. QED
    BY <2>2, <2>3, <2>4
<1>4. ASSUME NEW c \in Calls \ Clients, OtherEnds(c) PROVE AccessInv'
  BY <1>4, QuietedKeeps DEF OtherEnds
<1>5. ASSUME NEW c \in Calls \ Clients, OtherCheck(c) PROVE AccessInv'
  <2>1. PICK x \in BOOLEAN : Lookup(c, x)
    BY <1>5 DEF OtherCheck
  <2>2. QED
    BY <1>5, <2>1, LookupKeeps DEF OtherCheck
<1>6. ASSUME NEW c \in Calls \ Clients, NEW gen \in 1 .. keyGen, OtherArrives(c, gen)
      PROVE  AccessInv'
  BY <1>6, OtherArrivesKeeps
<1>7. ASSUME NEW c \in Calls, Lost(c) PROVE AccessInv'
  BY <1>7, QuietedKeeps DEF Lost
<1>8. ASSUME NEW c \in Calls, Serve(c) PROVE AccessInv'
  BY <1>8, ServeKeeps DEF Serve
<1>9. CASE (ProbeAnswer \/ ProbeDone \/ ProbeDeadline) /\ UNCHANGED clientVars
  BY <1>9, ProbeAnswerKeeps, SettleKeeps DEF ProbeDone, ProbeDeadline
<1>10. ASSUME NEW how \in Endpoints, EndpointTurns(how) PROVE AccessInv'
  BY <1>10, EndpointTurnsKeeps
<1>11. CASE KeyRotates
  BY <1>11, KeyRotatesKeeps
<1>12. CASE (CoolDown \/ DropKeys) /\ UNCHANGED clientVars
  BY <1>12, KeySetAgesKeeps
<1>13. CASE UNCHANGED vars
  <2>1. SlotsSame /\ UNCHANGED <<endpoint, keyGen, cached, cooling, probe, excused>>
    BY <1>13 DEF vars, checkVars, clientVars, SlotsSame
  <2>2. TypeOK'
    BY <2>1 DEF AccessInv, TypeOK, SlotsSame
  <2>3. QED
    BY <2>1, <2>2, WritesSame
       DEF AccessInv, SlotsSame, SlotsSound, ProbeSound, KeysSound, WaitSound,
           OutageSound, RetrySound, RotationSurvived
<1>14. QED
  BY <1>1, <1>2, <1>3, <1>4, <1>5, <1>6, <1>7, <1>8, <1>9, <1>10, <1>11, <1>12, <1>13
     DEF Next

\* The invariant of client, network and token check, in every behaviour.
THEOREM AccessInvariant == Spec => []AccessInv
  BY AccessInit, AccessNext, PTL DEF Spec

\* Every variable holds one of its values; in particular no client's slot ever
\* counts more than the two writes a command has.
THEOREM AccessTyped == Spec => []TypeOK
<1>1. AccessInv => TypeOK
  BY DEF AccessInv
<1>2. QED
  BY <1>1, AccessInvariant, PTL

\* No write is carried out twice, whatever is lost, late or refused, and what the
\* command line reports of its writes is what the service has done
\* (POST, PUT and DELETE are never retried by forum-access.mjs).
THEOREM ReportsAreHonest == Spec => []ExitHonest
<1>1. AccessInv => ExitHonest
  <2> SUFFICES ASSUME AccessInv, NEW c \in Clients
               PROVE  /\ applied[c] <= IF cmd[c] \in WriteCommands THEN Requests(cmd[c]) ELSE 0
                      /\ result[c] \in {"ok", "expired"} /\ cmd[c] \in WriteCommands =>
                           applied[c] = Requests(cmd[c]) - todo[c]
                      /\ result[c] = "ok" => todo[c] = 0
    BY DEF ExitHonest
  <2>1. /\ TypeOK /\ Accounted(c)
        /\ todo[c] \in 0 .. 2 /\ applied[c] \in 0 .. 2
        /\ cmd[c] \in WriteCommands => Requests(cmd[c]) \in 1 .. 2
    BY AtClient
  <2>2. CASE cmd[c] \notin WriteCommands
    BY <2>1, <2>2 DEF Accounted
  <2>3. CASE cmd[c] \in WriteCommands
    <3>1. pc[c] \in {"idle", "ensure", "auth", "reauth", "done"} \cup Waiting
      BY <2>1 DEF TypeOK
    <3>2. pc[c] # "idle" /\ pc[c] # "reauth"
      BY <2>1, <2>3, RequestsType DEF Accounted
    <3>3. pc[c] \in Waiting => todo[c] >= 1 /\ Answered(c) \in 0 .. 1
      BY <2>1 DEF Accounted, Answered
    <3>4. InFlight(c) \in 0 .. 1
      BY DEF InFlight
    <3>5. QED
      BY <2>1, <2>3, <3>1, <3>2, <3>3, <3>4 DEF Accounted
  <2>4. QED
    BY <2>2, <2>3
<1>2. QED
  BY <1>1, AccessInvariant, PTL

\* A GET that is refused twice had a reason outside the client: one rotation of the
\* signing key, and one retry, are enough (the 401 path of forum-access.mjs, the
\* key-set cache and the probe of lib/auth-jwt.ts).
THEOREM RotationIsSurvived == Spec => []RotationSurvived
<1>1. AccessInv => RotationSurvived
  BY DEF AccessInv
<1>2. QED
  BY <1>1, AccessInvariant, PTL

\* PRE_REFRESH_SECONDS does its work: nobody who waits learns that its token has
\* expired.
THEOREM TokenOutlivesRequest == Spec => []NoExpiryInFlight
<1>1. AccessInv => NoExpiryInFlight
  BY DEF AccessInv, WaitSound, NoExpiryInFlight
<1>2. QED
  BY <1>1, AccessInvariant, PTL

\* A failed look-up becomes a 401 that makes clients refresh only if the key
\* endpoint was seen to answer, with neither 5xx nor 429, while the probe was under
\* way (withJwksAvailabilityProbe): never while it is down, hangs or is overloaded.
THEOREM OutageIsNotRefreshed == Spec => []NoRefreshInOutage
<1>1. AccessInv => NoRefreshInOutage
  BY DEF AccessInv, SlotsSound, NoRefreshInOutage
<1>2. QED
  BY <1>1, AccessInvariant, PTL
=============================================================================
