------------------------------- MODULE Server -------------------------------
(***************************************************************************)
(* The process around the handlers: configuration and start                *)
(* (cmd/cozytempl/main.go, internal/config), the middleware of the router  *)
(* with its rate limiter (internal/api/router.go, ratelimit.go, metrics.go,*)
(* requestid.go), and the shutdown.                                        *)
(*                                                                         *)
(* One tick is the time in which a bucket gains one token.                 *)
(***************************************************************************)
EXTENDS Integers, FiniteSets

CONSTANTS Requests,             \* the requests that can be under way together
          Kinds,                \* what is asked for, of Streams \cup Bounded
          Users, Peers,         \* names of users, addresses of clients
          Environments,         \* what the process can find in its environment
          rateLimitBurst, rateLimitIdleTimeout,
          requestTimeout, shutdownTimeout,
          MaxLate               \* bound on the tokens a key's requests take late

Streams == {"events", "watch", "logs"}
Bounded == {"page", "upload", "public"}

ASSUME ServerAssumption ==
  /\ IsFiniteSet(Requests) /\ IsFiniteSet(Users) /\ IsFiniteSet(Peers)
  /\ Kinds \subseteq Streams \cup Bounded
  /\ \A e \in Environments : e.dev \in BOOLEAN /\ e.issuer \in BOOLEAN /\ e.client \in BOOLEAN
  /\ rateLimitBurst \in Nat \ {0} /\ requestTimeout \in Nat /\ shutdownTimeout \in Nat
  /\ rateLimitIdleTimeout \in Nat /\ rateLimitIdleTimeout >= rateLimitBurst

VARIABLES
  proc,     \* the process: phase, auth mode, listening, time draining, exit code
  env,      \* the environment, until it has been read
  reqs,     \* the requests, with the bucket each holds and the time it has run
  buckets,  \* the limiter's map: a bucket and the time since it was looked up
  tokens,   \* the tokens of each bucket, in the map or held by a request
  eternal,  \* history: the tokens of a key's one bucket had it never been dropped
  late,     \* history: tokens taken a tick or more after the lookup, until full again
  cut       \* history: a request was under way when the process exited

serverVars == <<proc, env, reqs, buckets, tokens, eternal, late, cut>>
limits == <<buckets, tokens, eternal, late>>

OIDCModes == {"passthrough", "impersonation-legacy"}
UploadModes == {"byok", "token"}
AuthModes == OIDCModes \cup UploadModes \cup {"dev"}
Secrets == {"", "placeholder", "real"}

(* The key of a request's bucket: sessions of the upload modes all have one*)
(* user name, and in dev mode so does every request.                       *)
KeyOf(mode, kind, who) ==
  IF kind = "upload"
  THEN who
  ELSE CASE mode = "dev" -> "dev-admin"
         [] mode = "byok" -> "kubeconfig-user"
         [] mode = "token" -> "token-user"
         [] OTHER -> who

Keys == Users \cup Peers \cup {"dev-admin", "kubeconfig-user", "token-user"}

BucketIds == 1 .. Cardinality(Keys) + Cardinality(Requests)
NoBucket == 0

Idle == [phase |-> "idle", kind |-> "", key |-> "", bucket |-> NoBucket, age |-> 0]
Unlisted == [bucket |-> NoBucket, seen |-> 0]
Forgotten == [dev |-> FALSE, mode |-> "", issuer |-> FALSE, client |-> FALSE, secret |-> ""]

ServerTypeOK ==
  /\ proc \in [phase : {"starting", "serving", "draining", "exited"}, mode : AuthModes \cup {""},
               accepts : BOOLEAN, age : 0 .. shutdownTimeout, code : {0, 1}]
  /\ env \in Environments \cup {Forgotten}
  /\ \A r \in Requests :
       /\ reqs[r].phase \in {"idle", "limiter", "handling", "failed"}
       /\ reqs[r].age \in 0 .. requestTimeout + 1 /\ reqs[r].bucket \in BucketIds \cup {NoBucket}
       /\ reqs[r].phase # "idle" => reqs[r].kind \in Kinds
  /\ buckets \in [Keys -> [bucket : BucketIds \cup {NoBucket}, seen : 0 .. rateLimitIdleTimeout + 1]]
  /\ tokens \in [BucketIds -> 0 .. rateLimitBurst]
  /\ \A k \in Keys : eternal[k] <= rateLimitBurst /\ late[k] >= 0
  /\ cut \in BOOLEAN

ServerInit ==
  /\ proc = [phase |-> "starting", mode |-> "", accepts |-> FALSE, age |-> 0, code |-> 0]
  /\ env \in Environments
  /\ reqs = [r \in Requests |-> Idle]
  /\ buckets = [k \in Keys |-> Unlisted]
  /\ tokens = [b \in BucketIds |-> rateLimitBurst]
  /\ eternal = [k \in Keys |-> rateLimitBurst]
  /\ late = [k \in Keys |-> 0]
  /\ cut = FALSE

-----------------------------------------------------------------------------
(* Configuration and start.                                                *)

NoMode == ""

resolveAuthMode(e) ==
  CASE e.dev -> "dev"
    [] ~e.dev /\ e.mode # "" -> IF e.mode \in AuthModes THEN e.mode ELSE NoMode
    [] OTHER -> IF e.issuer THEN "passthrough" ELSE NoMode

(* Mutant: the placeholder of the examples passes.                         *)
AnySecret(e) == e.secret # ""

SecretIsSound(e) == e.secret = "real"

validateOIDCConfig(e) == e.issuer /\ e.client /\ SecretIsSound(e)

(* validateForMode.                                                        *)
Valid(e, mode) ==
  \/ mode = "dev"
  \/ mode \in UploadModes /\ SecretIsSound(e)
  \/ mode \in OIDCModes /\ validateOIDCConfig(e)

Exits(code) ==
  /\ proc' = [proc EXCEPT !.phase = "exited", !.accepts = FALSE, !.code = code]
  /\ cut' = (\E r \in Requests : reqs[r].phase # "idle")
  /\ reqs' = [r \in Requests |-> Idle]
  /\ UNCHANGED limits

(* The configuration, or what the process needs of the cluster, of its     *)
(* translations or of the issuer, is not there.                            *)
StartFails == proc.phase = "starting" /\ Exits(1) /\ env' = Forgotten

StartServing ==
  LET mode == resolveAuthMode(env) IN
  /\ proc.phase = "starting" /\ mode # NoMode /\ Valid(env, mode)
  /\ proc' = [proc EXCEPT !.phase = "serving", !.mode = mode, !.accepts = TRUE]
  /\ env' = Forgotten
  /\ UNCHANGED <<reqs, limits, cut>>

(* An address in use, or an accept that fails, is logged: the process goes *)
(* on without a listener.                                                  *)
ListenFails ==
  /\ proc.phase = "serving" /\ proc.accepts
  /\ proc' = [proc EXCEPT !.accepts = FALSE]
  /\ UNCHANGED <<env, reqs, limits, cut>>

-----------------------------------------------------------------------------
(* The middleware and the mux.                                             *)

(* The paths that withMetrics and withAccessLog let by with the writer as  *)
(* it is; all others get a statusRecorder, which writes but does nothing   *)
(* else that the connection can.                                           *)
BareInMetrics(kind) == kind \in {"events", "watch", "logs"}
BareInAccessLog(kind) == kind \in {"events", "watch"}

GetsTheWriter(kind) == BareInMetrics(kind) /\ BareInAccessLog(kind)

(* buildAuthMiddleware and Router: the routes of the mode, and the limiter *)
(* a request passes: its user's, or the one of its address.                *)
Routed(kind) == kind = "upload" => proc.mode \in UploadModes

RunsIn(r, kind) ==
  reqs' = [reqs EXCEPT ![r] = [Idle EXCEPT !.kind = kind,
             !.phase = IF kind = "logs" /\ ~GetsTheWriter(kind) THEN "failed" ELSE "handling"]]

FreeBucket == CHOOSE b \in BucketIds :
  (\A k \in Keys : buckets[k].bucket # b) /\ (\A r \in Requests : reqs[r].bucket # b)

(* Mutant: lastSeen is set when the bucket is made.                        *)
LooksWithoutTouch(key) ==
  LET b == IF buckets[key].bucket = NoBucket THEN FreeBucket ELSE buckets[key].bucket IN
  /\ buckets' = [buckets EXCEPT ![key] = [@ EXCEPT !.bucket = b]]
  /\ tokens' = IF b = buckets[key].bucket THEN tokens ELSE [tokens EXCEPT ![b] = rateLimitBurst]

(* allow, up to the unlock: the bucket of the key is there, just seen.     *)
LookUp(key) ==
  LET b == IF buckets[key].bucket = NoBucket THEN FreeBucket ELSE buckets[key].bucket IN
  /\ buckets' = [buckets EXCEPT ![key] = [bucket |-> b, seen |-> 0]]
  /\ tokens' = IF b = buckets[key].bucket THEN tokens ELSE [tokens EXCEPT ![b] = rateLimitBurst]

ArrivePublic(r) ==
  /\ proc.phase = "serving" /\ proc.accepts /\ reqs[r] = Idle
  /\ "public" \in Kinds /\ RunsIn(r, "public")
  /\ UNCHANGED <<proc, env, limits, cut>>

ArriveLimited(r) ==
  /\ proc.phase = "serving" /\ proc.accepts /\ reqs[r] = Idle
  /\ \E kind \in Kinds \ {"public"} : \E who \in IF kind = "upload" THEN Peers ELSE Users :
       LET key == KeyOf(proc.mode, kind, who) IN
       /\ Routed(kind)
       /\ LookUp(key)
       /\ reqs' = [reqs EXCEPT ![r] = [Idle EXCEPT !.phase = "limiter", !.kind = kind, !.key = key,
                                                  !.bucket = buckets'[key].bucket]]
  /\ UNCHANGED <<proc, env, eternal, late, cut>>

(* The last call of allow: the bucket may have left the map meanwhile.     *)
Admit(r) ==
  LET req == reqs[r] IN
  /\ req.phase = "limiter" /\ tokens[req.bucket] > 0
  /\ tokens' = [tokens EXCEPT ![req.bucket] = @ - 1]
  /\ eternal' = [eternal EXCEPT ![req.key] = @ - 1]
  /\ late' = IF req.age > 0 THEN [late EXCEPT ![req.key] = @ + 1] ELSE late
  /\ RunsIn(r, req.kind)
  /\ UNCHANGED <<proc, env, buckets, cut>>

Limit(r) ==
  /\ reqs[r].phase = "limiter" /\ tokens[reqs[r].bucket] = 0
  /\ reqs' = [reqs EXCEPT ![r] = Idle]
  /\ UNCHANGED <<proc, env, limits, cut>>

(* The handler returns: of a stream, when its client or its end of time    *)
(* comes.                                                                  *)
HandlerReturns(r) ==
  /\ reqs[r].phase \in {"handling", "failed"}
  /\ reqs' = [reqs EXCEPT ![r] = Idle]
  /\ UNCHANGED <<proc, env, limits, cut>>

(* gcLoop.                                                                 *)
Expired(key) == buckets[key].bucket # NoBucket /\ buckets[key].seen > rateLimitIdleTimeout

Collect ==
  /\ proc.phase # "exited" /\ \E k \in Keys : Expired(k)
  /\ buckets' = [k \in Keys |-> IF Expired(k) THEN Unlisted ELSE buckets[k]]
  /\ UNCHANGED <<proc, env, reqs, tokens, eternal, late, cut>>

-----------------------------------------------------------------------------
(* Time.  The context of a bounded request ends it: no tick passes before  *)
(* it returns, nor before a shutdown that is out of time gives up.         *)
AtDeadline(r) ==
  reqs[r].phase = "handling" /\ reqs[r].kind \notin Streams /\ reqs[r].age = requestTimeout

Least(a, b) == IF a < b THEN a ELSE b

Aged(req) ==
  CASE req.phase = "limiter" -> [req EXCEPT !.age = 1]
    [] req.phase = "handling" /\ req.kind \notin Streams -> [req EXCEPT !.age = @ + 1]
    [] OTHER -> req

InLimiter(r, key) == reqs[r].phase = "limiter" /\ reqs[r].key = key

Tick ==
  /\ proc.phase \in {"serving", "draining"}
  /\ proc.phase = "draining" => proc.age < shutdownTimeout
  /\ ~\E r \in Requests : AtDeadline(r)
  /\ \A k \in Keys : Cardinality({r \in Requests : InLimiter(r, k)}) + late[k] <= MaxLate
  /\ proc' = IF proc.phase = "draining" THEN [proc EXCEPT !.age = @ + 1] ELSE proc
  /\ reqs' = [r \in Requests |-> Aged(reqs[r])]
  /\ buckets' = [k \in Keys |-> IF buckets[k] = Unlisted THEN Unlisted
                   ELSE [buckets[k] EXCEPT !.seen = Least(@ + 1, rateLimitIdleTimeout + 1)]]
  /\ tokens' = [b \in BucketIds |-> Least(tokens[b] + 1, rateLimitBurst)]
  /\ eternal' = [k \in Keys |-> Least(eternal[k] + 1, rateLimitBurst)]
  /\ late' = [k \in Keys |-> IF eternal'[k] = rateLimitBurst THEN 0 ELSE late[k]]
  /\ UNCHANGED <<env, cut>>

-----------------------------------------------------------------------------
(* SIGTERM: the listener closes, and Shutdown waits for the requests under *)
(* way; nothing tells a stream to end.                                     *)
Signal ==
  /\ proc.phase = "serving"
  /\ proc' = [proc EXCEPT !.phase = "draining", !.accepts = FALSE]
  /\ UNCHANGED <<env, reqs, limits, cut>>

(* Mutant: streams are not waited for.                                     *)
WaitedBounded == {r \in Requests : reqs[r].phase # "idle" /\ reqs[r].kind \notin Streams}

Waited == {r \in Requests : reqs[r].phase # "idle"}

Drained == proc.phase = "draining" /\ Waited = {} /\ Exits(0) /\ UNCHANGED env

(* Mutant: the shutdown has no deadline.                                   *)
WaitsForAll == proc.phase = "draining" /\ Waited = {} /\ Exits(1) /\ UNCHANGED env

DrainGivesUp ==
  /\ proc.phase = "draining" /\ proc.age = shutdownTimeout
  /\ Exits(1) /\ UNCHANGED env

ServerNext ==
  \/ StartFails \/ StartServing \/ ListenFails \/ Signal \/ Drained \/ DrainGivesUp
  \/ Collect \/ Tick
  \/ \E r \in Requests : ArrivePublic(r) \/ ArriveLimited(r) \/ Admit(r) \/ Limit(r) \/ HandlerReturns(r)

ServerSpec == ServerInit /\ [][ServerNext]_serverVars

(* Clocks run, timers fire, and a request that can go on does; a stream    *)
(* need never end.                                                         *)
ServerRuns ==
  \/ Tick \/ Drained \/ DrainGivesUp
  \/ \E r \in Requests : Admit(r) \/ Limit(r) \/ (AtDeadline(r) /\ HandlerReturns(r))

-----------------------------------------------------------------------------
(* Properties.                                                             *)

(* However requests, ticks and the janitor interleave, a user or an        *)
(* address never gets more than one bucket would give that is kept for     *)
(* ever (ratelimit.go), but for tokens a request took late, from a bucket  *)
(* it had looked up earlier.                                               *)
AtMostTheRate == \A k \in Keys : eternal[k] + late[k] >= 0

(* A process that serves has what its mode needs, a configured secret for  *)
(* every mode with sessions (config.go); it asks no one who they are only  *)
(* when it was told to, and without any setting it does not start.         *)
ConfigSound == [][
  proc'.phase = "serving" /\ proc.phase = "starting" =>
    /\ proc'.mode = "dev" <=> env.dev \/ env.mode = "dev"
    /\ proc'.mode # "dev" => env.secret = "real"
    /\ proc'.mode \in OIDCModes => env.issuer /\ env.client
    /\ env.mode \in AuthModes /\ ~env.dev => proc'.mode = env.mode]_serverVars

(* Exit code 0 after a signal: no request was cut off (main.go, Shutdown). *)
CleanExitCutsNothing == proc.phase = "exited" /\ cut => proc.code = 1

(* A process told to stop stops, streams open or not (main.go): if time    *)
(* passes and requests that are out of time return.                        *)
ShutdownEnds == proc.phase = "draining" ~> proc.phase = "exited"
=============================================================================
