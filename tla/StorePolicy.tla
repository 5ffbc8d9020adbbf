---------------------------- MODULE StorePolicy ----------------------------
(***************************************************************************)
(* Configuration and the gates it feeds: NewBlobStore fills and validates  *)
(* a Config once, and from then on Presign, the writes and the deletes,    *)
(* the retry policy and the breakers of the store use what came out.       *)
(*                                                                         *)
(* A config is a record of the fields Validate or a gate looks at.  TTLs   *)
(* of the config count ticks, TTLs of URLs count seconds; a multiplier     *)
(* counts halves.  Prefixes and keys are sequences.  A config may also     *)
(* come from the environment, where a variable is the set of the number it *)
(* parses to: empty when it is not set or does not parse.                  *)
(***************************************************************************)
EXTENDS ObjectKeys

CONSTANTS Configs,         \* what callers pass to NewBlobStore
          Environments,    \* what ConfigFromEnv may find
          Keys,            \* what callers pass as an object key
          Metadata,        \* and as metadata
          TTLs,            \* PresignOptions.TTL, in seconds
          TicksPerSecond,
          CapSeconds,      \* MaxAllowedPresignTTL
          DefaultRetry,    \* DefaultRetry()
          Unset,           \* Config{}: the fields that ConfigFromEnv leaves alone
          DefaultTimeout, DefaultMaxParts, DefaultThreshold, DefaultCooldown,
          DefaultWait, DefaultMaxWait

Supported == {"sha256", "md5", "crc32"}
Algorithms == Supported \cup {"sha512"}
PresignOperations == {"GET", "PUT", "POST"}

RetryConfig == [attempts : Int, wait : Int, maxWait : Int, multiplier : Int,
                threshold : Int, cooldown : Int]

Config == [complete : BOOLEAN, timeout : Int, maxParts : Int, maxTTL : Int,
           operations : SUBSET PresignOperations, algorithms : SUBSET Algorithms,
           lifecycle : [enabled : BOOLEAN, minDays : Int, class : STRING],
           retention : [mode : STRING, maxDays : Int],
           allowed : SUBSET Seq(STRING), denied : SUBSET Seq(STRING), retry : RetryConfig]

Environment == [complete : BOOLEAN, timeout : SUBSET Int, maxTTL : SUBSET Int,
                maxParts : SUBSET Int]

ASSUME StorePolicyAssumption ==
    /\ Configs \subseteq Config /\ Unset \in Config /\ DefaultRetry \in RetryConfig
    /\ Environments \subseteq Environment
    /\ TTLs \subseteq Int /\ Keys \subseteq Seq(STRING)
    /\ TicksPerSecond \in Nat \ {0} /\ CapSeconds \in Nat \ {0}
    /\ {DefaultTimeout, DefaultMaxParts, DefaultThreshold, DefaultCooldown,
        DefaultWait, DefaultMaxWait} \subseteq Nat \ {0}

VARIABLES
    given,   \* the caller's config
    source,  \* "caller", or "environment" when ConfigFromEnv made it
    cfg,     \* the store's: filled with defaults
    built,   \* "unread" (the environment), "no", "yes", "refused"
    call     \* the latest call and its outcome

vars == <<given, source, cfg, built, call>>

NoCall == [op |-> "none"]

-----------------------------------------------------------------------------
(* NewBlobStore.                                                           *)

\* withDefaults.
Filled(c) ==
    [c EXCEPT !.retry = IF @.attempts = 0 /\ @.wait = 0 THEN DefaultRetry ELSE @,
              !.maxParts = IF @ = 0 THEN DefaultMaxParts ELSE @,
              !.maxTTL = IF @ = 0 THEN CapSeconds * TicksPerSecond ELSE @]

\* Config.Validate.  complete: endpoint, bucket and region; timeout: the least of
\* the timeouts, the part size and the stale TTL.
Valid(c) ==
    /\ c.complete
    /\ c.timeout >= 0
    /\ c.maxParts >= 0
    /\ c.maxTTL <= CapSeconds * TicksPerSecond /\ c.maxTTL >= 0
    /\ c.algorithms \subseteq Supported
    /\ c.lifecycle.enabled => c.lifecycle.minDays >= 0 /\ c.lifecycle.class # ""
    /\ c.retention.mode \in {"", "none", "governance", "compliance"}
    /\ c.retention.mode \notin {"", "none"} => c.retention.maxDays >= 0
    /\ c.allowed \cap c.denied = {}
    /\ c.retry.attempts >= 0
    /\ c.retry.multiplier >= 0

NewBlobStore(adapterOk) ==
    /\ built = "no"
    /\ cfg' = Filled(given)
    /\ built' = IF Valid(Filled(given)) /\ adapterOk THEN "yes" ELSE "refused"
    /\ UNCHANGED <<given, source, call>>

Parsed(variable, default) == IF variable = {} THEN default
                                              ELSE CHOOSE n \in variable : TRUE

\* The config of environment e.  timeout: the least of its timeouts and of its part
\* size.
FromEnv(e) ==
    Filled([Unset EXCEPT !.complete = TRUE,
                         !.timeout = Parsed(e.timeout, DefaultTimeout),
                         !.maxTTL = Parsed(e.maxTTL, CapSeconds * TicksPerSecond),
                         !.operations = {"GET", "PUT"},
                         !.maxParts = Parsed(e.maxParts, DefaultMaxParts),
                         !.retry = DefaultRetry,
                         !.algorithms = {"sha256"}])

\* Mutant: the config is returned without Validate.
ConfigFromEnvUnchecked(e) ==
    /\ built = "unread"
    /\ IF e.complete THEN built' = "no" /\ given' = FromEnv(e)
                     ELSE built' = "refused" /\ UNCHANGED given
    /\ UNCHANGED <<source, cfg, call>>

\* complete: the required variables are set, those of the credentials included.
ConfigFromEnv(e) ==
    /\ built = "unread"
    /\ IF e.complete /\ Valid(FromEnv(e)) THEN built' = "no" /\ given' = FromEnv(e)
                                          ELSE built' = "refused" /\ UNCHANGED given
    /\ UNCHANGED <<source, cfg, call>>

Positive(n, default) == IF n <= 0 THEN default ELSE n

\* Mutant: MaxWait without its default.
RetryPolicyAnyMaxWait ==
    [attempts |-> Positive(cfg.retry.attempts, 3), wait |-> Positive(cfg.retry.wait, DefaultWait),
     maxWait |-> cfg.retry.maxWait, multiplier |-> Positive(cfg.retry.multiplier, 4)]

\* retryPolicyFromConfig, and newCircuitBreaker for each operation.
RetryPolicy ==
    [attempts |-> Positive(cfg.retry.attempts, 3), wait |-> Positive(cfg.retry.wait, DefaultWait),
     maxWait |-> Positive(cfg.retry.maxWait, DefaultMaxWait),
     multiplier |-> Positive(cfg.retry.multiplier, 4)]
Breaker == [threshold |-> Positive(cfg.retry.threshold, DefaultThreshold),
            cooldown |-> Positive(cfg.retry.cooldown, DefaultCooldown)]

\* math.Pow.
Power(base, n) ==
    LET power[i \in 0..n] == IF i = 0 THEN 1 ELSE base * power[i - 1]
    IN  power[n]

\* delay before an attempt; time.Duration truncates.
Delay(n) ==
    LET r == RetryPolicy
        d == (r.wait * Power(r.multiplier, n - 2)) \div Power(2, n - 2)
    IN  IF n <= 1 THEN 0 ELSE IF d > r.maxWait THEN r.maxWait ELSE d

-----------------------------------------------------------------------------
(* The gates.                                                              *)

\* Bound: a store is asked once.  No gate looks at an earlier call.
Asked == built = "yes" /\ call = NoCall

HasPrefix(key, p) == IsPrefix(p, key)

\* Mutant: an allowed prefix overrides a denied one.
KeyPolicyAllowedFirst(key) ==
    \/ \E p \in cfg.allowed : HasPrefix(key, p)
    \/ cfg.allowed = {} /\ \A p \in cfg.denied : ~HasPrefix(key, p)

\* validateKeyPolicy.
KeyPolicy(key) ==
    /\ \A p \in cfg.denied : ~HasPrefix(key, p)
    /\ cfg.allowed # {} => \E p \in cfg.allowed : HasPrefix(key, p)

\* validateChecksumAlgo; newHasher knows the supported ones.
AlgorithmAccepted(alg) == alg \in (IF cfg.algorithms = {} THEN Supported ELSE cfg.algorithms)

\* Mutant: MaxTTL's ticks taken for seconds.
MaxSecondsInTicks == IF cfg.maxTTL = 0 THEN CapSeconds ELSE cfg.maxTTL

\* The longest TTL Presign grants: whole seconds of MaxTTL, the cap for zero.
MaxSeconds == IF cfg.maxTTL \div TicksPerSecond = 0 THEN CapSeconds
                                                   ELSE cfg.maxTTL \div TicksPerSecond

\* Its answer when signing answers signed.
PresignAnswer(key, op, ttl, signed) ==
    IF ~ValidKey(key) THEN "validation"
    ELSE IF op \notin cfg.operations THEN "auth"
    ELSE IF ttl <= 0 \/ ttl > MaxSeconds \/ ~KeyPolicy(key) THEN "validation"
    ELSE signed

\* Presign, and the result its audit event carries; there is none for a key that is
\* not valid.
Presign(key, op, ttl, signed) ==
    /\ Asked
    /\ LET k == PresignAnswer(key, op, ttl, signed)
       IN  call' = [op |-> "presign", key |-> key, method |-> op, ttl |-> ttl, answer |-> k,
                    audit |-> IF ValidKey(key) THEN k ELSE "none"]
    /\ UNCHANGED <<given, source, cfg, built>>

Put(key, md, alg) ==
    /\ Asked
    /\ call' = [op |-> "put", key |-> key, alg |-> alg,
                answer |-> IF ~ValidKey(key) \/ ~ValidMetadata(md) THEN "validation"
                           ELSE IF alg # "" /\ ~AlgorithmAccepted(alg) THEN "config"
                           ELSE IF ~KeyPolicy(key) THEN "validation" ELSE "ok"]
    /\ UNCHANGED <<given, source, cfg, built>>

\* Copy looks at both keys; its metadata, and the algorithm of an Initiate, reach
\* the adapter as they are.
Copy(src, key) ==
    /\ Asked
    /\ call' = [op |-> "copy", key |-> key, src |-> src,
                answer |-> IF ValidKey(src) /\ ValidKey(key) /\ KeyPolicy(key)
                             THEN "ok" ELSE "validation"]
    /\ UNCHANGED <<given, source, cfg, built>>

Initiate(key, md) ==
    /\ Asked
    /\ call' = [op |-> "initiate", key |-> key,
                answer |-> IF ValidKey(key) /\ ValidMetadata(md) /\ KeyPolicy(key)
                             THEN "ok" ELSE "validation"]
    /\ UNCHANGED <<given, source, cfg, built>>

\* Get, Head and Exists, and Delete, which looks at the retention policy
\* (BlobStore), ask for a valid key and for nothing else here.
Read(key) ==
    /\ Asked
    /\ call' = [op |-> "read", key |-> key,
                answer |-> IF ValidKey(key) THEN "ok" ELSE "validation"]
    /\ UNCHANGED <<given, source, cfg, built>>

Delete(key) ==
    /\ Asked
    /\ call' = [op |-> "delete", key |-> key,
                answer |-> IF ValidKey(key) THEN "ok" ELSE "validation"]
    /\ UNCHANGED <<given, source, cfg, built>>

Init == /\ \/ given \in Configs /\ source = "caller" /\ built = "no"
           \/ given = Unset /\ source = "environment" /\ built = "unread"
        /\ cfg = given
        /\ call = NoCall

Next == \/ \E ok \in BOOLEAN : NewBlobStore(ok)
        \/ \E e \in Environments : ConfigFromEnv(e)
        \/ \E key \in Keys, op \in PresignOperations, ttl \in TTLs, k \in {"ok", "unavailable"} :
              Presign(key, op, ttl, k)
        \/ \E key \in Keys, md \in Metadata :
              Initiate(key, md) \/ \E alg \in Algorithms \cup {""} : Put(key, md, alg)
        \/ \E src, key \in Keys : Copy(src, key)
        \/ \E key \in Keys : Read(key) \/ Delete(key)

Spec == Init /\ [][Next]_vars

-----------------------------------------------------------------------------
(* Properties.                                                             *)

Accepted(ops) == call.op \in ops /\ call.answer = "ok"
Writes == {"put", "copy", "initiate"}

\* presign.go: whatever the config left out or the defaults filled in, a URL lives
\* at least a second and at most the absolute cap, no longer than a MaxTTL of at
\* least a second, for an operation of the list, on a key the caller may write.
URLsWithinPolicy ==
    Accepted({"presign"}) =>
        /\ call.ttl \in 1..CapSeconds
        /\ given.maxTTL >= TicksPerSecond => call.ttl * TicksPerSecond <= given.maxTTL
        /\ call.method \in given.operations
        /\ \A p \in given.denied : ~HasPrefix(call.key, p)
        /\ given.allowed # {} => \E p \in given.allowed : HasPrefix(call.key, p)

\* blobstore.go, helpers.go: no write gets past the gates whose checksum newHasher
\* and computeChecksum cannot compute, under a denied prefix, even if a longer or
\* shorter prefix is allowed, or outside the allowed ones.
WritesWithinPolicy ==
    Accepted(Writes) =>
        /\ call.op = "put" => call.alg \in Supported \cup {""}
        /\ \A p \in given.denied : ~HasPrefix(call.key, p)
        /\ given.allowed # {} => \E p \in given.allowed : HasPrefix(call.key, p)

NamesOnePath(key) ==
    /\ Walk(key) = Segments(key)
    /\ \A other \in Keys : ValidKey(other) /\ Walk(other) = Walk(key) => other = key

\* object.go: a key that any operation lets through names one path, itself, so that
\* the prefixes of the policy are prefixes of where the key leads, and no two keys
\* lead to the same place.
KeysNameOnePath ==
    /\ Accepted(Writes \cup {"presign", "read", "delete"}) => NamesOnePath(call.key)
    /\ Accepted({"copy"}) => NamesOnePath(call.src)

\* env.go: a config that ConfigFromEnv returns is complete: NewBlobStore neither
\* refuses it nor changes it.
EnvConfigStands ==
    [][source = "environment" /\ NewBlobStore(TRUE) => built' = "yes" /\ cfg' = given]_vars

\* config.go, retry.go: every store that was built makes at least one attempt,
\* waits a bounded time before another and trips its breakers: no zero or negative field survives, and
\* every delay is within MaxWait.
BuiltStoreUsable ==
    built = "yes" =>
        /\ \A x \in {RetryPolicy.attempts, RetryPolicy.wait, RetryPolicy.maxWait,
                     RetryPolicy.multiplier, Breaker.threshold, Breaker.cooldown,
                     cfg.maxParts, cfg.maxTTL} : x > 0
        /\ \A n \in 1..RetryPolicy.attempts : Delay(n) \in 0..RetryPolicy.maxWait

-----------------------------------------------------------------------------
(* Claims of the repository that the code does not keep.                   *)

\* presign.go: "TTL <= MaxAllowedPresignTTL (15m) and <= PresignPolicy.MaxTTL".
TTLWithinMaxTTL ==
    Accepted({"presign"}) /\ given.maxTTL > 0 => call.ttl * TicksPerSecond <= given.maxTTL

\* config.go: "fills zero-valued policy/retry fields with safe defaults".
DefaultsFillOnlyZeros ==
    built = "yes" => \A f \in DOMAIN given.retry :
                        given.retry[f] # 0 => cfg.retry[f] = given.retry[f]

\* config.go: "denied must not overlap allowed".
AcceptedPrefixesDisjoint ==
    built = "yes" => \A x \in given.allowed, d \in given.denied :
                        ~HasPrefix(x, d) /\ ~HasPrefix(d, x)

\* env.go: PRESIGN_MAX_TTL is "capped at MaxAllowedPresignTTL".
EnvCapsTTL ==
    [][\A e \in Environments :
         /\ ConfigFromEnv(e) /\ e.complete
         /\ \A n \in e.timeout \cup e.maxTTL \cup e.maxParts : n >= 0
         => built' # "refused"]_vars

\* presign.go: "An AuditEvent is emitted with the sanitized key scope, method, TTL,
\* and result".
PresignAudited == call.op = "presign" => call.audit = call.answer

\* CHANGELOG.md: the permission policy is "enforced before write/presign/delete".
DeletesWithinPolicy == Accepted({"delete"}) => KeyPolicy(call.key)
=============================================================================
