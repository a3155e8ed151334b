----------------------------- MODULE TokenBucket -----------------------------
(***************************************************************************)
(* The token buckets of app/infrastructure/rate_limit.py, one key of them: *)
(* InMemoryTokenBucket, which a process keeps for itself, or, if remote,   *)
(* RedisTokenBucket, whose script is atomic but is told the time by its    *)
(* caller, who read it before the call.  A behaviour is about one of them. *)
(*                                                                         *)
(* A unit is what a millisecond refills and a token is Token of them: 200  *)
(* for providers (5 per second), 500 for requests (2 per second).  There   *)
(* is one clock: monotonic() counts from the start of a host, so processes *)
(* that share a bucket share a host.                                       *)
(***************************************************************************)
EXTENDS Integers

CONSTANTS
    Callers,    \* coroutines that ask for a token
    FailOpen,   \* fail_open: what a failing Redis answers
    Capacity,   \* tokens a full bucket holds
    Token,      \* units of a token
    MaxTime     \* bound: the clock stops here

ASSUME BucketAssumption ==
    /\ FailOpen \in BOOLEAN
    /\ {Capacity, Token} \subseteq Nat \ {0}
    /\ MaxTime \in Nat

VARIABLES
    remote,     \* RedisTokenBucket, else InMemoryTokenBucket
    now,        \* monotonic(), in milliseconds
    bucket,     \* the bucket, and when its key's PEXPIRE was set
    read,       \* caller -> the time it has read and not yet sent
    since,      \* history: when somebody began to count
    spent,      \* history: units of the tokens granted since then
    rewound,    \* history: by how much late calls have set the bucket back
    retryAt     \* when the last caller that was refused may ask again

vars == <<remote, now, bucket, read, since, spent, rewound, retryAt>>

NoTime == -1
Full == Capacity * Token
Later(s, t) == IF s < t THEN t ELSE s
Earlier(s, t) == IF s < t THEN s ELSE t

Bucket == [kept : BOOLEAN, tokens : Nat, timestamp : Nat, touched : Nat]

Init ==
    /\ remote \in BOOLEAN
    /\ now = 0
    /\ bucket = [kept |-> FALSE, tokens |-> 0, timestamp |-> 0, touched |-> 0]
    /\ read = [c \in Callers |-> NoTime]
    /\ since = 0 /\ spent = 0 /\ rewound = 0
    /\ retryAt = NoTime

\* PEXPIRE: a key that nobody has asked for is forgotten.
Lifetime == 2 * Full
Known == bucket.kept /\ (remote => now < bucket.touched + Lifetime)

\* The tokens at time t; an unknown bucket is full.
\* Mutant: the tokens are not cut at the capacity.
Filled_Uncut(t) == IF Known THEN bucket.tokens + Later(0, t - bucket.timestamp) ELSE Full
Filled(t) == IF Known THEN Earlier(Full, bucket.tokens + Later(0, t - bucket.timestamp)) ELSE Full

\* retry_after_ms.
\* Mutant: one unit is taken to be a token.
Wait_Unit(tokens) == 1
Wait(tokens) == IF remote THEN Token - tokens ELSE Token - tokens + 1

\* One call with the time t.  The timestamp becomes t, also where that sets it
\* back; of a forgotten bucket it is the time at which it was forgotten.
Timestamp == IF Known THEN bucket.timestamp ELSE IF bucket.kept THEN bucket.touched + Lifetime ELSE 0

Served(t) ==
    /\ bucket' = [kept |-> TRUE, timestamp |-> t, touched |-> now,
                  tokens |-> IF Filled(t) >= Token THEN Filled(t) - Token ELSE Filled(t)]
    /\ rewound' = rewound + Later(0, Later(Timestamp, since) - t)
    /\ UNCHANGED <<remote, now, since>>

Granted(t) ==
    IF Filled(t) >= Token
    THEN spent' = spent + Token /\ retryAt' = NoTime
    ELSE retryAt' = now + Wait(Filled(t)) /\ UNCHANGED spent

-----------------------------------------------------------------------------

\* InMemoryTokenBucket.acquire: time and bucket under one lock.
Acquire(c) ==
    /\ ~remote
    /\ Served(now)
    /\ Granted(now)
    /\ UNCHANGED read

\* RedisTokenBucket.acquire: the time is read, then the script is sent.
ReadClock(c) ==
    /\ remote
    /\ read[c] = NoTime
    /\ read' = [read EXCEPT ![c] = now]
    /\ UNCHANGED <<remote, now, bucket, since, spent, rewound, retryAt>>

Evaluate(c) ==
    /\ read[c] # NoTime
    /\ Served(read[c])
    /\ Granted(read[c])
    /\ read' = [read EXCEPT ![c] = NoTime]

\* An exception: fail_open answers, whether or not the script has run.
Failed(c) ==
    /\ read[c] # NoTime
    /\ \/ /\ Served(read[c])
          /\ retryAt' = IF Filled(read[c]) >= Token THEN NoTime ELSE retryAt
       \/ UNCHANGED <<remote, now, bucket, since, rewound, retryAt>>
    /\ spent' = IF FailOpen THEN spent + Token ELSE spent
    /\ read' = [read EXCEPT ![c] = NoTime]

Tick ==
    /\ now < MaxTime
    /\ now' = now + 1
    /\ UNCHANGED <<remote, bucket, read, since, spent, rewound, retryAt>>

\* Somebody begins to count what is granted from now on.
StartCount ==
    /\ since' = now
    /\ spent' = 0 /\ rewound' = 0
    /\ UNCHANGED <<remote, now, bucket, read, retryAt>>

Next ==
    \/ \E c \in Callers : Acquire(c) \/ ReadClock(c) \/ Evaluate(c) \/ Failed(c)
    \/ Tick
    \/ StartCount

Spec == Init /\ [][Next]_vars

-----------------------------------------------------------------------------

\* While Redis answers or fails safe, what is granted in any stretch of time is at
\* most a full bucket and the refill of that time; in Redis also the time by which
\* late calls have set the bucket back, which is refilled again.  An unused key that
\* is forgotten grants nothing more.
GrantedIsRefilled ==
    ~FailOpen => spent <= Full + (now - since) + (IF remote THEN rewound ELSE 0)

\* A caller that waits for as long as it was told is granted its token, if nobody
\* has taken one meanwhile: neither late calls nor a forgotten key make it wait
\* longer.
RetryAfterSuffices == retryAt # NoTime /\ retryAt <= now => Filled(now) >= Token

\* What a rate limit says of any stretch of time, with nothing for late calls.  The
\* bucket in Redis breaks it: its script takes an older time than it has seen.
GrantedInTime == ~FailOpen => spent <= Full + (now - since)
=============================================================================
