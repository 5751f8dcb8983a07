---------------------------- MODULE HranaStreams ----------------------------
(***************************************************************************)
(* The streams of the Hrana-over-HTTP server                               *)
(* (libsql-server/src/hrana/http): a stream is a database connection that  *)
(* outlives the HTTP request that opened it and is taken up by a later     *)
(* request with a baton.  ServerStreamState is behind one mutex, so what a *)
(* request does to it is one action; the task that expires idle streams    *)
(* keeps the mutex over several steps (pump).                              *)
(*                                                                         *)
(* Instants are kept as the time left until them, in seconds: Tick counts  *)
(* all of them down.  A stream id is random, and is taken to be one that   *)
(* was never used before.                                                  *)
(***************************************************************************)
EXTENDS Integers, Sequences, FiniteSets

CONSTANTS
  StreamIds,
  Requests,     \* HTTP requests that may be in progress together
  Expiration,   \* EXPIRATION, in seconds
  CleanupTime,  \* CLEANUP
  IdleSleep,    \* how long the expiring task sleeps when no stream is idle
  MaxSeq,       \* bound on the requests served on one stream
  NoStream

ASSUME StreamsAssumption ==
  /\ Expiration \in Nat /\ CleanupTime \in Nat /\ IdleSleep \in Nat \ {0} /\ MaxSeq \in Nat
  /\ NoStream \notin StreamIds

VARIABLES
  handle,      \* handle[s]: "none", or the variant of Handle
  seq,         \* seq[s]: Stream::baton_seq
  expire,      \* expire_queue: time left for s, or Off
  cleanup,     \* cleanup_queue: a sequence of [id, at]
  sleep,       \* time left until expire_sleep fires, or Off: it fired and nobody was told
  waker,       \* expire_waker is Some
  woken,       \* the expiring task is scheduled by its waker
  pump,        \* where the expiring task is in pump_expire()
  guard,       \* guard[r]: the stream that request r has a Guard for
  open,        \* open[r]: Stream::db of that stream is Some
  fresh,       \* ids not generated so far
  issued,      \* batons given to clients: <<stream id, baton_seq>>
  accepted,    \* batons that opened their stream
  replayed,    \* some baton did so twice
  panicked     \* a panic! or assert! was reached

streams == <<handle, seq, expire, cleanup>>
alarm == <<sleep, waker, woken, pump>>
clients == <<guard, open, fresh, issued, accepted, replayed>>
vars == <<streams, alarm, clients, panicked>>

Off == -1
Baton == StreamIds \X (0..MaxSeq)

Init ==
  /\ handle = [s \in StreamIds |-> "none"] /\ seq = [s \in StreamIds |-> 0]
  /\ expire = [s \in StreamIds |-> Off] /\ cleanup = <<>>
  /\ sleep = 0 /\ waker = FALSE /\ woken = TRUE /\ pump = "idle"
  /\ guard = [r \in Requests |-> NoStream] /\ open = [r \in Requests |-> FALSE]
  /\ fresh = StreamIds
  /\ issued = {} /\ accepted = {} /\ replayed = FALSE /\ panicked = FALSE

Unlocked == pump = "idle" /\ ~panicked

-----------------------------------------------------------------------------
(* Requests.                                                               *)

\* acquire() without a baton: a new connection, a new id.
Create(r) ==
  /\ Unlocked /\ guard[r] = NoStream
  /\ \E s \in fresh :
       /\ handle' = [handle EXCEPT ![s] = "Acquired"]
       /\ guard' = [guard EXCEPT ![r] = s] /\ open' = [open EXCEPT ![r] = TRUE]
       /\ fresh' = fresh \ {s}
  /\ UNCHANGED <<seq, expire, cleanup, alarm, issued, accepted, replayed, panicked>>

\* Mutant: the number of the baton is not compared.
BatonFitsAnyNumber(b) == handle[b[1]] = "Available"

\* What acquire() asks of a baton: its stream is there, idle, and waits for that number.
BatonFits(b) == handle[b[1]] = "Available" /\ seq[b[1]] = b[2]

\* Mutant: unmark_expire() is forgotten.
AcquireKeepsTimer(r, b) ==
  /\ Unlocked /\ guard[r] = NoStream
  /\ b \in issued /\ BatonFits(b) /\ b[2] < MaxSeq
  /\ handle' = [handle EXCEPT ![b[1]] = "Acquired"]
  /\ seq' = [seq EXCEPT ![b[1]] = @ + 1]
  /\ guard' = [guard EXCEPT ![r] = b[1]] /\ open' = [open EXCEPT ![r] = TRUE]
  /\ accepted' = accepted \cup {b} /\ replayed' = (replayed \/ b \in accepted)
  /\ UNCHANGED <<expire, cleanup, alarm, fresh, issued, panicked>>

\* acquire() with a baton; any other baton is refused with an error and no effect.
Acquire(r, b) ==
  /\ Unlocked /\ guard[r] = NoStream
  /\ b \in issued /\ BatonFits(b) /\ b[2] < MaxSeq
  /\ handle' = [handle EXCEPT ![b[1]] = "Acquired"]
  /\ seq' = [seq EXCEPT ![b[1]] = @ + 1]
  /\ expire' = [expire EXCEPT ![b[1]] = Off]
  /\ guard' = [guard EXCEPT ![r] = b[1]] /\ open' = [open EXCEPT ![r] = TRUE]
  /\ accepted' = accepted \cup {b} /\ replayed' = (replayed \/ b \in accepted)
  /\ UNCHANGED <<cleanup, alarm, fresh, issued, panicked>>

\* A "close" request of the pipeline drops the connection.
CloseDb(r) ==
  /\ guard[r] # NoStream /\ open[r]
  /\ open' = [open EXCEPT ![r] = FALSE]
  /\ UNCHANGED <<streams, alarm, guard, fresh, issued, accepted, replayed, panicked>>

\* The destructor of Guard when the stream is not released: it is removed.
RemoveStream(s) ==
  /\ handle' = [handle EXCEPT ![s] = "none"]
  /\ panicked' = (handle[s] # "Acquired")
  /\ UNCHANGED <<seq, expire, cleanup, alarm>>

\* Mutant: the task is not woken for a stream that ends before its timer.
MarkExpireNoWake(s) ==
  /\ expire' = [expire EXCEPT ![s] = Expiration + 1]
  /\ UNCHANGED <<sleep, waker, woken, pump>>

\* mark_expire(): rounded up to the next second; the task is woken if it would sleep longer.
MarkExpire(s) ==
  LET at == Expiration + 1 IN
  /\ expire' = [expire EXCEPT ![s] = at]
  /\ woken' = (woken \/ (sleep > at /\ waker))
  /\ waker' = (waker /\ sleep <= at)
  /\ UNCHANGED <<sleep, pump>>

\* The destructor when it is: the stream is idle from now on.
ReleaseStream(s) ==
  /\ handle' = [handle EXCEPT ![s] = "Available"]
  /\ panicked' = (handle[s] # "Acquired")
  /\ MarkExpire(s)
  /\ UNCHANGED <<seq, cleanup>>

\* release() and the destructor: the end of a pipeline request, and the moment a cursor request
\* is about to answer, its batch still to be run.  The client gets a baton if the stream is
\* still open.
Release(r) ==
  LET s == guard[r] IN
  /\ Unlocked /\ s # NoStream
  /\ guard' = [guard EXCEPT ![r] = NoStream]
  /\ \/ /\ open[r] /\ ReleaseStream(s)
        /\ issued' = issued \cup {<<s, seq[s]>>}
     \/ ~open[r] /\ RemoveStream(s) /\ UNCHANGED issued
  /\ UNCHANGED <<open, fresh, accepted, replayed>>

\* An error that is not a StreamResponseError, or the client hangs up: only the destructor.
Abandon(r) ==
  /\ Unlocked /\ guard[r] # NoStream
  /\ guard' = [guard EXCEPT ![r] = NoStream]
  /\ RemoveStream(guard[r])
  /\ UNCHANGED <<open, fresh, issued, accepted, replayed>>

-----------------------------------------------------------------------------
(* run_expire().                                                           *)

\* The task is polled: by its waker or by the timer.
PumpStart ==
  /\ Unlocked /\ (woken \/ sleep = 0)
  /\ pump' = "expire" /\ woken' = FALSE
  /\ UNCHANGED <<streams, clients, sleep, waker, panicked>>

\* One turn of the first loop of pump_expire(): a stream that is due.
PumpExpire ==
  /\ pump = "expire"
  /\ \E s \in StreamIds :
       /\ expire[s] = 0
       /\ expire' = [expire EXCEPT ![s] = Off]
       /\ IF handle[s] = "Available"
            THEN /\ handle' = [handle EXCEPT ![s] = "Expired"]
                 /\ cleanup' = Append(cleanup, [id |-> s, at |-> CleanupTime + 1])
            ELSE UNCHANGED <<handle, cleanup>>
  /\ UNCHANGED <<seq, alarm, clients, panicked>>

\* None is due: when to be called again.
PumpAlarm ==
  /\ pump = "expire" /\ \A s \in StreamIds : expire[s] # 0
  /\ \/ sleep' = IdleSleep /\ \A s \in StreamIds : expire[s] = Off
     \/ \E s \in StreamIds :
          /\ expire[s] # Off /\ sleep' = expire[s]
          /\ \A t \in StreamIds : expire[t] = Off \/ expire[s] <= expire[t]
  /\ pump' = "cleanup"
  /\ UNCHANGED <<streams, waker, woken, clients, panicked>>

\* Mutant: the entry is looked at and not popped.
PumpCleanupKeepsEntry ==
  /\ pump = "cleanup" /\ ~panicked /\ cleanup # <<>> /\ Head(cleanup).at = 0
  /\ panicked' = (handle[Head(cleanup).id] # "Expired")
  /\ handle' = [handle EXCEPT ![Head(cleanup).id] = "none"]
  /\ UNCHANGED <<cleanup, seq, expire, alarm, clients>>

\* Mutant: a stream is forgotten by the queue alone.
PumpCleanupKeepsHandle ==
  /\ pump = "cleanup" /\ ~panicked /\ cleanup # <<>> /\ Head(cleanup).at = 0
  /\ cleanup' = Tail(cleanup)
  /\ panicked' = (handle[Head(cleanup).id] # "Expired")
  /\ UNCHANGED <<handle, seq, expire, alarm, clients>>

\* One turn of the second loop, with its assert!.
PumpCleanup ==
  /\ pump = "cleanup" /\ ~panicked /\ cleanup # <<>> /\ Head(cleanup).at = 0
  /\ cleanup' = Tail(cleanup)
  /\ panicked' = (handle[Head(cleanup).id] # "Expired")
  /\ handle' = [handle EXCEPT ![Head(cleanup).id] = "none"]
  /\ UNCHANGED <<seq, expire, alarm, clients>>

Less(t) == IF t > 0 THEN t - 1 ELSE t

\* The streams are a second nearer to their ends.
SecondPasses ==
  /\ expire' = [s \in StreamIds |-> Less(expire[s])]
  /\ cleanup' = [i \in DOMAIN cleanup |-> [cleanup[i] EXCEPT !.at = Less(@)]]

\* The timer is reset and polled, the waker stored, and the mutex released.
PumpSleep ==
  /\ pump = "cleanup" /\ (cleanup # <<>> => Head(cleanup).at # 0)
  /\ pump' = "idle" /\ waker' = TRUE
  /\ UNCHANGED <<streams, sleep, woken, clients, panicked>>

\* The same, but the instant for which the timer is set goes by after pump_expire() read the
\* clock.  The poll is Ready, its result is ignored, and the timer wakes nobody any more.
PumpTooLate ==
  /\ pump = "cleanup" /\ (cleanup # <<>> => Head(cleanup).at # 0)
  /\ sleep = 1 /\ sleep' = Off
  /\ SecondPasses
  /\ pump' = "idle" /\ waker' = TRUE
  /\ UNCHANGED <<handle, seq, woken, clients, panicked>>

Pump == PumpStart \/ PumpExpire \/ PumpAlarm \/ PumpCleanup \/ PumpSleep

\* A second goes by.  A pass of pump_expire() is taken to last less than that.
Tick ==
  /\ Unlocked
  /\ SecondPasses
  /\ sleep' = Less(sleep)
  /\ UNCHANGED <<handle, seq, waker, woken, pump, clients, panicked>>

-----------------------------------------------------------------------------
Next ==
  \/ \E r \in Requests :
       \/ Create(r) \/ CloseDb(r) \/ Release(r) \/ Abandon(r)
       \/ \E b \in Baton : Acquire(r, b)
  \/ Pump \/ PumpTooLate \/ Tick

Spec == Init /\ [][Next]_vars

\* Time passes, and the runtime polls a task that is woken.  Clients may stay away for ever.
LiveSpec == Spec /\ WF_vars(Tick) /\ WF_vars(Pump)

-----------------------------------------------------------------------------
(* Properties.                                                             *)

TypeOK ==
  /\ handle \in [StreamIds -> {"none", "Available", "Acquired", "Expired"}]
  /\ seq \in [StreamIds -> Nat]
  /\ expire \in [StreamIds -> Nat \cup {Off}]
  /\ cleanup \in Seq([id : StreamIds, at : Nat])
  /\ sleep \in Nat \cup {Off} /\ waker \in BOOLEAN /\ woken \in BOOLEAN
  /\ pump \in {"idle", "expire", "cleanup"}
  /\ guard \in [Requests -> StreamIds \cup {NoStream}] /\ open \in [Requests -> BOOLEAN]
  /\ fresh \subseteq StreamIds
  /\ issued \subseteq StreamIds \X Nat /\ accepted \subseteq StreamIds \X Nat
  /\ replayed \in BOOLEAN /\ panicked \in BOOLEAN

\* No destructor of Guard finds its handle missing or not Acquired, and the cleanup finds
\* every queued stream Expired: the panics of stream.rs are unreachable.
NeverPanics == ~panicked

\* A baton opens its stream at most once, however often a client presents it: each baton is
\* good for one request.  (The batch of a cursor may still be running when the next request
\* takes up the stream.)
BatonUsedOnce == ~replayed

\* The streams that wait to expire are exactly the idle ones: none is forgotten with its
\* connection, none expires under a Guard.
IdleIsTimed == \A s \in StreamIds : handle[s] = "Available" <=> expire[s] # Off

\* The expiring task never sleeps past the end of an idle stream: mark_expire() leaves it
\* asleep only when its timer is early enough.  (Not so once the timer fired while it was
\* being set: sleep is Off then.)
AlarmIsSet ==
  pump = "idle" /\ sleep # Off =>
    \A s \in StreamIds : expire[s] # Off => sleep <= expire[s] \/ woken

\* A stream left idle is closed, and an expired one forgotten, unless the timer fired while it
\* was being set, after which the expiring task never runs again.
StreamsEnd ==
  \A s \in StreamIds :
    /\ handle[s] = "Available" ~> handle[s] # "Available" \/ sleep = Off
    /\ handle[s] = "Expired" ~> handle[s] = "none" \/ sleep = Off
=============================================================================
