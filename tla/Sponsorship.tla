----------------------------- MODULE Sponsorship -----------------------------
(***************************************************************************)
(* The managed anchoring service: accounts, quotas and one sponsored       *)
(* transaction per account and payload, kept in one SQLite ledger that     *)
(* several processes may open (the server, an overlapping server during a  *)
(* restart, the operator's provision, renew and rotate commands).          *)
(*                                                                         *)
(* Every committed database transaction is one step.  Between two awaits a *)
(* server runs alone, so a handler in one of the Sync phases excludes the  *)
(* other handlers of its server, but never another process.  The sponsor's *)
(* helper (a child process killed after 5 s) signs and submits.            *)
(***************************************************************************)
EXTENDS Integers, FiniteSets, Sequences

CONSTANTS
  Accounts, Payloads, Tokens, Transactions,   \* identifiers
  Servers,        \* service processes on the same ledger
  Slots,          \* handlers a server runs at once (16 in http.mjs)
  Times,          \* instants the clock may show: a finite set of naturals with 0
  Minute, Day, Month,  \* the calendar: functions of Times
  AccountLimit, LedgerLimit, AccountMonth, AccountDay, GlobalDay,
  AccountMinute, GlobalMinute,                \* limits
  MaxBroadcasts, Spacing,                     \* 3 and 10 s
  None

Handlers == Servers \X Slots
Keys == Accounts \X Payloads
Minutes == {Minute[t] : t \in Times}

ASSUME CalendarAssumption ==
  /\ Times \subseteq Nat /\ 0 \in Times /\ IsFiniteSet(Times)
  /\ \A f \in {Minute, Day, Month} : DOMAIN f = Times
  /\ Minutes \subseteq Nat /\ Minute[0] = 0
  /\ \A t, u \in Times : t <= u => Minute[t] <= Minute[u]
ASSUME LimitAssumption ==
  /\ {AccountLimit, LedgerLimit, AccountMonth, AccountDay, GlobalDay, AccountMinute,
      GlobalMinute, MaxBroadcasts} \subseteq Nat \ {0}
  /\ Spacing \in Nat
ASSUME FiniteAssumption == IsFiniteSet(Accounts) /\ IsFiniteSet(Payloads)

VARIABLES
  meter,     \* durable: the latest time seen and the global request counter
  accounts,  \* durable: account -> credential, expiry and request counter
  anchors,   \* durable: account and payload -> reservation
  handlers,  \* memory: the anchor request each handler serves
  running,   \* memory: server -> keys with a submission under way
  \* What happened, which no process remembers:
  issued,    \* access codes ever generated
  signed,    \* transactions the helper signed, with the time their reservation was charged
  counted,   \* key -> times at which a broadcast was counted
  handed,    \* key -> transactions handed to the helper for submission
  admitted,  \* account -> minute -> requests that passed authentication
  served     \* minute -> requests of all accounts that passed authentication

durable == <<meter, accounts, anchors>>
memory == <<handlers, running>>
history == <<issued, signed, counted, handed, admitted, served>>
vars == <<durable, memory, history>>

Later(t, u) == IF t > u THEN t ELSE u
Capped(hits, limit) == IF hits > limit + 1 THEN limit + 1 ELSE hits

Meter == [time : Times, minute : Minutes, hits : 0 .. GlobalMinute + 1]
Account == [token : Tokens, paid : Times, minute : Minutes, hits : 0 .. AccountMinute + 1]
Row == [created : Times, prepared : Transactions \cup {None},
        broadcasts : 0 .. MaxBroadcasts, last : Times]
ASSUME NoneAssumption == None \notin Transactions \cup Tokens \cup Account \cup Row

\* The phases of a request; those of Sync are left without returning to the event loop.
Sync == {"authenticated", "prepared", "counted"}
Submitting == {"preparing", "signed", "prepared", "counted", "broadcasting"}
Idle == [phase |-> "idle"]
Request(phase, key, tx) == [phase |-> phase, key |-> key, tx |-> tx]
Requests == {Idle} \cup [phase : Sync \cup Submitting, key : Keys, tx : Transactions \cup {None}]

NewRow(t) == [created |-> t, prepared |-> None, broadcasts |-> 0, last |-> 0]

Init ==
  /\ meter = [time |-> 0, minute |-> 0, hits |-> 0]
  /\ accounts = [a \in Accounts |-> None]
  /\ anchors = [k \in Keys |-> None]
  /\ handlers = [h \in Handlers |-> Idle]
  /\ running = [s \in Servers |-> {}]
  /\ issued = {}
  /\ signed = {}
  /\ counted = [k \in Keys |-> <<>>]
  /\ handed = [k \in Keys |-> <<>>]
  /\ admitted = [a \in Accounts |-> [m \in Minutes |-> 0]]
  /\ served = [m \in Minutes |-> 0]

\* A handler may step: its server is in no other handler's synchronous stretch.
Runs(h) == \A g \in Handlers : g[1] = h[1] /\ handlers[g].phase \in Sync => g = h

\* A plausible bug in Time, used only to test the properties.
TimeFollowsClock(now) == now
\* The time a transaction works with: a clock set back never reopens an earlier window.
Time(now) == Later(now, meter.time)

Opened == {a \in Accounts : accounts[a] # None}
Holder(token) == {a \in Opened : accounts[a].token = token}

-----------------------------------------------------------------------------
(* The operator's commands, each a process of its own.                     *)

Provision(a, token, paid) ==
  /\ accounts[a] = None
  /\ Cardinality(Opened) < AccountLimit
  /\ token \notin issued
  /\ accounts' = [accounts EXCEPT ![a] = [token |-> token, paid |-> paid, minute |-> 0, hits |-> 0]]
  /\ issued' = issued \cup {token}
  /\ UNCHANGED <<meter, anchors, memory, signed, counted, handed, admitted, served>>

SetSubscription(a, paid) ==
  /\ accounts[a] # None
  /\ accounts' = [accounts EXCEPT ![a].paid = paid]
  /\ UNCHANGED <<meter, anchors, memory, history>>

\* A plausible bug in RotateAccessCode, used only to test the properties.
RotateAndReset(a, token) ==
  /\ accounts[a] # None
  /\ token \notin issued
  /\ accounts' = [accounts EXCEPT ![a].token = token, ![a].hits = 0]
  /\ issued' = issued \cup {token}
  /\ UNCHANGED <<meter, anchors, memory, signed, counted, handed, admitted, served>>

RotateAccessCode(a, token) ==
  /\ accounts[a] # None
  /\ token \notin issued
  /\ accounts' = [accounts EXCEPT ![a].token = token]
  /\ issued' = issued \cup {token}
  /\ UNCHANGED <<meter, anchors, memory, signed, counted, handed, admitted, served>>

-----------------------------------------------------------------------------
(* Authentication: one transaction that counts the request, known or not.  *)

\* The global counter moves before the credential is looked at.
GlobalHits(t) == IF meter.minute = Minute[t] THEN meter.hits + 1 ELSE 1
AccountHits(a, t) == IF accounts[a].minute = Minute[t] THEN accounts[a].hits + 1 ELSE 1

Metered(t) ==
  meter' = [time |-> t, minute |-> Minute[t], hits |-> Capped(GlobalHits(t), GlobalMinute)]
AccountMetered(a, t) ==
  accounts' = [accounts EXCEPT ![a].minute = Minute[t],
                               ![a].hits = Capped(AccountHits(a, t), AccountMinute)]

\* The account the credential opens, if its counters and the global ones let the request in.
Authenticated(a, token, t) ==
  /\ GlobalHits(t) <= GlobalMinute
  /\ a \in Holder(token)
  /\ AccountHits(a, t) <= AccountMinute
  /\ Metered(t)
  /\ AccountMetered(a, t)
  /\ admitted' = [admitted EXCEPT ![a][Minute[t]] = @ + 1]
  /\ served' = [served EXCEPT ![Minute[t]] = @ + 1]

\* RATE_LIMITED or ACCOUNT_REQUIRED: the counters that were reached keep their change.
Reject(h, token, now) ==
  LET t == Time(now) IN
  /\ handlers[h] = Idle /\ Runs(h)
  /\ Metered(t)
  /\ \/ /\ GlobalHits(t) > GlobalMinute \/ Holder(token) = {}
        /\ UNCHANGED accounts
     \/ \E a \in Holder(token) :
          /\ GlobalHits(t) <= GlobalMinute
          /\ AccountHits(a, t) > AccountMinute
          /\ AccountMetered(a, t)
  /\ UNCHANGED <<anchors, memory, history>>

\* GET /v1/account: authenticates, then only reads.
Status(h, token, now) ==
  /\ handlers[h] = Idle /\ Runs(h)
  /\ \E a \in Accounts : Authenticated(a, token, Time(now))
  /\ UNCHANGED <<anchors, memory, issued, signed, counted, handed>>

\* POST /v1/anchors: authenticates before it looks at the ledger.
Authenticate(h, token, payload, now) ==
  /\ handlers[h] = Idle /\ Runs(h)
  /\ \E a \in Accounts :
       /\ Authenticated(a, token, Time(now))
       /\ handlers' = [handlers EXCEPT ![h] = Request("authenticated", <<a, payload>>, None)]
  /\ UNCHANGED <<anchors, running, issued, signed, counted, handed>>

-----------------------------------------------------------------------------
(* The reservation, in the same stretch but a transaction of its own.      *)

\* A plausible bug in Existing, used only to test the properties.
ExistingWhenPrepared(k) == anchors[k] # None /\ anchors[k].prepared # None
Existing(k) == anchors[k] # None
\* A plausible bug in Charged, used only to test the properties.
ChargedWhenPrepared(S) == {k \in S : anchors[k] # None /\ anchors[k].prepared # None}
Charged(S) == {k \in S : anchors[k] # None}
OfAccount(a) == {k \in Keys : k[1] = a}
OnDay(S, t) == {k \in Charged(S) : Day[anchors[k].created] = Day[t]}
InMonth(S, t) == {k \in Charged(S) : Month[anchors[k].created] = Month[t]}

\* The subscription is read again: it may have changed since authentication.
Paid(a, t) == accounts[a].paid > t
Allowed(a, t) ==
  /\ Cardinality(InMonth(OfAccount(a), t)) < AccountMonth
  /\ Cardinality(OnDay(OfAccount(a), t)) < AccountDay
  /\ Cardinality(Charged(Keys)) < LedgerLimit
  /\ Cardinality(OnDay(Keys, t)) < GlobalDay

Ends(h) == handlers' = [handlers EXCEPT ![h] = Idle]
\* The `finally` of anchor.
Released(h) == running' = [running EXCEPT ![h[1]] = @ \ {handlers[h].key}]
Moves(h, phase, tx) == handlers' = [handlers EXCEPT ![h] = Request(phase, handlers[h].key, tx)]

Reserve(h, now) ==
  LET k == handlers[h].key
      t == Time(now)
  IN
  /\ handlers[h].phase = "authenticated"
  /\ ~Existing(k) /\ Paid(k[1], t) /\ Allowed(k[1], t)
  /\ meter' = [meter EXCEPT !.time = t]
  /\ anchors' = [anchors EXCEPT ![k] = NewRow(t)]
  /\ IF k \in running[h[1]]
     THEN Ends(h) /\ UNCHANGED running
     ELSE Moves(h, "preparing", None) /\ running' = [running EXCEPT ![h[1]] = @ \cup {k}]
  /\ UNCHANGED <<accounts, history>>

\* UNPAID, QUOTA_EXHAUSTED or SERVICE_UNAVAILABLE: the transaction rolls back.
Refuse(h, now) ==
  LET k == handlers[h].key IN
  /\ handlers[h].phase = "authenticated"
  /\ ~Existing(k)
  /\ ~Paid(k[1], Time(now)) \/ ~Allowed(k[1], Time(now))
  /\ Ends(h)
  /\ UNCHANGED <<durable, running, history>>

\* A reservation exists: nothing is charged, and only saved bytes are submitted again.
Replay(h, now) ==
  LET k == handlers[h].key IN
  /\ handlers[h].phase = "authenticated"
  /\ Existing(k)
  /\ meter' = [meter EXCEPT !.time = Time(now)]
  /\ IF k \in running[h[1]] \/ anchors[k].prepared = None
     THEN Ends(h) /\ UNCHANGED running       \* SERVICE_UNAVAILABLE, SUBMISSION_INTERRUPTED
     ELSE Moves(h, "prepared", anchors[k].prepared) /\ running' = [running EXCEPT ![h[1]] = @ \cup {k}]
  /\ UNCHANGED <<accounts, anchors, history>>

\* A transaction fails as a whole: the clock is invalid or another process holds the ledger.
TransactionFails(h) ==
  /\ \/ handlers[h].phase = "authenticated" /\ UNCHANGED running
     \/ handlers[h].phase = "prepared" /\ Released(h)
  /\ Ends(h)
  /\ UNCHANGED <<durable, history>>

-----------------------------------------------------------------------------
(* Preparation and broadcast, each behind an await.                        *)

\* The helper signs; its answer is still on the way.
Sign(h, tx) ==
  LET k == handlers[h].key IN
  /\ handlers[h].phase = "preparing"
  /\ \A x \in signed : x.tx # tx
  /\ signed' = signed \cup {[key |-> k, tx |-> tx, at |-> anchors[k].created]}
  /\ Moves(h, "signed", tx)
  /\ UNCHANGED <<durable, running, issued, counted, handed, admitted, served>>

\* A plausible bug in Save, used only to test the properties.
SaveNothing(h) ==
  /\ handlers[h].phase = "signed" /\ Runs(h)
  /\ Moves(h, "prepared", handlers[h].tx)
  /\ UNCHANGED <<durable, running, history>>

Save(h) ==
  /\ handlers[h].phase = "signed" /\ Runs(h)
  /\ anchors' = [anchors EXCEPT ![handlers[h].key].prepared = handlers[h].tx]
  /\ Moves(h, "prepared", handlers[h].tx)
  /\ UNCHANGED <<meter, accounts, running, history>>

\* A plausible bug in PrepareFails, used only to test the properties.
PrepareFailsHolding(h) ==
  /\ handlers[h].phase \in {"preparing", "signed"} /\ Runs(h)
  /\ Ends(h)
  /\ UNCHANGED <<durable, running, history>>

\* A plausible bug in PrepareFails, used only to test the properties.
PrepareNeverTimesOut(h) ==
  /\ handlers[h].phase = "signed" /\ Runs(h)
  /\ Ends(h) /\ Released(h)
  /\ UNCHANGED <<durable, history>>

\* No answer in time, an unusable one, or the write fails: charged, and never repeatable.
PrepareFails(h) ==
  /\ handlers[h].phase \in {"preparing", "signed"} /\ Runs(h)
  /\ Ends(h) /\ Released(h)
  /\ UNCHANGED <<durable, history>>

TooSoon(k, t) ==
  \/ anchors[k].broadcasts >= MaxBroadcasts
  \/ anchors[k].broadcasts > 0 /\ t - anchors[k].last < Spacing

\* A plausible bug in CountBroadcast, used only to test the properties.
CountNothing(h, now) ==
  /\ handlers[h].phase = "prepared"
  /\ ~TooSoon(handlers[h].key, Time(now))
  /\ Moves(h, "counted", handlers[h].tx)
  /\ UNCHANGED <<durable, running, history>>

CountBroadcast(h, now) ==
  LET k == handlers[h].key
      t == Time(now)
  IN
  /\ handlers[h].phase = "prepared"
  /\ ~TooSoon(k, t)
  /\ meter' = [meter EXCEPT !.time = t]
  /\ anchors' = [anchors EXCEPT ![k].broadcasts = @ + 1, ![k].last = t]
  /\ counted' = [counted EXCEPT ![k] = Append(@, t)]
  /\ Moves(h, "counted", handlers[h].tx)
  /\ UNCHANGED <<accounts, running, issued, signed, handed, admitted, served>>

\* The request is answered with the saved transaction and nothing is sent.
SkipBroadcast(h, now) ==
  /\ handlers[h].phase = "prepared"
  /\ TooSoon(handlers[h].key, Time(now))
  /\ meter' = [meter EXCEPT !.time = Time(now)]
  /\ Ends(h) /\ Released(h)
  /\ UNCHANGED <<accounts, anchors, history>>

\* From here the helper may submit at any time, even after its server is gone.
HandOver(h) ==
  /\ handlers[h].phase = "counted"
  /\ handed' = [handed EXCEPT ![handlers[h].key] = Append(@, handlers[h].tx)]
  /\ Moves(h, "broadcasting", handlers[h].tx)
  /\ UNCHANGED <<durable, running, issued, signed, counted, admitted, served>>

\* The helper answers, fails or is killed after its five seconds: the answer is the same.
Reply(h) ==
  /\ handlers[h].phase = "broadcasting" /\ Runs(h)
  /\ Ends(h) /\ Released(h)
  /\ UNCHANGED <<durable, history>>

\* The server dies and starts again on the same ledger; its constructor changes no row.
Crash(s) ==
  /\ \E h \in Handlers : h[1] = s /\ handlers[h] # Idle
  /\ handlers' = [h \in Handlers |-> IF h[1] = s THEN Idle ELSE handlers[h]]
  /\ running' = [running EXCEPT ![s] = {}]
  /\ UNCHANGED <<durable, history>>

-----------------------------------------------------------------------------
Operator ==
  \/ \E a \in Accounts, token \in Tokens, paid \in Times : Provision(a, token, paid)
  \/ \E a \in Accounts, paid \in Times : SetSubscription(a, paid)
  \/ \E a \in Accounts, token \in Tokens : RotateAccessCode(a, token)

Arrive(h) == \E token \in Tokens, now \in Times :
  \/ Reject(h, token, now)
  \/ Status(h, token, now)
  \/ \E payload \in Payloads : Authenticate(h, token, payload, now)

\* What the server does of itself once it has admitted a request.
Serve(h) ==
  \/ \E now \in Times : \/ Reserve(h, now) \/ Refuse(h, now) \/ Replay(h, now)
                        \/ CountBroadcast(h, now) \/ SkipBroadcast(h, now)
  \/ TransactionFails(h) \/ Save(h) \/ PrepareFails(h) \/ HandOver(h) \/ Reply(h)

Next ==
  \/ Operator
  \/ \E h \in Handlers : Arrive(h) \/ Serve(h) \/ \E tx \in Transactions : Sign(h, tx)
  \/ \E s \in Servers : Crash(s)

Spec == Init /\ [][Next]_vars
\* Node resumes every ready callback and the helper is killed after its timeout; nothing makes
\* the helper sign, a client ask or the operator act.
FairSpec == Spec /\ \A h \in Handlers : WF_vars(Serve(h))

-----------------------------------------------------------------------------
(* Properties.                                                             *)

\* The ledger, the counters and the requests keep their shapes; the counters stay at most one
\* over their limits however many requests arrive (#authenticate).
TypeOK ==
  /\ meter \in Meter
  /\ accounts \in [Accounts -> Account \cup {None}]
  /\ anchors \in [Keys -> Row \cup {None}]
  /\ handlers \in [Handlers -> Requests]
  /\ running \in [Servers -> SUBSET Keys]
  /\ issued \subseteq Tokens
  /\ signed \subseteq [key : Keys, tx : Transactions, at : Times]
  /\ counted \in [Keys -> Seq(Times)]
  /\ handed \in [Keys -> Seq(Transactions)]
  /\ admitted \in [Accounts -> [Minutes -> Nat]]
  /\ served \in [Minutes -> Nat]

SignedBy(S) == {x \in signed : x.key \in S}

\* No crash, failed preparation, renewal, rotation, second process or clock set back makes the
\* service sign, and so owe a fee for, more than the quotas of anchor (lines 110 to 113).
FeesBounded ==
  /\ \A t \in Times, a \in Accounts :
       /\ Cardinality({x \in SignedBy(OfAccount(a)) : Month[x.at] = Month[t]}) <= AccountMonth
       /\ Cardinality({x \in SignedBy(OfAccount(a)) : Day[x.at] = Day[t]}) <= AccountDay
  /\ \A t \in Times : Cardinality({x \in signed : Day[x.at] = Day[t]}) <= GlobalDay
  /\ Cardinality(signed) <= LedgerLimit

\* One payload of one account is signed at most once, an interrupted preparation never repeated by
\* this server or another, and whatever reached the helper for submission is that transaction, as
\* saved in its row, the same for every attempt (anchor, lines 105 to 142).
NeverResigned ==
  /\ \A x, y \in signed : x.key = y.key => x = y
  /\ \A k \in Keys : \A i \in DOMAIN handed[k] :
       /\ anchors[k] # None /\ anchors[k].prepared = handed[k][i]
       /\ \E x \in signed : x.key = k /\ x.tx = handed[k][i]

\* The durable counter is ahead of the submissions it counts, so a crash cannot buy a fourth
\* broadcast, and two broadcasts of one transaction are counted at least Spacing apart on the
\* service's clock, by whichever server (lines 135 to 142).
BroadcastsCounted ==
  \A k \in Keys :
    /\ handed[k] # <<>> => /\ Len(handed[k]) <= anchors[k].broadcasts
                           /\ Len(handed[k]) <= MaxBroadcasts
    /\ \A i, j \in DOMAIN counted[k] : i < j => counted[k][j] >= counted[k][i] + Spacing

\* No account is served more than AccountMinute requests, nor all of them more than
\* GlobalMinute, within a minute of the service's clock, whatever code they used (#authenticate).
RateHolds ==
  \A m \in Minutes :
    /\ \A a \in Accounts : admitted[a][m] <= AccountMinute
    /\ served[m] <= GlobalMinute

\* A server holds exactly the keys its requests are submitting, one request each, so that no
\* failure leaves a payload refused until the next restart (lines 117, 118 and 147).
RunningIsLive ==
  /\ \A s \in Servers :
       running[s] = {handlers[h].key : h \in {g \in Handlers : g[1] = s /\ handlers[g].phase \in Submitting}}
  /\ \A g, h \in Handlers :
       g[1] = h[1] /\ handlers[g].phase \in Submitting /\ handlers[h].phase \in Submitting
         /\ handlers[g].key = handlers[h].key => g = h

\* What the service may never exceed, whatever fails, restarts or is done to the accounts, and what
\* it may never refuse for good (#authenticate and anchor).
QuotasHold == TypeOK /\ FeesBounded /\ RateHolds /\ RunningIsLive

\* No step refunds or redates a reservation, replaces saved bytes, takes back a counted broadcast
\* or moves the service's time back; and a new reservation belongs to an account whose subscription
\* outlives every instant the service has seen: neither a stale authentication nor a clock set back
\* buys one (#time and anchor, lines 106 to 142).
LedgerGrows == [][
  /\ meter'.time >= meter.time
  /\ \A k \in Keys : anchors[k] # None =>
       /\ anchors'[k] # None
       /\ anchors'[k].created = anchors[k].created
       /\ anchors[k].prepared # None => anchors'[k].prepared = anchors[k].prepared
       /\ anchors'[k].broadcasts >= anchors[k].broadcasts
  /\ \A k \in Keys : anchors[k] = None /\ anchors'[k] # None =>
       accounts'[k[1]].paid > anchors'[k].created /\ anchors'[k].created >= meter.time ]_vars

\* Every admitted request is answered, so a draining server can close (close, line 149).
RequestsEnd == \A h \in Handlers : handlers[h] # Idle ~> handlers[h] = Idle
=============================================================================
