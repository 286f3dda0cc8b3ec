-------------------------- MODULE SponsorshipProofs --------------------------
(***************************************************************************)
(* Proofs about Sponsorship for any number of accounts, payloads, access   *)
(* codes, transactions, servers and handlers, any limits and any calendar. *)
(***************************************************************************)
EXTENDS Sponsorship, FiniteSetTheorems, SequenceTheorems, TLAPS

(***************************************************************************)
(* Shapes.                                                                 *)
(***************************************************************************)

Phases == Sync \cup Submitting

LEMMA TimeType ==
  ASSUME TypeOK, NEW now \in Times
  PROVE  /\ Time(now) \in Times
         /\ Time(now) >= meter.time
         /\ Minute[Time(now)] \in Minutes
  <1>1. Times \subseteq Nat BY CalendarAssumption
  <1>2. meter.time \in Times BY DEF TypeOK, Meter
  <1>3. now \in Nat /\ meter.time \in Nat BY <1>1, <1>2
  <1>4. Time(now) = IF now > meter.time THEN now ELSE meter.time BY DEF Time, Later
  <1>5. Time(now) \in {now, meter.time} /\ Time(now) >= meter.time BY <1>3, <1>4
  <1> QED BY <1>2, <1>5 DEF Minutes

LEMMA RequestType ==
  ASSUME NEW phase \in Phases, NEW k \in Keys, NEW tx \in Transactions \cup {None}
  PROVE  /\ Request(phase, k, tx) \in Requests
         /\ Request(phase, k, tx).phase = phase
         /\ Request(phase, k, tx).key = k
         /\ Request(phase, k, tx).tx = tx
  BY DEF Request, Requests, Phases

\* A handler that is not idle serves a request.
LEMMA ServedType ==
  ASSUME TypeOK, NEW h \in Handlers
  PROVE  /\ handlers[h] \in Requests
         /\ handlers[h].phase \in Phases =>
              /\ handlers[h].key \in Keys /\ handlers[h].key[1] \in Accounts
              /\ handlers[h].tx \in Transactions \cup {None}
         /\ handlers[h].phase \notin Phases => handlers[h] = Idle
         /\ h[1] \in Servers
  BY DEF TypeOK, Requests, Idle, Phases, Sync, Submitting, Keys, Handlers

LEMMA IdleType == Idle \in Requests /\ Idle.phase = "idle" /\ Idle.phase \notin Phases
  BY DEF Requests, Idle, Phases, Sync, Submitting

LEMMA RowType ==
  ASSUME TypeOK, NEW k \in Keys, anchors[k] # None
  PROVE  anchors[k] \in Row
  BY DEF TypeOK

LEMMA AccountType ==
  ASSUME TypeOK, NEW a \in Accounts, accounts[a] # None
  PROVE  accounts[a] \in Account
  BY DEF TypeOK

LEMMA NewRowType == ASSUME NEW t \in Times PROVE NewRow(t) \in Row
  BY CalendarAssumption, LimitAssumption DEF NewRow, Row

LEMMA CountedRowType ==
  ASSUME TypeOK, NEW k \in Keys, anchors[k] # None, NEW t \in Times,
         ~(anchors[k].broadcasts >= MaxBroadcasts)
  PROVE  LET row == [anchors[k] EXCEPT !.broadcasts = @ + 1, !.last = t] IN
         /\ row \in Row /\ row # None
         /\ row.broadcasts = anchors[k].broadcasts + 1 /\ row.last = t
         /\ row.prepared = anchors[k].prepared /\ row.created = anchors[k].created
  <1>1. anchors[k] \in Row BY RowType
  <1>2. MaxBroadcasts \in Nat /\ anchors[k].broadcasts \in 0 .. MaxBroadcasts
    BY <1>1, LimitAssumption DEF Row
  <1>3. anchors[k].broadcasts + 1 \in 0 .. MaxBroadcasts BY <1>2
  <1>4. [anchors[k] EXCEPT !.broadcasts = @ + 1, !.last = t] \in Row BY <1>1, <1>3 DEF Row
  <1> QED BY <1>1, <1>4, NoneAssumption DEF Row

LEMMA HitsType ==
  ASSUME NEW hits \in Nat, NEW limit \in Nat
  PROVE  /\ Capped(hits, limit) \in 0 .. limit + 1
         /\ hits <= limit + 1 => Capped(hits, limit) = hits
         /\ hits > limit => Capped(hits, limit) = limit + 1
  BY DEF Capped

LEMMA MeteredType ==
  ASSUME TypeOK, NEW t \in Times, Metered(t)
  PROVE  meter' \in Meter /\ GlobalHits(t) \in Nat \ {0}
  <1>1. GlobalHits(t) \in Nat \ {0} /\ GlobalMinute \in Nat
    BY LimitAssumption DEF TypeOK, Meter, GlobalHits
  <1>2. Capped(GlobalHits(t), GlobalMinute) \in 0 .. GlobalMinute + 1
    BY <1>1, HitsType
  <1>3. Minute[t] \in Minutes BY DEF Minutes
  <1> QED BY <1>1, <1>2, <1>3 DEF Metered, Meter

LEMMA AccountMeteredType ==
  ASSUME TypeOK, NEW a \in Accounts, accounts[a] # None, NEW t \in Times, AccountMetered(a, t)
  PROVE  /\ accounts' \in [Accounts -> Account \cup {None}]
         /\ AccountHits(a, t) \in Nat \ {0}
  <1>1. accounts[a] \in Account BY AccountType
  <1>2. AccountHits(a, t) \in Nat \ {0} /\ AccountMinute \in Nat
    BY <1>1, LimitAssumption DEF Account, AccountHits
  <1>3. Capped(AccountHits(a, t), AccountMinute) \in 0 .. AccountMinute + 1
    BY <1>2, HitsType
  <1>4. Minute[t] \in Minutes BY DEF Minutes
  <1>5. [accounts[a] EXCEPT !.minute = Minute[t], !.hits = Capped(AccountHits(a, t), AccountMinute)] \in Account
    BY <1>1, <1>3, <1>4 DEF Account
  <1> QED BY <1>2, <1>5 DEF AccountMetered, TypeOK

LEMMA AuthenticatedType ==
  ASSUME TypeOK, NEW a \in Accounts, NEW token, NEW t \in Times, Authenticated(a, token, t)
  PROVE  /\ meter' \in Meter
         /\ accounts' \in [Accounts -> Account \cup {None}]
         /\ admitted' \in [Accounts -> [Minutes -> Nat]]
         /\ served' \in [Minutes -> Nat]
         /\ accounts[a] # None
  <1>1. accounts[a] # None BY DEF Authenticated, Holder, Opened
  <1>2. meter' \in Meter BY MeteredType DEF Authenticated
  <1>3. accounts' \in [Accounts -> Account \cup {None}]
    BY <1>1, AccountMeteredType DEF Authenticated
  <1>4. Minute[t] \in Minutes BY DEF Minutes
  <1>5. served' \in [Minutes -> Nat] BY <1>4 DEF Authenticated, TypeOK
  <1>6. [admitted[a] EXCEPT ![Minute[t]] = @ + 1] \in [Minutes -> Nat]
    BY <1>4 DEF TypeOK
  <1>7. admitted' = [admitted EXCEPT ![a] = [admitted[a] EXCEPT ![Minute[t]] = @ + 1]]
    BY DEF Authenticated
  <1>8. admitted' \in [Accounts -> [Minutes -> Nat]]
    BY <1>6, <1>7 DEF TypeOK
  <1> QED BY <1>1, <1>2, <1>3, <1>5, <1>8

LEMMA InitTyped == Init => TypeOK
  <1> SUFFICES ASSUME Init PROVE TypeOK
    OBVIOUS
  <1>1. 0 \in Times /\ 0 \in Minutes BY CalendarAssumption DEF Minutes
  <1>2. GlobalMinute \in Nat BY LimitAssumption
  <1>3. meter \in Meter BY <1>1, <1>2 DEF Init, Meter
  <1>4. <<>> \in Seq(Times) /\ <<>> \in Seq(Transactions) BY EmptySeq
  <1>5. \A h \in Handlers : handlers[h] \in Requests BY IdleType DEF Init
  <1> QED BY <1>3, <1>4, <1>5 DEF Init, TypeOK

LEMMA MovesType ==
  ASSUME TypeOK, NEW h \in Handlers, handlers[h].phase \in Phases, NEW phase \in Phases,
         NEW tx \in Transactions \cup {None}, Moves(h, phase, tx)
  PROVE  /\ handlers' \in [Handlers -> Requests]
         /\ handlers' = [handlers EXCEPT ![h] = Request(phase, handlers[h].key, tx)]
  BY ServedType, RequestType DEF Moves, TypeOK

LEMMA EndsType ==
  ASSUME TypeOK, NEW h \in Handlers, Ends(h)
  PROVE  handlers' \in [Handlers -> Requests]
  BY IdleType DEF Ends, TypeOK

LEMMA ReleasedType ==
  ASSUME TypeOK, NEW h \in Handlers, Released(h)
  PROVE  running' \in [Servers -> SUBSET Keys]
  BY ServedType DEF Released, TypeOK

LEMMA OperatorTyped == ASSUME TypeOK, Operator PROVE TypeOK'
  <1>1. ASSUME NEW a \in Accounts, NEW token \in Tokens, NEW paid \in Times, Provision(a, token, paid)
        PROVE  TypeOK'
    <2>1. 0 \in Minutes /\ AccountMinute \in Nat BY CalendarAssumption, LimitAssumption DEF Minutes
    <2>2. [token |-> token, paid |-> paid, minute |-> 0, hits |-> 0] \in Account BY <2>1 DEF Account
    <2>3. accounts' \in [Accounts -> Account \cup {None}] /\ issued' \subseteq Tokens
      BY <1>1, <2>2 DEF Provision, TypeOK
    <2> QED BY <1>1, <2>3 DEF Provision, TypeOK, memory
  <1>2. ASSUME NEW a \in Accounts, NEW paid \in Times, SetSubscription(a, paid)
        PROVE  TypeOK'
    <2>1. [accounts[a] EXCEPT !.paid = paid] \in Account
      BY <1>2, AccountType DEF SetSubscription, Account
    <2>2. accounts' \in [Accounts -> Account \cup {None}] BY <1>2, <2>1 DEF SetSubscription, TypeOK
    <2> QED BY <1>2, <2>2 DEF SetSubscription, TypeOK, memory, history
  <1>3. ASSUME NEW a \in Accounts, NEW token \in Tokens, RotateAccessCode(a, token)
        PROVE  TypeOK'
    <2>1. [accounts[a] EXCEPT !.token = token] \in Account
      BY <1>3, AccountType DEF RotateAccessCode, Account
    <2>2. accounts' \in [Accounts -> Account \cup {None}] /\ issued' \subseteq Tokens
      BY <1>3, <2>1 DEF RotateAccessCode, TypeOK
    <2> QED BY <1>3, <2>2 DEF RotateAccessCode, TypeOK, memory
  <1> QED BY <1>1, <1>2, <1>3 DEF Operator

LEMMA ArriveTyped == ASSUME TypeOK, NEW h \in Handlers, Arrive(h) PROVE TypeOK'
  <1>1. ASSUME NEW token \in Tokens, NEW now \in Times, Reject(h, token, now)
        PROVE  TypeOK'
    <2>1. Time(now) \in Times BY TimeType
    <2>2. meter' \in Meter BY <1>1, <2>1, MeteredType DEF Reject
    <2>3. accounts' \in [Accounts -> Account \cup {None}]
      BY <1>1, <2>1, AccountMeteredType DEF Reject, Holder, Opened, TypeOK
    <2> QED BY <1>1, <2>2, <2>3 DEF Reject, TypeOK, memory, history
  <1>2. ASSUME NEW token \in Tokens, NEW now \in Times, Status(h, token, now)
        PROVE  TypeOK'
    <2>1. Time(now) \in Times BY TimeType
    <2>2. /\ meter' \in Meter /\ accounts' \in [Accounts -> Account \cup {None}]
          /\ admitted' \in [Accounts -> [Minutes -> Nat]] /\ served' \in [Minutes -> Nat]
      BY <1>2, <2>1, AuthenticatedType DEF Status
    <2> QED BY <1>2, <2>2 DEF Status, TypeOK, memory
  <1>3. ASSUME NEW token \in Tokens, NEW now \in Times, NEW payload \in Payloads,
               Authenticate(h, token, payload, now)
        PROVE  TypeOK'
    <2>1. Time(now) \in Times BY TimeType
    <2>2. /\ meter' \in Meter /\ accounts' \in [Accounts -> Account \cup {None}]
          /\ admitted' \in [Accounts -> [Minutes -> Nat]] /\ served' \in [Minutes -> Nat]
      BY <1>3, <2>1, AuthenticatedType DEF Authenticate
    <2>3. \A a \in Accounts : Request("authenticated", <<a, payload>>, None) \in Requests
      BY RequestType DEF Keys, Phases, Sync
    <2>4. handlers' \in [Handlers -> Requests] BY <1>3, <2>3 DEF Authenticate, TypeOK
    <2> QED BY <1>3, <2>2, <2>4 DEF Authenticate, TypeOK
  <1> QED BY <1>1, <1>2, <1>3 DEF Arrive

LEMMA TimeMoves ==
  ASSUME TypeOK, NEW t \in Times, meter' = [meter EXCEPT !.time = t]
  PROVE  meter' \in Meter
  BY DEF TypeOK, Meter

LEMMA ServeTyped ==
  ASSUME TypeOK, NEW h \in Handlers, Serve(h),
         handlers[h].phase \in Submitting => anchors[handlers[h].key] # None,
         handlers[h].phase = "signed" => handlers[h].tx # None,
         handlers[h].phase = "counted" => handlers[h].tx # None
  PROVE  TypeOK'
  <1> DEFINE k == handlers[h].key
  <1>0. handlers[h].phase \in Phases => k \in Keys /\ handlers[h].tx \in Transactions \cup {None}
    BY ServedType
  <1>1. ASSUME NEW now \in Times, Reserve(h, now) PROVE TypeOK'
    <2>1. Time(now) \in Times BY TimeType
    <2>2. k \in Keys BY <1>0, <1>1 DEF Reserve, Phases, Sync
    <2>3. meter' \in Meter BY <1>1, <2>1, TimeMoves DEF Reserve
    <2>4. anchors' \in [Keys -> Row \cup {None}] BY <1>1, <2>1, <2>2, NewRowType DEF Reserve, TypeOK
    <2>5. handlers' \in [Handlers -> Requests]
      BY <1>1, MovesType, EndsType DEF Reserve, Phases, Sync, Submitting
    <2>6. running' \in [Servers -> SUBSET Keys]
      <3>1. h[1] \in Servers /\ running[h[1]] \cup {k} \in SUBSET Keys
        BY <2>2 DEF TypeOK, Handlers
      <3>2. running' = running \/ running' = [running EXCEPT ![h[1]] = @ \cup {k}] BY <1>1 DEF Reserve
      <3> QED BY <3>1, <3>2 DEF TypeOK
    <2> QED BY <1>1, <2>3, <2>4, <2>5, <2>6 DEF Reserve, TypeOK, history
  <1>2. ASSUME NEW now \in Times, Refuse(h, now) PROVE TypeOK'
    BY <1>2, EndsType DEF Refuse, TypeOK, durable, history
  <1>3. ASSUME NEW now \in Times, Replay(h, now) PROVE TypeOK'
    <2>1. Time(now) \in Times BY TimeType
    <2>2. k \in Keys BY <1>0, <1>3 DEF Replay, Phases, Sync
    <2>3. meter' \in Meter BY <1>3, <2>1, TimeMoves DEF Replay
    <2>4. anchors[k].prepared \in Transactions \cup {None}
      BY <1>3, <2>2, RowType DEF Replay, Existing, Row
    <2>5. handlers' \in [Handlers -> Requests]
      BY <1>3, <2>4, MovesType, EndsType DEF Replay, Phases, Sync, Submitting
    <2>6. running' \in [Servers -> SUBSET Keys] BY <1>3, <2>2 DEF Replay, TypeOK
    <2> QED BY <1>3, <2>3, <2>5, <2>6 DEF Replay, TypeOK, history
  <1>4. ASSUME NEW now \in Times, CountBroadcast(h, now) PROVE TypeOK'
    <2>1. Time(now) \in Times BY TimeType
    <2>2. k \in Keys /\ anchors[k] # None BY <1>0, <1>4 DEF CountBroadcast, Phases, Sync, Submitting
    <2>3. meter' \in Meter BY <1>4, <2>1, TimeMoves DEF CountBroadcast
    <2>4. anchors[k] \in Row BY <2>2, RowType
    <2>5. [anchors[k] EXCEPT !.broadcasts = @ + 1, !.last = Time(now)] \in Row
      BY <1>4, <2>1, <2>2, CountedRowType DEF CountBroadcast, TooSoon
    <2>6. anchors' \in [Keys -> Row \cup {None}] BY <1>4, <2>2, <2>5 DEF CountBroadcast, TypeOK
    <2>7. Append(counted[k], Time(now)) \in Seq(Times) BY <2>1, <2>2, AppendProperties DEF TypeOK
    <2>8. counted' \in [Keys -> Seq(Times)] BY <1>4, <2>7 DEF CountBroadcast, TypeOK
    <2>9. handlers' \in [Handlers -> Requests]
      BY <1>0, <1>4, MovesType DEF CountBroadcast, Phases, Sync
    <2> QED BY <1>4, <2>3, <2>6, <2>8, <2>9 DEF CountBroadcast, TypeOK
  <1>5. ASSUME NEW now \in Times, SkipBroadcast(h, now) PROVE TypeOK'
    <2>1. meter' \in Meter BY <1>5, TimeType, TimeMoves DEF SkipBroadcast
    <2>2. handlers' \in [Handlers -> Requests] BY <1>5, EndsType DEF SkipBroadcast
    <2>3. running' \in [Servers -> SUBSET Keys] BY <1>5, ReleasedType DEF SkipBroadcast
    <2> QED BY <1>5, <2>1, <2>2, <2>3 DEF SkipBroadcast, TypeOK, history
  <1>6. ASSUME TransactionFails(h) \/ PrepareFails(h) \/ Reply(h) PROVE TypeOK'
    <2>1. handlers' \in [Handlers -> Requests] BY <1>6, EndsType DEF TransactionFails, PrepareFails, Reply
    <2>2. running' \in [Servers -> SUBSET Keys]
      BY <1>6, ReleasedType DEF TransactionFails, PrepareFails, Reply, TypeOK
    <2> QED BY <1>6, <2>1, <2>2 DEF TransactionFails, PrepareFails, Reply, TypeOK, durable, history
  <1>7. ASSUME Save(h) PROVE TypeOK'
    <2>1. /\ k \in Keys /\ anchors[k] # None
          /\ handlers[h].tx \in Transactions
      BY <1>0, <1>7 DEF Save, Phases, Sync, Submitting
    <2>2. [anchors[k] EXCEPT !.prepared = handlers[h].tx] \in Row BY <2>1, RowType DEF Row
    <2>3. anchors' \in [Keys -> Row \cup {None}] BY <1>7, <2>1, <2>2 DEF Save, TypeOK
    <2>4. handlers' \in [Handlers -> Requests] BY <1>7, <2>1, MovesType DEF Save, Phases, Submitting
    <2> QED BY <1>7, <2>3, <2>4 DEF Save, TypeOK, history
  <1>8. ASSUME HandOver(h) PROVE TypeOK'
    <2>1. k \in Keys /\ handlers[h].tx \in Transactions
      BY <1>0, <1>8 DEF HandOver, Phases, Sync, Submitting
    <2>2. Append(handed[k], handlers[h].tx) \in Seq(Transactions) BY <2>1, AppendProperties DEF TypeOK
    <2>3. handed' \in [Keys -> Seq(Transactions)] BY <1>8, <2>2 DEF HandOver, TypeOK
    <2>4. handlers' \in [Handlers -> Requests]
      BY <1>8, <2>1, MovesType DEF HandOver, Phases, Sync, Submitting
    <2> QED BY <1>8, <2>3, <2>4 DEF HandOver, TypeOK, durable
  <1> QED BY <1>1, <1>2, <1>3, <1>4, <1>5, <1>6, <1>7, <1>8 DEF Serve

LEMMA SignTyped ==
  ASSUME TypeOK, NEW h \in Handlers, NEW tx \in Transactions, Sign(h, tx),
         handlers[h].phase \in Submitting => anchors[handlers[h].key] # None
  PROVE  TypeOK'
  <1>1. handlers[h].key \in Keys /\ anchors[handlers[h].key] # None
    BY ServedType DEF Sign, Phases, Submitting
  <1>2. anchors[handlers[h].key].created \in Times BY <1>1, RowType DEF Row
  <1>3. handlers' \in [Handlers -> Requests] BY MovesType DEF Sign, Phases, Submitting
  <1>4. signed' \subseteq [key : Keys, tx : Transactions, at : Times]
    BY <1>1, <1>2 DEF Sign, TypeOK
  <1> QED BY <1>3, <1>4 DEF Sign, TypeOK, durable

LEMMA CrashTyped == ASSUME TypeOK, NEW s \in Servers, Crash(s) PROVE TypeOK'
  BY IdleType DEF Crash, TypeOK, durable, history
-----------------------------------------------------------------------------
(***************************************************************************)
(* One transaction per reservation: what the row, the helper's signature   *)
(* and the requests under way have to do with each other.                  *)
(***************************************************************************)

Signed(k, tx) == \E x \in signed : x.key = k /\ x.tx = tx

\* A request that prepares has signed nothing yet or holds what it signed; the row does not know.
\* One that is past that holds what the row has saved.
Holds(h) == handlers[h].phase \in Submitting =>
  /\ anchors[handlers[h].key] # None
  /\ handlers[h].phase = "preparing" => \A x \in signed : x.key # handlers[h].key
  /\ handlers[h].phase \in {"preparing", "signed"} => anchors[handlers[h].key].prepared = None
  /\ handlers[h].phase \notin {"preparing", "signed"} =>
       anchors[handlers[h].key].prepared = handlers[h].tx
  /\ handlers[h].phase # "preparing" => Signed(handlers[h].key, handlers[h].tx)

OnePreparation == \A g, h \in Handlers :
  /\ handlers[g].phase \in {"preparing", "signed"} /\ handlers[h].phase \in {"preparing", "signed"}
  /\ handlers[g].key = handlers[h].key
  => g = h

RowSound(k) ==
  /\ anchors[k] = None => handed[k] = <<>> /\ counted[k] = <<>> /\ \A x \in signed : x.key # k
  /\ anchors[k] # None /\ anchors[k].prepared # None => Signed(k, anchors[k].prepared)
  /\ \A i \in DOMAIN handed[k] : handed[k][i] = anchors[k].prepared
  /\ \A x \in signed : x.key = k => x.at = anchors[k].created
  /\ \A x, y \in signed : x.key = k /\ y.key = k => x = y

OneTransaction ==
  /\ \A h \in Handlers : Holds(h)
  /\ OnePreparation
  /\ \A k \in Keys : RowSound(k)

LEMMA SignedType == ASSUME TypeOK, NEW k, NEW tx, Signed(k, tx) PROVE k \in Keys /\ tx \in Transactions /\ tx # None
  BY NoneAssumption DEF TypeOK, Signed

LEMMA InitOne == Init => OneTransaction
  <1> SUFFICES ASSUME Init PROVE OneTransaction
    OBVIOUS
  <1>1. \A h \in Handlers : handlers[h].phase \notin Phases BY IdleType DEF Init
  <1>2. (\A h \in Handlers : Holds(h)) /\ OnePreparation
    BY <1>1 DEF Holds, OnePreparation, Phases, Submitting
  <1>3. \A k \in Keys : RowSound(k) BY DEF Init, RowSound
  <1> QED BY <1>2, <1>3 DEF OneTransaction

\* Most steps change no row, sign and submit nothing, and let no request go on.
Quiet ==
  /\ UNCHANGED <<anchors, signed, counted, handed>>
  /\ \A h \in Handlers : handlers'[h] = handlers[h] \/ handlers'[h].phase \notin Submitting

LEMMA EndsQuietly ==
  ASSUME TypeOK, NEW h \in Handlers, Ends(h)
  PROVE  \A g \in Handlers : handlers'[g] = handlers[g] \/ handlers'[g].phase \notin Submitting
  BY IdleType DEF Ends, TypeOK, Phases

LEMMA QuietSteps ==
  /\ TypeOK /\ Operator => Quiet
  /\ \A h \in Handlers : TypeOK /\ Arrive(h) => Quiet
  /\ \A h \in Handlers, now \in Times : TypeOK /\ (Refuse(h, now) \/ SkipBroadcast(h, now)) => Quiet
  /\ \A h \in Handlers : TypeOK /\ (TransactionFails(h) \/ PrepareFails(h) \/ Reply(h)) => Quiet
  /\ \A s \in Servers : TypeOK /\ Crash(s) => Quiet
  <1>1. TypeOK /\ Operator => Quiet
    BY DEF Operator, Provision, SetSubscription, RotateAccessCode, Quiet, memory, history
  <1>2. ASSUME TypeOK, NEW h \in Handlers, NEW token \in Tokens, NEW now \in Times,
               \/ Reject(h, token, now) \/ Status(h, token, now)
               \/ \E payload \in Payloads : Authenticate(h, token, payload, now)
        PROVE  Quiet
    <2>1. CASE Reject(h, token, now) \/ Status(h, token, now)
      BY <2>1 DEF Reject, Status, Quiet, memory, history
    <2>2. ASSUME NEW payload \in Payloads, Authenticate(h, token, payload, now) PROVE Quiet
      <3>1. PICK a \in Accounts : handlers' = [handlers EXCEPT ![h] = Request("authenticated", <<a, payload>>, None)]
        BY <2>2 DEF Authenticate
      <3>2. Request("authenticated", <<a, payload>>, None).phase \notin Submitting
        BY RequestType DEF Request, Submitting
      <3> QED BY <2>2, <3>1, <3>2 DEF Authenticate, Quiet, TypeOK
    <2> QED BY <1>2, <2>1, <2>2
  <1>3. ASSUME TypeOK, NEW h \in Handlers, NEW now \in Times, Refuse(h, now) \/ SkipBroadcast(h, now)
        PROVE  Quiet
    BY <1>3, EndsQuietly DEF Refuse, SkipBroadcast, Quiet, durable, history
  <1>4. ASSUME TypeOK, NEW h \in Handlers, TransactionFails(h) \/ PrepareFails(h) \/ Reply(h)
        PROVE  Quiet
    BY <1>4, EndsQuietly DEF TransactionFails, PrepareFails, Reply, Quiet, durable, history
  <1>5. ASSUME TypeOK, NEW s \in Servers, Crash(s) PROVE Quiet
    BY <1>5, IdleType DEF Crash, Quiet, Phases, durable, history
  <1>6. ASSUME TypeOK, NEW h \in Handlers, Arrive(h) PROVE Quiet
    BY <1>2, <1>6 DEF Arrive
  <1> QED BY <1>1, <1>3, <1>4, <1>5, <1>6

LEMMA QuietOne == ASSUME OneTransaction, Quiet PROVE OneTransaction'
  <1>1. \A h \in Handlers : Holds(h)' BY DEF OneTransaction, Quiet, Holds, Signed
  <1>2. OnePreparation' BY DEF OneTransaction, Quiet, OnePreparation, Submitting
  <1>3. \A k \in Keys : RowSound(k)' BY DEF OneTransaction, Quiet, RowSound, Signed
  <1> QED BY <1>1, <1>2, <1>3 DEF OneTransaction

\* A request that goes on: the others stay where they are.
LEMMA OneMoves ==
  ASSUME TypeOK, NEW h \in Handlers, handlers[h].phase \in Phases, NEW phase \in Phases,
         NEW tx \in Transactions \cup {None}, Moves(h, phase, tx)
  PROVE  /\ handlers'[h].phase = phase /\ handlers'[h].key = handlers[h].key /\ handlers'[h].tx = tx
         /\ \A g \in Handlers \ {h} : handlers'[g] = handlers[g]
         /\ handlers[h].key \in Keys
  BY ServedType, MovesType, RequestType DEF TypeOK

LEMMA OneEnds ==
  ASSUME TypeOK, NEW h \in Handlers, Ends(h)
  PROVE  /\ handlers'[h].phase \notin Phases
         /\ \A g \in Handlers \ {h} : handlers'[g] = handlers[g]
  BY IdleType DEF TypeOK, Ends

LEMMA ReserveOne ==
  ASSUME TypeOK, OneTransaction, NEW h \in Handlers, NEW now \in Times, Reserve(h, now)
  PROVE  OneTransaction'
  <1> DEFINE k == handlers[h].key
  <1>1. k \in Keys /\ anchors[k] = None /\ Time(now) \in Times
    BY ServedType, TimeType DEF Reserve, Existing, Phases, Sync
  <1>2. /\ anchors' = [anchors EXCEPT ![k] = NewRow(Time(now))]
        /\ NewRow(Time(now)) # None /\ NewRow(Time(now)).prepared = None
        /\ UNCHANGED <<signed, counted, handed>>
    <2>1. NewRow(Time(now)).prepared = None BY DEF NewRow
    <2>2. NewRow(Time(now)) # None BY <1>1, NewRowType, NoneAssumption
    <2> QED BY <2>1, <2>2 DEF Reserve, history
  <1>3. /\ \A g \in Handlers \ {h} : handlers'[g] = handlers[g]
        /\ handlers'[h].phase \notin Phases \/ (handlers'[h].phase = "preparing" /\ handlers'[h].key = k)
    BY OneMoves, OneEnds DEF Reserve, Phases, Sync, Submitting
  <1>4. \A g \in Handlers : handlers[g].phase \in Submitting => handlers[g].key # k
    BY <1>1 DEF OneTransaction, Holds
  <1>5. RowSound(k) BY <1>1 DEF OneTransaction
  <1>6. \A g \in Handlers : Holds(g)'
    <2> SUFFICES ASSUME NEW g \in Handlers, handlers'[g].phase \in Submitting PROVE Holds(g)'
      BY DEF Holds
    <2>1. CASE g = h BY <1>1, <1>2, <1>3, <1>5, <2>1 DEF Holds, RowSound, TypeOK, Phases
    <2>2. CASE g # h
      <3>1. handlers'[g] = handlers[g] /\ Holds(g) BY <1>3, <2>2 DEF OneTransaction
      <3>2. handlers[g].key # k /\ handlers[g].key \in Keys
        BY <1>4, <3>1, ServedType DEF Phases
      <3>3. anchors'[handlers[g].key] = anchors[handlers[g].key] BY <1>2, <3>2 DEF TypeOK
      <3> QED BY <1>2, <3>1, <3>3 DEF Holds, Signed
    <2> QED BY <2>1, <2>2
  <1>7. OnePreparation'
    BY <1>3, <1>4 DEF OneTransaction, OnePreparation, Phases, Submitting
  <1>8. \A j \in Keys : RowSound(j)'
    <2> SUFFICES ASSUME NEW j \in Keys PROVE RowSound(j)'
      OBVIOUS
    <2>1. CASE j = k BY <1>1, <1>2, <1>5, <2>1 DEF RowSound, TypeOK
    <2>2. CASE j # k
      <3>1. anchors'[j] = anchors[j] /\ RowSound(j) BY <1>2, <2>2 DEF TypeOK, OneTransaction
      <3> QED BY <1>2, <3>1 DEF RowSound, Signed
    <2> QED BY <2>1, <2>2
  <1> QED BY <1>6, <1>7, <1>8 DEF OneTransaction

\* A request goes on with the saved transaction; rows keep what was saved.
SameRow(k) ==
  /\ anchors'[k] = None <=> anchors[k] = None
  /\ anchors[k] # None => /\ anchors'[k].prepared = anchors[k].prepared
                          /\ anchors'[k].created = anchors[k].created

LEMMA OnwardOne ==
  ASSUME TypeOK, OneTransaction, NEW h \in Handlers, signed' = signed,
         \A k \in Keys : SameRow(k),
         \A k \in Keys : anchors[k] = None => handed'[k] = handed[k] /\ counted'[k] = counted[k],
         \A k \in Keys : anchors[k] # None => \A i \in DOMAIN handed'[k] : handed'[k][i] = anchors[k].prepared,
         \A g \in Handlers \ {h} : handlers'[g] = handlers[g],
         \/ handlers'[h].phase \notin Submitting
         \/ /\ handlers'[h].phase \in {"prepared", "counted", "broadcasting"}
            /\ handlers'[h].key \in Keys /\ anchors[handlers'[h].key] # None
            /\ handlers'[h].tx = anchors[handlers'[h].key].prepared
            /\ handlers'[h].tx # None
  PROVE  OneTransaction'
  <1>1. \A g \in Handlers : Holds(g)'
    <2> SUFFICES ASSUME NEW g \in Handlers, handlers'[g].phase \in Submitting PROVE Holds(g)'
      BY DEF Holds
    <2>1. CASE g = h
      <3> DEFINE k == handlers'[h].key
      <3>1. k \in Keys /\ anchors[k] # None /\ SameRow(k) /\ RowSound(k) /\ handlers'[h].tx = anchors[k].prepared
        BY <2>1 DEF OneTransaction
      <3>2. Signed(k, handlers'[h].tx) BY <2>1, <3>1 DEF RowSound
      <3>3. handlers'[h].phase \notin {"preparing", "signed"} BY <2>1
      <3> QED BY <2>1, <3>1, <3>2, <3>3 DEF Holds, Signed, SameRow
    <2>2. CASE g # h
      <3>1. handlers'[g] = handlers[g] /\ Holds(g) /\ handlers[g].key \in Keys
        BY <2>2, ServedType DEF OneTransaction, Phases
      <3>2. SameRow(handlers[g].key) BY <3>1
      <3> QED BY <3>1, <3>2 DEF Holds, Signed, SameRow
    <2> QED BY <2>1, <2>2
  <1>2. OnePreparation' BY DEF OneTransaction, OnePreparation, Submitting
  <1>3. \A k \in Keys : RowSound(k)'
    <2> SUFFICES ASSUME NEW k \in Keys PROVE RowSound(k)'
      OBVIOUS
    <2>1. RowSound(k) /\ SameRow(k) BY DEF OneTransaction
    <2>2. CASE anchors[k] = None BY <2>1, <2>2 DEF RowSound, SameRow, Signed
    <2>3. CASE anchors[k] # None BY <2>1, <2>3 DEF RowSound, SameRow, Signed
    <2> QED BY <2>2, <2>3
  <1> QED BY <1>1, <1>2, <1>3 DEF OneTransaction

LEMMA ReplayOne ==
  ASSUME TypeOK, OneTransaction, NEW h \in Handlers, NEW now \in Times, Replay(h, now)
  PROVE  OneTransaction'
  <1> DEFINE k == handlers[h].key
  <1>1. k \in Keys /\ anchors[k] # None BY ServedType DEF Replay, Existing, Phases, Sync
  <1>2. RowSound(k) BY <1>1 DEF OneTransaction
  <1>3. /\ \A g \in Handlers \ {h} : handlers'[g] = handlers[g]
        /\ \/ handlers'[h].phase \notin Submitting
           \/ /\ handlers'[h].phase = "prepared" /\ handlers'[h].key = k
              /\ handlers'[h].tx = anchors[k].prepared /\ handlers'[h].tx # None
    <2>1. CASE Ends(h) BY <2>1, OneEnds DEF Phases
    <2>2. CASE ~Ends(h)
      <3>1. anchors[k].prepared # None /\ Moves(h, "prepared", anchors[k].prepared) BY <2>2 DEF Replay
      <3>2. anchors[k].prepared \in Transactions \cup {None} BY <1>1, RowType DEF Row
      <3> QED BY <3>1, <3>2, OneMoves DEF Replay, Phases, Sync
    <2> QED BY <2>1, <2>2
  <1>4. UNCHANGED <<anchors, signed, counted, handed>> BY DEF Replay, history
  <1>5. \A j \in Keys : SameRow(j) BY <1>4 DEF SameRow
  <1>6. \A j \in Keys : \A i \in DOMAIN handed'[j] : handed'[j][i] = anchors[j].prepared
    BY <1>4 DEF OneTransaction, RowSound
  <1> QED BY <1>1, <1>3, <1>4, <1>5, <1>6, OnwardOne

LEMMA CountOne ==
  ASSUME TypeOK, OneTransaction, NEW h \in Handlers, NEW now \in Times, CountBroadcast(h, now)
  PROVE  OneTransaction'
  <1> DEFINE k == handlers[h].key
             row == [anchors[k] EXCEPT !.broadcasts = @ + 1, !.last = Time(now)]
  <1>1. /\ k \in Keys /\ anchors[k] # None /\ anchors[k] \in Row
        /\ handlers[h].tx = anchors[k].prepared /\ handlers[h].tx # None /\ handlers[h].tx \in Transactions
    <2>1. Holds(h) /\ handlers[h].phase = "prepared" BY DEF OneTransaction, CountBroadcast
    <2>2. anchors[k] # None /\ handlers[h].tx = anchors[k].prepared /\ Signed(k, handlers[h].tx)
      BY <2>1 DEF Holds, Submitting
    <2> QED BY <2>2, SignedType, RowType
  <1>2. ~TooSoon(k, Time(now)) /\ Time(now) \in Times BY TimeType DEF CountBroadcast
  <1>3. row # None /\ row.prepared = anchors[k].prepared /\ row.created = anchors[k].created
    BY <1>1, <1>2, CountedRowType DEF TooSoon
  <1>4. anchors' = [anchors EXCEPT ![k] = row] BY DEF CountBroadcast
  <1>5. \A j \in Keys : SameRow(j) BY <1>1, <1>3, <1>4 DEF SameRow, TypeOK
  <1>6. /\ \A g \in Handlers \ {h} : handlers'[g] = handlers[g]
        /\ handlers'[h].phase = "counted" /\ handlers'[h].key = k /\ handlers'[h].tx = handlers[h].tx
    BY <1>1, OneMoves DEF CountBroadcast, Phases, Sync
  <1>7. signed' = signed /\ handed' = handed BY DEF CountBroadcast
  <1>8. \A j \in Keys : anchors[j] = None => counted'[j] = counted[j]
    BY <1>1 DEF CountBroadcast, TypeOK
  <1>9. \A j \in Keys : \A i \in DOMAIN handed'[j] : handed'[j][i] = anchors[j].prepared
    BY <1>7 DEF OneTransaction, RowSound
  <1> QED BY <1>1, <1>5, <1>6, <1>7, <1>8, <1>9, OnwardOne

LEMMA HandOverOne ==
  ASSUME TypeOK, OneTransaction, NEW h \in Handlers, HandOver(h)
  PROVE  OneTransaction'
  <1> DEFINE k == handlers[h].key
             tx == handlers[h].tx
  <1>1. k \in Keys /\ anchors[k] # None /\ tx = anchors[k].prepared /\ tx # None /\ tx \in Transactions
    <2>1. Holds(h) /\ handlers[h].phase = "counted" BY DEF OneTransaction, HandOver
    <2>2. anchors[k] # None /\ tx = anchors[k].prepared /\ Signed(k, tx)
      BY <2>1 DEF Holds, Submitting
    <2> QED BY <2>2, SignedType
  <1>2. anchors' = anchors /\ counted' = counted /\ signed' = signed BY DEF HandOver, durable
  <1>3. /\ \A g \in Handlers \ {h} : handlers'[g] = handlers[g]
        /\ handlers'[h].phase = "broadcasting" /\ handlers'[h].key = k /\ handlers'[h].tx = tx
    BY <1>1, OneMoves DEF HandOver, Phases, Sync, Submitting
  <1>4. handed' = [handed EXCEPT ![k] = Append(handed[k], tx)] BY DEF HandOver
  <1>5. \A j \in Keys : \A i \in DOMAIN handed[j] : handed[j][i] = anchors[j].prepared
    BY DEF OneTransaction, RowSound
  <1>6. \A i \in DOMAIN handed'[k] : handed'[k][i] = anchors[k].prepared
    <2>1. handed[k] \in Seq(Transactions) /\ handed'[k] = Append(handed[k], tx)
      BY <1>1, <1>4 DEF TypeOK
    <2>2. DOMAIN handed'[k] = 1 .. Len(handed[k]) + 1 /\ DOMAIN handed[k] = 1 .. Len(handed[k])
      BY <1>1, <2>1, AppendProperties, LenProperties
    <2>3. \A i \in 1 .. Len(handed[k]) : handed'[k][i] = handed[k][i] BY <1>1, <2>1, AppendProperties
    <2>4. handed'[k][Len(handed[k]) + 1] = tx BY <1>1, <2>1, AppendProperties
    <2>5. Len(handed[k]) \in Nat BY <2>1, LenProperties
    <2>6. \A i \in 1 .. Len(handed[k]) : handed'[k][i] = anchors[k].prepared BY <1>1, <1>5, <2>2, <2>3
    <2>7. \A i \in DOMAIN handed'[k] : i \in 1 .. Len(handed[k]) \/ i = Len(handed[k]) + 1
      BY <2>2, <2>5
    <2>8. handed'[k][Len(handed[k]) + 1] = anchors[k].prepared BY <1>1, <2>4
    <2> QED BY <2>6, <2>7, <2>8
  <1>7. \A j \in Keys \ {k} : handed'[j] = handed[j] BY <1>4 DEF TypeOK
  <1>8. \A j \in Keys : SameRow(j) BY <1>2 DEF SameRow
  <1> QED BY <1>1, <1>2, <1>3, <1>5, <1>6, <1>7, <1>8, OnwardOne

LEMMA SignOne ==
  ASSUME TypeOK, OneTransaction, NEW h \in Handlers, NEW tx \in Transactions, Sign(h, tx)
  PROVE  OneTransaction'
  <1> DEFINE k == handlers[h].key
             new == [key |-> k, tx |-> tx, at |-> anchors[k].created]
  <1>1. /\ k \in Keys /\ anchors[k] # None /\ anchors[k].prepared = None
        /\ \A x \in signed : x.key # k
    <2>1. Holds(h) /\ handlers[h].phase = "preparing" BY DEF OneTransaction, Sign
    <2> QED BY <2>1, ServedType DEF Holds, Submitting, Phases
  <1>2. /\ \A g \in Handlers \ {h} : handlers'[g] = handlers[g]
        /\ handlers'[h].phase = "signed" /\ handlers'[h].key = k /\ handlers'[h].tx = tx
    BY OneMoves DEF Sign, Phases, Submitting
  <1>3. signed' = signed \cup {new} /\ new.key = k /\ new.tx = tx /\ new.at = anchors[k].created
    BY DEF Sign
  <1>4. UNCHANGED <<anchors, counted, handed>> BY DEF Sign, durable
  <1>5. \A g \in Handlers : Holds(g)'
    <2> SUFFICES ASSUME NEW g \in Handlers, handlers'[g].phase \in Submitting PROVE Holds(g)'
      BY DEF Holds
    <2>1. CASE g = h BY <1>1, <1>2, <1>3, <1>4, <2>1 DEF Holds, Signed
    <2>2. CASE g # h
      <3>1. handlers'[g] = handlers[g] /\ Holds(g) BY <1>2, <2>2 DEF OneTransaction
      <3>2. handlers[g].phase = "preparing" => handlers[g].key # k
        BY <2>2 DEF OneTransaction, OnePreparation, Sign
      <3> QED BY <1>3, <1>4, <3>1, <3>2 DEF Holds, Signed
    <2> QED BY <2>1, <2>2
  <1>6. OnePreparation'
    <2>1. handlers[h].phase = "preparing" BY DEF Sign
    <2> QED BY <1>2, <2>1 DEF OneTransaction, OnePreparation
  <1>7. \A j \in Keys : RowSound(j)'
    <2> SUFFICES ASSUME NEW j \in Keys PROVE RowSound(j)'
      OBVIOUS
    <2>1. RowSound(j) BY DEF OneTransaction
    <2>2. CASE j = k BY <1>1, <1>3, <1>4, <2>1, <2>2 DEF RowSound, Signed
    <2>3. CASE j # k BY <1>3, <1>4, <2>1, <2>3 DEF RowSound, Signed
    <2> QED BY <2>2, <2>3
  <1> QED BY <1>5, <1>6, <1>7 DEF OneTransaction

LEMMA SaveOne ==
  ASSUME TypeOK, OneTransaction, NEW h \in Handlers, Save(h)
  PROVE  OneTransaction'
  <1> DEFINE k == handlers[h].key
             tx == handlers[h].tx
             row == [anchors[k] EXCEPT !.prepared = tx]
  <1>1. /\ k \in Keys /\ anchors[k] # None /\ anchors[k].prepared = None
        /\ Signed(k, tx) /\ tx \in Transactions
    <2>1. Holds(h) /\ handlers[h].phase = "signed" BY DEF OneTransaction, Save
    <2>2. anchors[k] # None /\ anchors[k].prepared = None /\ Signed(k, tx) BY <2>1 DEF Holds, Submitting
    <2> QED BY <2>2, SignedType
  <1>2. row # None /\ row.prepared = tx /\ row.created = anchors[k].created
    <2>1. row \in Row BY <1>1, RowType DEF Row
    <2> QED BY <1>1, <2>1, RowType, NoneAssumption DEF Row
  <1>3. anchors' = [anchors EXCEPT ![k] = row] BY DEF Save
  <1>4. UNCHANGED <<signed, counted, handed>> BY DEF Save, history
  <1>5. /\ \A g \in Handlers \ {h} : handlers'[g] = handlers[g]
        /\ handlers'[h].phase = "prepared" /\ handlers'[h].key = k /\ handlers'[h].tx = tx
    BY <1>1, OneMoves DEF Save, Phases, Submitting
  <1>6. \A g \in Handlers : Holds(g)'
    <2> SUFFICES ASSUME NEW g \in Handlers, handlers'[g].phase \in Submitting PROVE Holds(g)'
      BY DEF Holds
    <2>1. CASE g = h BY <1>1, <1>2, <1>3, <1>4, <1>5, <2>1 DEF Holds, Signed, TypeOK
    <2>2. CASE g # h
      <3>1. handlers'[g] = handlers[g] /\ Holds(g) /\ handlers[g].key \in Keys
        BY <1>5, <2>2, ServedType DEF OneTransaction, Phases
      <3>2. handlers[g].key # k
        <4>1. handlers[g].phase \in {"preparing", "signed"} => handlers[g].key # k
          BY <2>2 DEF OneTransaction, OnePreparation, Save
        <4>2. ASSUME handlers[g].phase \notin {"preparing", "signed"}, handlers[g].key = k PROVE FALSE
          <5>1. Signed(k, handlers[g].tx) /\ anchors[k].prepared = handlers[g].tx
            BY <3>1, <4>2, <2>2 DEF Holds
          <5> QED BY <1>1, <5>1, SignedType
        <4> QED BY <4>1, <4>2
      <3>3. anchors'[handlers[g].key] = anchors[handlers[g].key] BY <1>3, <3>1, <3>2 DEF TypeOK
      <3> QED BY <1>4, <3>1, <3>3 DEF Holds, Signed
    <2> QED BY <2>1, <2>2
  <1>7. OnePreparation' BY <1>5 DEF OneTransaction, OnePreparation
  <1>8. \A j \in Keys : RowSound(j)'
    <2> SUFFICES ASSUME NEW j \in Keys PROVE RowSound(j)'
      OBVIOUS
    <2>1. RowSound(j) BY DEF OneTransaction
    <2>2. CASE j = k
      <3>1. anchors'[k] = row BY <1>1, <1>3 DEF TypeOK
      <3>2. DOMAIN handed[k] = {}
        <4>1. ASSUME NEW i \in DOMAIN handed[k] PROVE FALSE
          <5>1. handed[k][i] = None BY <1>1, <2>1, <2>2, <4>1 DEF RowSound
          <5>2. handed[k] \in Seq(Transactions) BY <1>1 DEF TypeOK
          <5>3. handed[k][i] \in Transactions BY <4>1, <5>2, LenProperties, ElementOfSeq
          <5> QED BY <5>1, <5>3, NoneAssumption
        <4> QED BY <4>1
      <3> QED BY <1>1, <1>2, <1>4, <2>1, <2>2, <3>1, <3>2 DEF RowSound, Signed
    <2>3. CASE j # k
      <3>1. anchors'[j] = anchors[j] BY <1>3, <2>3 DEF TypeOK
      <3> QED BY <1>4, <2>1, <3>1 DEF RowSound, Signed
    <2> QED BY <2>2, <2>3
  <1> QED BY <1>6, <1>7, <1>8 DEF OneTransaction

LEMMA StepTyped == ASSUME TypeOK, OneTransaction, [Next]_vars PROVE TypeOK'
  <1>0. ASSUME NEW h \in Handlers
        PROVE  /\ handlers[h].phase \in Submitting => anchors[handlers[h].key] # None
               /\ handlers[h].phase \in {"signed", "counted"} => handlers[h].tx # None
    <2>1. Holds(h) BY DEF OneTransaction
    <2> QED BY <2>1, SignedType DEF Holds, Submitting
  <1>1. CASE Operator BY <1>1, OperatorTyped
  <1>2. ASSUME NEW h \in Handlers, Arrive(h) PROVE TypeOK' BY <1>2, ArriveTyped
  <1>3. ASSUME NEW h \in Handlers, Serve(h) PROVE TypeOK' BY <1>0, <1>3, ServeTyped
  <1>4. ASSUME NEW h \in Handlers, NEW tx \in Transactions, Sign(h, tx) PROVE TypeOK'
    BY <1>0, <1>4, SignTyped
  <1>5. ASSUME NEW s \in Servers, Crash(s) PROVE TypeOK' BY <1>5, CrashTyped
  <1>6. CASE UNCHANGED vars BY <1>6 DEF vars, durable, memory, history, TypeOK
  <1> QED BY <1>1, <1>2, <1>3, <1>4, <1>5, <1>6 DEF Next

LEMMA StepOne == ASSUME TypeOK, OneTransaction, [Next]_vars PROVE OneTransaction'
  <1>1. CASE Operator BY <1>1, QuietSteps, QuietOne
  <1>2. ASSUME NEW h \in Handlers, Arrive(h) PROVE OneTransaction' BY <1>2, QuietSteps, QuietOne
  <1>3. ASSUME NEW h \in Handlers, Serve(h) PROVE OneTransaction'
    <2>1. ASSUME NEW now \in Times, Reserve(h, now) PROVE OneTransaction' BY <2>1, ReserveOne
    <2>2. ASSUME NEW now \in Times, Replay(h, now) PROVE OneTransaction' BY <2>2, ReplayOne
    <2>3. ASSUME NEW now \in Times, CountBroadcast(h, now) PROVE OneTransaction' BY <2>3, CountOne
    <2>4. ASSUME NEW now \in Times, Refuse(h, now) \/ SkipBroadcast(h, now) PROVE OneTransaction'
      BY <2>4, QuietSteps, QuietOne
    <2>5. CASE TransactionFails(h) \/ PrepareFails(h) \/ Reply(h) BY <2>5, QuietSteps, QuietOne
    <2>6. CASE Save(h) BY <2>6, SaveOne
    <2>7. CASE HandOver(h) BY <2>7, HandOverOne
    <2> QED BY <1>3, <2>1, <2>2, <2>3, <2>4, <2>5, <2>6, <2>7 DEF Serve
  <1>4. ASSUME NEW h \in Handlers, NEW tx \in Transactions, Sign(h, tx) PROVE OneTransaction'
    BY <1>4, SignOne
  <1>5. ASSUME NEW s \in Servers, Crash(s) PROVE OneTransaction' BY <1>5, QuietSteps, QuietOne
  <1>6. CASE UNCHANGED vars
    <2>1. Quiet BY <1>6 DEF vars, durable, memory, history, Quiet
    <2> QED BY <2>1, QuietOne
  <1> QED BY <1>1, <1>2, <1>3, <1>4, <1>5, <1>6 DEF Next

LEMMA TypedAndOne == Spec => [](TypeOK /\ OneTransaction)
  <1>1. Init => TypeOK /\ OneTransaction BY InitTyped, InitOne
  <1>2. TypeOK /\ OneTransaction /\ [Next]_vars => (TypeOK /\ OneTransaction)' BY StepTyped, StepOne
  <1> QED BY <1>1, <1>2, PTL DEF Spec

\* One payload of one account is signed at most once, and only its saved form is ever handed over,
\* whatever crashes, fails or overlaps (anchor).
THEOREM SignedOnce == Spec => []NeverResigned
  <1>1. TypeOK /\ OneTransaction => NeverResigned
    <2> SUFFICES ASSUME TypeOK, OneTransaction PROVE NeverResigned
      OBVIOUS
    <2>1. ASSUME NEW x \in signed, NEW y \in signed, x.key = y.key PROVE x = y
      <3>1. x.key \in Keys BY DEF TypeOK
      <3> QED BY <2>1, <3>1 DEF OneTransaction, RowSound
    <2>2. ASSUME NEW k \in Keys, NEW i \in DOMAIN handed[k]
          PROVE  /\ anchors[k] # None /\ anchors[k].prepared = handed[k][i]
                 /\ \E x \in signed : x.key = k /\ x.tx = handed[k][i]
      <3>1. RowSound(k) BY DEF OneTransaction
      <3>2. handed[k] # <<>> /\ handed[k][i] \in Transactions
        <4>1. handed[k] \in Seq(Transactions) BY DEF TypeOK
        <4> QED BY <2>2, <4>1, LenProperties, ElementOfSeq
      <3> QED BY <2>2, <3>1, <3>2, NoneAssumption DEF RowSound, Signed
    <2> QED BY <2>1, <2>2 DEF NeverResigned
  <1> QED BY <1>1, TypedAndOne, PTL
-----------------------------------------------------------------------------
(***************************************************************************)
(* Broadcasts: the durable count is ahead of what was handed over and of   *)
(* what is about to be.                                                    *)
(***************************************************************************)

Pending(k) == {h \in Handlers : handlers[h].phase = "counted" /\ handlers[h].key = k}
Count(k) == IF anchors[k] = None THEN 0 ELSE anchors[k].broadcasts

CountSound(k) ==
  /\ Len(counted[k]) = Count(k)
  /\ IsFiniteSet(Pending(k))
  /\ Len(handed[k]) + Cardinality(Pending(k)) <= Count(k)
  /\ \A i \in 1 .. Len(counted[k]) : counted[k][i] <= anchors[k].last
  /\ \A i, j \in 1 .. Len(counted[k]) : i < j => counted[k][j] >= counted[k][i] + Spacing

Counting == \A k \in Keys : CountSound(k)

LEMMA InitCounting == Init => Counting
  <1> SUFFICES ASSUME Init, NEW k \in Keys PROVE CountSound(k)
    BY DEF Counting
  <1>1. Pending(k) = {} BY IdleType DEF Init, Pending, Phases, Sync
  <1>2. IsFiniteSet(Pending(k)) /\ Cardinality(Pending(k)) = 0 BY <1>1, FS_EmptySet
  <1>3. counted[k] = <<>> /\ handed[k] = <<>> /\ Count(k) = 0 BY DEF Init, Count
  <1>4. Len(counted[k]) = 0 /\ Len(handed[k]) = 0 BY <1>3, EmptySeq
  <1> QED BY <1>2, <1>3, <1>4 DEF CountSound

LEMMA CountType ==
  ASSUME TypeOK, NEW k \in Keys
  PROVE  /\ Count(k) \in 0 .. MaxBroadcasts
         /\ MaxBroadcasts \in Nat /\ Spacing \in Nat
         /\ Len(counted[k]) \in Nat /\ Len(handed[k]) \in Nat
         /\ DOMAIN counted[k] = 1 .. Len(counted[k])
         /\ \A i \in 1 .. Len(counted[k]) : counted[k][i] \in Nat
  <1>1. MaxBroadcasts \in Nat /\ Spacing \in Nat BY LimitAssumption
  <1>2. Count(k) \in 0 .. MaxBroadcasts BY <1>1, RowType DEF Count, Row
  <1>3. counted[k] \in Seq(Times) /\ handed[k] \in Seq(Transactions) BY DEF TypeOK
  <1>4. Times \subseteq Nat BY CalendarAssumption
  <1> QED BY <1>1, <1>2, <1>3, <1>4, LenProperties, ElementOfSeq

\* A step that counts and hands over nothing keeps the account of every key.
LEMMA CountKept ==
  ASSUME TypeOK, Counting, OneTransaction, UNCHANGED <<counted, handed>>,
         \A h \in Handlers : handlers'[h] = handlers[h] \/ handlers'[h].phase # "counted",
         \A k \in Keys : Count(k)' = Count(k),
         \A k \in Keys : anchors[k] # None => anchors'[k].last = anchors[k].last
  PROVE  Counting'
  <1> SUFFICES ASSUME NEW k \in Keys PROVE CountSound(k)'
    BY DEF Counting
  <1>1. CountSound(k) /\ RowSound(k) BY DEF Counting, OneTransaction
  <1>2. Pending(k)' \subseteq Pending(k) BY DEF Pending
  <1>3. IsFiniteSet(Pending(k)') /\ Cardinality(Pending(k)') <= Cardinality(Pending(k))
    BY <1>1, <1>2, FS_Subset DEF CountSound
  <1>4. Cardinality(Pending(k)) \in Nat /\ Cardinality(Pending(k)') \in Nat
    BY <1>1, <1>3, FS_CardinalityType DEF CountSound
  <1>5. Len(handed'[k]) + Cardinality(Pending(k)') <= Count(k)'
    BY <1>1, <1>3, <1>4, CountType DEF CountSound
  <1>6. \A i \in 1 .. Len(counted[k]) : counted[k][i] <= anchors'[k].last
    <2>1. CASE anchors[k] = None
      <3>1. Len(counted[k]) = 0 BY <1>1, <2>1 DEF CountSound, Count
      <3> QED BY <3>1
    <2>2. CASE anchors[k] # None BY <1>1, <2>2 DEF CountSound
    <2> QED BY <2>1, <2>2
  <1> QED BY <1>1, <1>3, <1>5, <1>6 DEF CountSound

LEMMA QuietCounting == ASSUME TypeOK, Counting, OneTransaction, Quiet PROVE Counting'
  <1>1. \A k \in Keys : Count(k)' = Count(k) BY DEF Quiet, Count
  <1>2. \A h \in Handlers : handlers'[h] = handlers[h] \/ handlers'[h].phase # "counted"
    BY DEF Quiet, Submitting
  <1> QED BY <1>1, <1>2, CountKept DEF Quiet

LEMMA ReserveCounting ==
  ASSUME TypeOK, Counting, OneTransaction, NEW h \in Handlers, NEW now \in Times, Reserve(h, now)
  PROVE  Counting'
  <1> DEFINE k == handlers[h].key
  <1>1. k \in Keys /\ anchors[k] = None /\ Time(now) \in Times
    BY ServedType, TimeType DEF Reserve, Existing, Phases, Sync
  <1>2. anchors' = [anchors EXCEPT ![k] = NewRow(Time(now))] BY DEF Reserve
  <1>3. NewRow(Time(now)).broadcasts = 0 /\ NewRow(Time(now)) # None
    BY <1>1, NewRowType, NoneAssumption DEF NewRow
  <1>4. \A j \in Keys : Count(j)' = Count(j) BY <1>1, <1>2, <1>3 DEF Count, TypeOK
  <1>5. \A j \in Keys : anchors[j] # None => anchors'[j].last = anchors[j].last
    BY <1>1, <1>2 DEF TypeOK
  <1>6. \A g \in Handlers : handlers'[g] = handlers[g] \/ handlers'[g].phase # "counted"
    BY OneMoves, OneEnds DEF Reserve, Phases, Sync, Submitting
  <1> QED BY <1>4, <1>5, <1>6, CountKept DEF Reserve, history

LEMMA OtherCounting ==
  ASSUME TypeOK, Counting, OneTransaction, NEW h \in Handlers,
         \/ \E now \in Times : Replay(h, now)
         \/ Save(h)
         \/ \E tx \in Transactions : Sign(h, tx)
  PROVE  Counting'
  <1>1. UNCHANGED <<counted, handed>> BY DEF Replay, Save, Sign, history
  <1>2. \A g \in Handlers : handlers'[g] = handlers[g] \/ handlers'[g].phase # "counted"
    <2>1. ASSUME NEW now \in Times, Replay(h, now)
          PROVE  \A g \in Handlers : handlers'[g] = handlers[g] \/ handlers'[g].phase # "counted"
      <3>1. CASE Ends(h) BY <3>1, OneEnds DEF Phases, Sync
      <3>2. CASE ~Ends(h)
        <4>1. Moves(h, "prepared", anchors[handlers[h].key].prepared) BY <2>1, <3>2 DEF Replay
        <4>2. handlers[h].phase = "authenticated" /\ anchors[handlers[h].key] # None
          BY <2>1 DEF Replay, Existing
        <4>3. handlers[h].key \in Keys BY <4>2, ServedType DEF Phases, Sync
        <4>4. anchors[handlers[h].key].prepared \in Transactions \cup {None}
          BY <4>2, <4>3, RowType DEF Row
        <4> QED BY <4>1, <4>2, <4>4, OneMoves DEF Phases, Sync
      <3> QED BY <3>1, <3>2
    <2>2. ASSUME Save(h)
          PROVE  \A g \in Handlers : handlers'[g] = handlers[g] \/ handlers'[g].phase # "counted"
      BY <2>2, OneMoves, ServedType DEF Save, Phases, Sync, Submitting
    <2>3. ASSUME NEW tx \in Transactions, Sign(h, tx)
          PROVE  \A g \in Handlers : handlers'[g] = handlers[g] \/ handlers'[g].phase # "counted"
      BY <2>3, OneMoves DEF Sign, Phases, Sync, Submitting
    <2> QED BY <2>1, <2>2, <2>3
  <1>3. \A k \in Keys : Count(k)' = Count(k) /\ (anchors[k] # None => anchors'[k].last = anchors[k].last)
    <2>1. CASE anchors' = anchors BY <2>1 DEF Count
    <2>2. ASSUME Save(h)
          PROVE  \A k \in Keys : Count(k)' = Count(k)
                                 /\ (anchors[k] # None => anchors'[k].last = anchors[k].last)
      <3> DEFINE k == handlers[h].key
                 row == [anchors[k] EXCEPT !.prepared = handlers[h].tx]
      <3>1. Holds(h) /\ handlers[h].phase = "signed" BY <2>2 DEF OneTransaction, Save
      <3>2. k \in Keys /\ anchors[k] # None /\ handlers[h].tx \in Transactions
        BY <3>1, SignedType DEF Holds, Submitting
      <3>3. anchors[k] \in Row /\ row \in Row BY <3>2, RowType DEF Row
      <3>4. row # None /\ row.broadcasts = anchors[k].broadcasts /\ row.last = anchors[k].last
        BY <3>3, NoneAssumption DEF Row
      <3>5. anchors' = [anchors EXCEPT ![k] = row] BY <2>2 DEF Save
      <3> QED BY <3>2, <3>4, <3>5 DEF Count, TypeOK
    <2> QED BY <2>1, <2>2 DEF Replay, Sign, durable
  <1> QED BY <1>1, <1>2, <1>3, CountKept

LEMMA HandOverCounting ==
  ASSUME TypeOK, Counting, NEW h \in Handlers, HandOver(h)
  PROVE  Counting'
  <1> DEFINE k == handlers[h].key
  <1>1. k \in Keys /\ h \in Pending(k) BY ServedType DEF HandOver, Pending, Phases, Sync
  <1>2. anchors' = anchors /\ counted' = counted BY DEF HandOver, durable
  <1>3. \A g \in Handlers \ {h} : handlers'[g] = handlers[g] BY DEF HandOver, Moves, TypeOK
  <1>4. handlers'[h].phase # "counted" BY DEF HandOver, Moves, Request, TypeOK
  <1> SUFFICES ASSUME NEW j \in Keys PROVE CountSound(j)'
    BY DEF Counting
  <1>5. CountSound(j) /\ Count(j)' = Count(j) BY <1>2 DEF Counting, Count
  <1>6. Pending(j)' = Pending(j) \ {h} BY <1>3, <1>4 DEF Pending
  <1>7. IsFiniteSet(Pending(j)') /\ Cardinality(Pending(j)) \in Nat
        /\ Cardinality(Pending(j)') = IF h \in Pending(j) THEN Cardinality(Pending(j)) - 1 ELSE Cardinality(Pending(j))
    BY <1>5, <1>6, FS_RemoveElement, FS_CardinalityType DEF CountSound
  <1>8. h \in Pending(j) <=> j = k BY <1>1 DEF Pending
  <1>9. Len(handed'[j]) = IF j = k THEN Len(handed[j]) + 1 ELSE Len(handed[j])
    BY <1>1 DEF HandOver, TypeOK
  <1>10. Len(handed'[j]) + Cardinality(Pending(j)') <= Count(j)
    BY <1>5, <1>7, <1>8, <1>9, CountType DEF CountSound
  <1> QED BY <1>2, <1>5, <1>7, <1>10 DEF CountSound

LEMMA CountCounting ==
  ASSUME TypeOK, Counting, OneTransaction, NEW h \in Handlers, NEW now \in Times, CountBroadcast(h, now)
  PROVE  Counting'
  <1>0. PICK k \in Keys : k = handlers[h].key
    BY ServedType DEF CountBroadcast, Phases, Sync
  <1> DEFINE t == Time(now)
             row == [anchors[k] EXCEPT !.broadcasts = @ + 1, !.last = t]
  <1>1. /\ handlers[h].phase = "prepared" /\ k \in Keys /\ t \in Times
        /\ anchors[k] # None /\ handlers[h].tx \in Transactions
    <2>1. Holds(h) /\ handlers[h].phase = "prepared" BY DEF OneTransaction, CountBroadcast
    <2> QED BY <1>0, <2>1, SignedType, TimeType DEF Holds, Submitting
  <1>2. ~(anchors[k].broadcasts >= MaxBroadcasts)
        /\ ~(anchors[k].broadcasts > 0 /\ t - anchors[k].last < Spacing)
    BY <1>0 DEF CountBroadcast, TooSoon
  <1>3. row # None /\ row.broadcasts = anchors[k].broadcasts + 1 /\ row.last = t
    BY <1>1, <1>2, CountedRowType
  <1>4. anchors' = [anchors EXCEPT ![k] = row] /\ handed' = handed
        /\ counted' = [counted EXCEPT ![k] = Append(counted[k], t)]
    BY <1>0 DEF CountBroadcast
  <1> HIDE DEF row
  <1>5. (\A g \in Handlers \ {h} : handlers'[g] = handlers[g])
        /\ handlers'[h].phase = "counted" /\ handlers'[h].key = k
    BY <1>0, <1>1, OneMoves DEF CountBroadcast, Phases, Sync
  <1> SUFFICES ASSUME NEW j \in Keys PROVE CountSound(j)'
    BY DEF Counting
  <1>6. CountSound(j) BY DEF Counting
  <1>7. CASE j # k
    <2>1. Pending(j)' = Pending(j) BY <1>1, <1>5, <1>7 DEF Pending
    <2>2. anchors'[j] = anchors[j] /\ counted'[j] = counted[j] /\ Count(j)' = Count(j)
      BY <1>4, <1>7 DEF TypeOK, Count
    <2> QED BY <1>4, <1>6, <2>1, <2>2 DEF CountSound
  <1>8. CASE j = k
    <2>1. Pending(k)' = Pending(k) \cup {h} /\ h \notin Pending(k) BY <1>1, <1>5 DEF Pending
    <2>2. IsFiniteSet(Pending(k)') /\ Cardinality(Pending(k)') = Cardinality(Pending(k)) + 1
          /\ Cardinality(Pending(k)) \in Nat
      <3>1. IsFiniteSet(Pending(k)) BY <1>6, <1>8 DEF CountSound
      <3> DEFINE old == Pending(k)
                 new == Pending(k)'
      <3> HIDE DEF old, new
      <3>2. IsFiniteSet(old) /\ new = old \cup {h} /\ h \notin old BY <2>1, <3>1 DEF old, new
      <3>3. IsFiniteSet(new) /\ Cardinality(new) = Cardinality(old) + 1 /\ Cardinality(old) \in Nat
        BY <3>2, FS_AddElement, FS_CardinalityType
      <3> QED BY <3>3 DEF old, new
    <2>3. anchors'[k] = row /\ counted'[k] = Append(counted[k], t) /\ handed'[k] = handed[k]
      BY <1>1, <1>4 DEF TypeOK
    <2>4. Count(k)' = Count(k) + 1 BY <1>1, <1>3, <2>3 DEF Count
    <2>5. counted[k] \in Seq(Times) BY <1>1 DEF TypeOK
    <2>6. Len(counted'[k]) = Len(counted[k]) + 1 BY <1>1, <2>3, <2>5, AppendProperties
    <2>7. \A i \in 1 .. Len(counted[k]) : counted'[k][i] = counted[k][i]
      BY <1>1, <2>3, <2>5, AppendProperties
    <2>8. counted'[k][Len(counted[k]) + 1] = t BY <1>1, <2>3, <2>5, AppendProperties
    <2>9. t \in Nat /\ anchors[k].last \in Nat /\ anchors[k].broadcasts \in Nat
      <3>1. Times \subseteq Nat BY CalendarAssumption
      <3>2. anchors[k] \in Row BY <1>1, RowType
      <3>3. anchors[k].last \in Times /\ anchors[k].broadcasts \in 0 .. MaxBroadcasts BY <3>2 DEF Row
      <3>4. anchors[k].broadcasts \in Nat BY <3>3, LimitAssumption
      <3> QED BY <1>1, <3>1, <3>3, <3>4
    <2>10. \A i \in 1 .. Len(counted[k]) : counted[k][i] + Spacing <= t
      <3> SUFFICES ASSUME NEW i \in 1 .. Len(counted[k]) PROVE counted[k][i] + Spacing <= t
        OBVIOUS
      <3>1. Len(counted[k]) = anchors[k].broadcasts BY <1>1, <1>6, <1>8 DEF CountSound, Count
      <3>2. anchors[k].broadcasts > 0 BY <2>9, <3>1
      <3>3. anchors[k].last + Spacing <= t BY <1>1, <1>2, <2>9, <3>2, CountType
      <3>4. counted[k][i] <= anchors[k].last BY <1>6, <1>8 DEF CountSound
      <3>5. counted[k][i] \in Nat /\ Spacing \in Nat BY <1>1, CountType
      <3> QED BY <2>9, <3>3, <3>4, <3>5
    <2>11. \A i \in 1 .. Len(counted'[k]) : counted'[k][i] <= t
      <3> SUFFICES ASSUME NEW i \in 1 .. Len(counted[k]) + 1 PROVE counted'[k][i] <= t
        BY <2>6
      <3>1. CASE i \in 1 .. Len(counted[k])
        <4>1. counted[k][i] \in Nat /\ Spacing \in Nat BY <1>1, <3>1, CountType
        <4>2. counted[k][i] + Spacing <= t BY <2>10, <3>1
        <4>3. counted'[k][i] = counted[k][i] BY <2>7, <3>1
        <4> QED BY <2>9, <4>1, <4>2, <4>3
      <3>2. CASE i = Len(counted[k]) + 1 BY <2>8, <2>9, <3>2
      <3> QED BY <1>1, <3>1, <3>2, CountType
    <2>12. \A i, m \in 1 .. Len(counted'[k]) : i < m => counted'[k][m] >= counted'[k][i] + Spacing
      <3> SUFFICES ASSUME NEW i \in 1 .. Len(counted[k]) + 1, NEW m \in 1 .. Len(counted[k]) + 1, i < m
                   PROVE  counted'[k][m] >= counted'[k][i] + Spacing
        BY <2>6
      <3>1. i \in 1 .. Len(counted[k]) /\ Len(counted[k]) \in Nat BY <1>1, CountType
      <3>2. CASE m \in 1 .. Len(counted[k])
        BY <1>6, <1>8, <2>7, <3>1, <3>2 DEF CountSound
      <3>3. CASE m = Len(counted[k]) + 1
        <4>1. counted[k][i] \in Nat /\ Spacing \in Nat BY <1>1, <3>1, CountType
        <4> QED BY <2>7, <2>8, <2>9, <2>10, <3>1, <3>3, <4>1
      <3> QED BY <3>1, <3>2, <3>3
    <2>13. Len(handed[k]) + Cardinality(Pending(k)') <= Count(k)'
      BY <1>1, <1>6, <1>8, <2>2, <2>4, CountType DEF CountSound
    <2>14. Len(counted'[k]) = Count(k)' BY <1>6, <1>8, <2>4, <2>6 DEF CountSound
    <2> QED BY <1>3, <1>8, <2>2, <2>3, <2>11, <2>12, <2>13, <2>14 DEF CountSound
  <1> QED BY <1>7, <1>8

LEMMA StepCounting ==
  ASSUME TypeOK, OneTransaction, Counting, [Next]_vars
  PROVE  Counting'
  <1>1. CASE Operator BY <1>1, QuietSteps, QuietCounting
  <1>2. ASSUME NEW h \in Handlers, Arrive(h) PROVE Counting' BY <1>2, QuietSteps, QuietCounting
  <1>3. ASSUME NEW h \in Handlers, Serve(h) PROVE Counting'
    <2>1. ASSUME NEW now \in Times, Reserve(h, now) PROVE Counting' BY <2>1, ReserveCounting
    <2>2. ASSUME NEW now \in Times, Replay(h, now) PROVE Counting' BY <2>2, OtherCounting
    <2>3. ASSUME NEW now \in Times, CountBroadcast(h, now) PROVE Counting' BY <2>3, CountCounting
    <2>4. ASSUME NEW now \in Times, Refuse(h, now) \/ SkipBroadcast(h, now) PROVE Counting'
      BY <2>4, QuietSteps, QuietCounting
    <2>5. CASE TransactionFails(h) \/ PrepareFails(h) \/ Reply(h) BY <2>5, QuietSteps, QuietCounting
    <2>6. CASE Save(h) BY <2>6, OtherCounting
    <2>7. CASE HandOver(h) BY <2>7, HandOverCounting
    <2> QED BY <1>3, <2>1, <2>2, <2>3, <2>4, <2>5, <2>6, <2>7 DEF Serve
  <1>4. ASSUME NEW h \in Handlers, NEW tx \in Transactions, Sign(h, tx) PROVE Counting'
    BY <1>4, OtherCounting
  <1>5. ASSUME NEW s \in Servers, Crash(s) PROVE Counting' BY <1>5, QuietSteps, QuietCounting
  <1>6. CASE UNCHANGED vars
    <2>1. Quiet BY <1>6 DEF vars, durable, memory, history, Quiet
    <2> QED BY <2>1, QuietCounting
  <1> QED BY <1>1, <1>2, <1>3, <1>4, <1>5, <1>6 DEF Next

\* However servers crash or overlap, what is handed to the helper was counted first, stays within the
\* limit and is spaced on the service's clock (anchor).
THEOREM CountedFirst == Spec => []BroadcastsCounted
  <1>1. Init => Counting BY InitCounting
  <1>2. TypeOK /\ OneTransaction /\ Counting /\ [Next]_vars => Counting' BY StepCounting
  <1>3. Spec => []Counting BY <1>1, <1>2, TypedAndOne, PTL DEF Spec
  <1>4. TypeOK /\ OneTransaction /\ Counting => BroadcastsCounted
    <2> SUFFICES ASSUME TypeOK, OneTransaction, Counting, NEW k \in Keys
                 PROVE  /\ handed[k] # <<>> => /\ Len(handed[k]) <= anchors[k].broadcasts
                                               /\ Len(handed[k]) <= MaxBroadcasts
                        /\ \A i, j \in DOMAIN counted[k] : i < j => counted[k][j] >= counted[k][i] + Spacing
      BY DEF BroadcastsCounted
    <2>1. CountSound(k) /\ RowSound(k) BY DEF Counting, OneTransaction
    <2>2. Cardinality(Pending(k)) \in Nat BY <2>1, FS_CardinalityType DEF CountSound
    <2>3. Len(handed[k]) <= Count(k) /\ Len(handed[k]) <= MaxBroadcasts
      BY <2>1, <2>2, CountType DEF CountSound
    <2>4. handed[k] # <<>> => Count(k) = anchors[k].broadcasts BY <2>1 DEF RowSound, Count
    <2>5. DOMAIN counted[k] = 1 .. Len(counted[k]) BY CountType
    <2> QED BY <2>1, <2>3, <2>4, <2>5 DEF CountSound
  <1> QED BY <1>3, <1>4, TypedAndOne, PTL
-----------------------------------------------------------------------------
(***************************************************************************)
(* A server's private set is what its requests submit.                     *)
(***************************************************************************)

Submits(h) == handlers[h].phase \in Submitting

Has(s, k) == \E h \in Handlers : h[1] = s /\ Submits(h) /\ handlers[h].key = k

Live ==
  /\ \A s \in Servers : \A k \in Keys : k \in running[s] <=> Has(s, k)
  /\ \A g, h \in Handlers :
       g[1] = h[1] /\ Submits(g) /\ Submits(h) /\ handlers[g].key = handlers[h].key => g = h

LEMMA LiveIsLive == ASSUME TypeOK PROVE Live <=> RunningIsLive
  <1>1. \A h \in Handlers : Submits(h) => handlers[h].key \in Keys
    BY ServedType DEF Submits, Phases
  <1>2. \A s \in Servers : running[s] \subseteq Keys BY DEF TypeOK
  <1> QED BY <1>1, <1>2 DEF Live, Has, RunningIsLive, Submits

\* No request begins or ends its submission.
LEMMA LiveStays ==
  ASSUME Live, running' = running,
         \A g \in Handlers : /\ Submits(g)' <=> Submits(g)
                             /\ Submits(g) => handlers'[g].key = handlers[g].key
  PROVE  Live'
  BY DEF Live, Has

\* One begins it.
LEMMA LiveBegins ==
  ASSUME TypeOK, Live, NEW h \in Handlers, NEW k \in Keys, k \notin running[h[1]], ~Submits(h),
         running' = [running EXCEPT ![h[1]] = @ \cup {k}],
         Submits(h)', handlers'[h].key = k,
         \A g \in Handlers \ {h} : handlers'[g] = handlers[g]
  PROVE  Live'
  <1>1. h[1] \in Servers BY DEF Handlers
  <1>2. \A s \in Servers : running'[s] = IF s = h[1] THEN running[s] \cup {k} ELSE running[s]
    BY <1>1 DEF TypeOK
  <1>3. \A g \in Handlers \ {h} : Submits(g)' <=> Submits(g) BY DEF Submits
  <1>4. ASSUME NEW s \in Servers, NEW j \in Keys
        PROVE  j \in running'[s] <=> Has(s, j)'
    <2>1. ASSUME Has(s, j)' PROVE Has(s, j) \/ (s = h[1] /\ j = k) BY <1>3, <2>1 DEF Has
    <2>2. ASSUME Has(s, j) PROVE Has(s, j)' BY <1>3, <2>2 DEF Has
    <2>3. ASSUME s = h[1], j = k PROVE Has(s, j)' BY <2>3 DEF Has
    <2> QED BY <1>1, <1>2, <2>1, <2>2, <2>3 DEF Live
  <1>5. ASSUME NEW f \in Handlers, NEW g \in Handlers, f[1] = g[1], Submits(f)', Submits(g)',
               handlers'[f].key = handlers'[g].key
        PROVE  f = g
    <2>1. \A e \in Handlers \ {h} : e[1] = h[1] /\ Submits(e) => handlers[e].key # k
      BY <1>1 DEF Live, Has
    <2> QED BY <1>3, <1>5, <2>1 DEF Live
  <1> QED BY <1>4, <1>5 DEF Live

\* One ends it.
LEMMA LiveEnds ==
  ASSUME TypeOK, Live, NEW h \in Handlers, Submits(h), Ends(h), Released(h)
  PROVE  Live'
  <1>1. PICK k \in Keys : k = handlers[h].key BY ServedType DEF Submits, Phases
  <1>2. h[1] \in Servers BY DEF Handlers
  <1>3. \A s \in Servers : running'[s] = IF s = h[1] THEN running[s] \ {k} ELSE running[s]
    BY <1>1, <1>2 DEF TypeOK, Released
  <1>4. ~Submits(h)' /\ \A g \in Handlers \ {h} : handlers'[g] = handlers[g] /\ (Submits(g)' <=> Submits(g))
    BY OneEnds DEF Submits, Phases
  <1>5. ASSUME NEW s \in Servers, NEW j \in Keys
        PROVE  j \in running'[s] <=> Has(s, j)'
    <2>1. ASSUME Has(s, j)' PROVE Has(s, j) /\ ~(s = h[1] /\ j = k)
      <3>1. PICK g \in Handlers : g[1] = s /\ Submits(g)' /\ handlers'[g].key = j BY <2>1 DEF Has
      <3>2. g # h /\ Submits(g) /\ handlers[g].key = j BY <1>4, <3>1
      <3> QED BY <1>1, <3>1, <3>2 DEF Has, Live
    <2>2. ASSUME Has(s, j), ~(s = h[1] /\ j = k) PROVE Has(s, j)'
      <3>1. PICK g \in Handlers : g[1] = s /\ Submits(g) /\ handlers[g].key = j BY <2>2 DEF Has
      <3>2. g # h BY <1>1, <2>2, <3>1
      <3> QED BY <1>4, <3>1, <3>2 DEF Has
    <2> QED BY <1>2, <1>3, <2>1, <2>2 DEF Live
  <1>6. ASSUME NEW f \in Handlers, NEW g \in Handlers, f[1] = g[1], Submits(f)', Submits(g)',
               handlers'[f].key = handlers'[g].key
        PROVE  f = g
    BY <1>4, <1>6 DEF Live
  <1> QED BY <1>5, <1>6 DEF Live

\* A request in its synchronous stretch or on its way goes on.
LEMMA LiveMoves ==
  ASSUME TypeOK, Live, NEW h \in Handlers, Submits(h), running' = running,
         NEW phase \in Submitting, NEW tx \in Transactions \cup {None}, Moves(h, phase, tx)
  PROVE  Live'
  <1>1. /\ Submits(h)' /\ handlers'[h].key = handlers[h].key
        /\ \A g \in Handlers \ {h} : handlers'[g] = handlers[g]
    BY OneMoves DEF Submits, Phases
  <1> QED BY <1>1, LiveStays DEF Submits

LEMMA ArriveLive == ASSUME TypeOK, Live, NEW h \in Handlers, Arrive(h) PROVE Live'
  <1>1. running' = running BY DEF Arrive, Reject, Status, Authenticate, memory
  <1>2. Quiet BY QuietSteps
  <1>3. \A g \in Handlers : handlers'[g] = handlers[g] \/ (g = h /\ handlers[g] = Idle)
    BY DEF Arrive, Reject, Status, Authenticate, memory, TypeOK
  <1>4. ASSUME NEW g \in Handlers
        PROVE  /\ Submits(g)' <=> Submits(g)
               /\ Submits(g) => handlers'[g].key = handlers[g].key
    BY <1>2, <1>3, IdleType DEF Quiet, Submits, Phases
  <1> QED BY <1>1, <1>4, LiveStays

LEMMA BeginsOrEnds ==
  ASSUME TypeOK, Live, NEW h \in Handlers, handlers[h].phase = "authenticated",
         NEW phase \in {"preparing", "prepared"}, NEW tx \in Transactions \cup {None},
         \/ Ends(h) /\ running' = running
         \/ /\ handlers[h].key \notin running[h[1]]
            /\ Moves(h, phase, tx)
            /\ running' = [running EXCEPT ![h[1]] = @ \cup {handlers[h].key}]
  PROVE  Live'
  <1>1. ~Submits(h) /\ handlers[h].key \in Keys
    BY ServedType DEF Submits, Submitting, Phases, Sync
  <1>2. CASE Ends(h) /\ running' = running
    <2>1. \A g \in Handlers : /\ Submits(g)' <=> Submits(g)
                              /\ Submits(g) => handlers'[g].key = handlers[g].key
      BY <1>1, <1>2, OneEnds DEF Submits, Phases
    <2> QED BY <1>2, <2>1, LiveStays
  <1>3. CASE /\ handlers[h].key \notin running[h[1]]
             /\ Moves(h, phase, tx)
             /\ running' = [running EXCEPT ![h[1]] = @ \cup {handlers[h].key}]
    <2>1. PICK k \in Keys : k = handlers[h].key BY <1>1
    <2>2. /\ handlers'[h].phase = phase /\ handlers'[h].key = k
          /\ \A g \in Handlers \ {h} : handlers'[g] = handlers[g]
      BY <1>3, <2>1, OneMoves DEF Phases, Sync, Submitting
    <2>3. Submits(h)' BY <2>2 DEF Submits, Submitting
    <2> QED BY <1>1, <1>3, <2>1, <2>2, <2>3, LiveBegins
  <1> QED BY <1>2, <1>3

LEMMA ServeLive == ASSUME TypeOK, OneTransaction, Live, NEW h \in Handlers, Serve(h) PROVE Live'
  <1>1. ASSUME NEW now \in Times, Reserve(h, now) PROVE Live'
    BY <1>1, BeginsOrEnds DEF Reserve
  <1>2. ASSUME NEW now \in Times, Replay(h, now) PROVE Live'
    <2>1. handlers[h].key \in Keys /\ anchors[handlers[h].key] # None
      BY <1>2, ServedType DEF Replay, Existing, Phases, Sync
    <2>2. anchors[handlers[h].key].prepared \in Transactions \cup {None} BY <2>1, RowType DEF Row
    <2> QED BY <1>2, <2>2, BeginsOrEnds DEF Replay
  <1>3. ASSUME NEW now \in Times, Refuse(h, now) PROVE Live'
    BY <1>3, BeginsOrEnds DEF Refuse
  <1>4. ASSUME NEW now \in Times, CountBroadcast(h, now) PROVE Live'
    BY <1>4, LiveMoves, ServedType DEF CountBroadcast, Submits, Submitting, Phases, Sync
  <1>5. ASSUME NEW now \in Times, SkipBroadcast(h, now) PROVE Live'
    BY <1>5, LiveEnds DEF SkipBroadcast, Submits, Submitting
  <1>6. CASE TransactionFails(h)
    <2>1. CASE handlers[h].phase = "authenticated" /\ running' = running
      BY <1>6, <2>1, BeginsOrEnds DEF TransactionFails
    <2>2. CASE handlers[h].phase = "prepared" /\ Released(h)
      BY <1>6, <2>2, LiveEnds DEF TransactionFails, Submits, Submitting
    <2> QED BY <1>6, <2>1, <2>2 DEF TransactionFails
  <1>7. CASE Save(h)
    BY <1>7, LiveMoves, ServedType DEF Save, Submits, Submitting, Phases, Sync
  <1>8. CASE PrepareFails(h) \/ Reply(h)
    BY <1>8, LiveEnds DEF PrepareFails, Reply, Submits, Submitting
  <1>9. CASE HandOver(h)
    BY <1>9, LiveMoves, ServedType DEF HandOver, Submits, Submitting, Phases, Sync
  <1> QED BY <1>1, <1>2, <1>3, <1>4, <1>5, <1>6, <1>7, <1>8, <1>9 DEF Serve

LEMMA CrashLive == ASSUME TypeOK, Live, NEW s \in Servers, Crash(s) PROVE Live'
  <1>1. \A r \in Servers : running'[r] = IF r = s THEN {} ELSE running[r] BY DEF Crash, TypeOK
  <1>2. \A g \in Handlers : handlers'[g] = IF g[1] = s THEN Idle ELSE handlers[g] BY DEF Crash
  <1>3. \A g \in Handlers : Submits(g)' <=> Submits(g) /\ g[1] # s
    BY <1>2, IdleType DEF Submits, Phases
  <1> QED BY <1>1, <1>2, <1>3 DEF Live, Has

LEMMA StepLive == ASSUME TypeOK, OneTransaction, Live, [Next]_vars PROVE Live'
  <1>1. CASE Operator \/ UNCHANGED vars
    <2>1. UNCHANGED <<handlers, running>>
      BY <1>1 DEF Operator, Provision, SetSubscription, RotateAccessCode, vars, memory
    <2> QED BY <2>1, LiveStays DEF Submits
  <1>2. ASSUME NEW h \in Handlers, NEW tx \in Transactions, Sign(h, tx) PROVE Live'
    BY <1>2, LiveMoves DEF Sign, Submits, Submitting
  <1> QED BY <1>1, <1>2, ArriveLive, ServeLive, CrashLive DEF Next

LEMMA AlwaysLive == Spec => []Live
  <1>1. Init => Live BY IdleType DEF Init, Live, Has, Submits, Phases
  <1> QED BY <1>1, StepLive, TypedAndOne, PTL DEF Spec
-----------------------------------------------------------------------------
(***************************************************************************)
(* Rows: what a step may do to them, and to the service's time.            *)
(***************************************************************************)

\* A row stays, and keeps what it charged; what it saved and counted only grows.
Grows(k) == anchors[k] # None =>
  /\ anchors'[k] # None
  /\ anchors'[k].created = anchors[k].created
  /\ anchors[k].prepared # None => anchors'[k].prepared = anchors[k].prepared
  /\ anchors'[k].broadcasts >= anchors[k].broadcasts

Charges(h) == \E now \in Times : Reserve(h, now)

LEMMA RowsKept ==
  ASSUME TypeOK, OneTransaction, [Next]_vars, \A h \in Handlers : ~Charges(h)
  PROVE  \A k \in Keys : Grows(k) /\ (anchors[k] = None => anchors'[k] = None)
  <1>1. CASE anchors' = anchors
    <2>1. \A k \in Keys : anchors[k] # None => anchors[k].broadcasts \in Int
      BY RowType, LimitAssumption DEF Row
    <2> QED BY <1>1, <2>1 DEF Grows
  <1>2. ASSUME NEW h \in Handlers, Save(h)
        PROVE  \A k \in Keys : Grows(k) /\ (anchors[k] = None => anchors'[k] = None)
    <2>1. Holds(h) /\ handlers[h].phase = "signed" BY <1>2 DEF OneTransaction, Save
    <2>2. PICK k \in Keys : k = handlers[h].key BY <2>1, ServedType DEF Phases, Submitting
    <2>3. /\ anchors[k] # None /\ anchors[k].prepared = None /\ handlers[h].tx \in Transactions
      BY <2>1, <2>2, SignedType DEF Holds, Submitting
    <2> DEFINE row == [anchors[k] EXCEPT !.prepared = handlers[h].tx]
    <2>4. anchors[k] \in Row /\ row \in Row BY <2>3, RowType DEF Row
    <2>5. row # None /\ row.created = anchors[k].created /\ row.broadcasts = anchors[k].broadcasts
          /\ anchors[k].broadcasts \in Int
      BY <2>4, NoneAssumption, LimitAssumption DEF Row
    <2>6. anchors' = [anchors EXCEPT ![k] = row] BY <1>2, <2>2 DEF Save
    <2>7. \A j \in Keys : anchors[j] # None => anchors[j].broadcasts \in Int
      BY RowType, LimitAssumption DEF Row
    <2> HIDE DEF row
    <2> QED BY <2>3, <2>5, <2>6, <2>7 DEF Grows, TypeOK
  <1>3. ASSUME NEW h \in Handlers, NEW now \in Times, CountBroadcast(h, now)
        PROVE  \A k \in Keys : Grows(k) /\ (anchors[k] = None => anchors'[k] = None)
    <2>1. Holds(h) /\ handlers[h].phase = "prepared" BY <1>3 DEF OneTransaction, CountBroadcast
    <2>2. PICK k \in Keys : k = handlers[h].key BY <2>1, ServedType DEF Phases, Submitting
    <2>3. anchors[k] # None BY <2>1, <2>2 DEF Holds, Submitting
    <2> DEFINE row == [anchors[k] EXCEPT !.broadcasts = @ + 1, !.last = Time(now)]
    <2>4. row # None /\ row.created = anchors[k].created /\ row.prepared = anchors[k].prepared
          /\ row.broadcasts = anchors[k].broadcasts + 1
      <3>1. ~TooSoon(k, Time(now)) /\ Time(now) \in Times BY <1>3, <2>2, TimeType DEF CountBroadcast
      <3>2. ~(anchors[k].broadcasts >= MaxBroadcasts) BY <3>1 DEF TooSoon
      <3> QED BY <2>3, <3>1, <3>2, CountedRowType
    <2>5. anchors' = [anchors EXCEPT ![k] = row] BY <1>3, <2>2 DEF CountBroadcast
    <2>6. \A j \in Keys : anchors[j] # None => anchors[j].broadcasts \in Int
      BY RowType, LimitAssumption DEF Row
    <2>7. row.broadcasts >= anchors[k].broadcasts BY <2>3, <2>4, <2>6
    <2> HIDE DEF row
    <2> QED BY <2>3, <2>4, <2>5, <2>6, <2>7 DEF Grows, TypeOK
  <1>4. ASSUME NEW h \in Handlers, Serve(h)
        PROVE  \/ anchors' = anchors
               \/ Save(h) \/ \E now \in Times : CountBroadcast(h, now)
    BY <1>4 DEF Serve, Charges, Refuse, Replay, SkipBroadcast, TransactionFails, PrepareFails,
               HandOver, Reply, durable
  <1>5. ASSUME NEW h \in Handlers, Arrive(h) PROVE anchors' = anchors
    BY <1>5, QuietSteps DEF Quiet
  <1>6. ASSUME NEW h \in Handlers, NEW tx \in Transactions, Sign(h, tx) PROVE anchors' = anchors
    BY <1>6 DEF Sign, durable
  <1>7. ASSUME NEW s \in Servers, Crash(s) PROVE anchors' = anchors BY <1>7 DEF Crash, durable
  <1>8. CASE Operator \/ UNCHANGED vars BY <1>1, <1>8, QuietSteps DEF Quiet, vars, durable
  <1> QED BY <1>1, <1>2, <1>3, <1>4, <1>5, <1>6, <1>7, <1>8 DEF Next

\* What the one step that charges does.
LEMMA ReserveRows ==
  ASSUME TypeOK, NEW h \in Handlers, NEW now \in Times, Reserve(h, now)
  PROVE  \E k \in Keys, t \in Times :
           /\ k = handlers[h].key /\ t = Time(now) /\ t >= meter.time
           /\ anchors[k] = None /\ Paid(k[1], t) /\ Allowed(k[1], t) /\ k[1] \in Accounts
           /\ anchors' = [anchors EXCEPT ![k] = NewRow(t)] /\ NewRow(t) # None /\ NewRow(t).created = t
           /\ UNCHANGED <<accounts, signed, admitted, served>> /\ meter' = [meter EXCEPT !.time = t]
  <1>1. handlers[h].key \in Keys /\ handlers[h].key[1] \in Accounts /\ Time(now) \in Times
        /\ Time(now) >= meter.time
    BY ServedType, TimeType DEF Reserve, Phases, Sync
  <1>2. NewRow(Time(now)) # None /\ NewRow(Time(now)).created = Time(now)
    BY <1>1, NewRowType, NoneAssumption DEF NewRow
  <1> QED BY <1>1, <1>2 DEF Reserve, Existing, history

\* The service's time never goes back.
LEMMA TimeGrows == ASSUME TypeOK, [Next]_vars PROVE meter'.time >= meter.time
  <1>1. meter.time \in Nat /\ meter \in Meter
    <2>1. Times \subseteq Nat BY CalendarAssumption
    <2>2. meter \in Meter /\ meter.time \in Times BY DEF TypeOK, Meter
    <2> QED BY <2>1, <2>2
  <1>2. \A now \in Times : Time(now) >= meter.time BY TimeType
  <1>3. CASE meter' = meter BY <1>1, <1>3
  <1>4. ASSUME NEW now \in Times, meter' = [meter EXCEPT !.time = Time(now)] \/ Metered(Time(now))
        PROVE  meter'.time >= meter.time
    <2>1. meter'.time = Time(now) BY <1>1, <1>4 DEF Metered, Meter
    <2> QED BY <1>2, <2>1
  <1>5. CASE Operator BY <1>3, <1>5 DEF Operator, Provision, SetSubscription, RotateAccessCode
  <1>6. ASSUME NEW h \in Handlers, Arrive(h) PROVE meter'.time >= meter.time
    BY <1>4, <1>6 DEF Arrive, Reject, Status, Authenticate, Authenticated
  <1>7. ASSUME NEW h \in Handlers, Serve(h) PROVE meter'.time >= meter.time
    BY <1>3, <1>4, <1>7 DEF Serve, Reserve, Refuse, Replay, CountBroadcast, SkipBroadcast,
         TransactionFails, Save, PrepareFails, HandOver, Reply, durable
  <1>8. ASSUME NEW h \in Handlers, NEW tx \in Transactions, Sign(h, tx) PROVE meter'.time >= meter.time
    BY <1>3, <1>8 DEF Sign, durable
  <1>9. ASSUME NEW s \in Servers, Crash(s) PROVE meter'.time >= meter.time
    BY <1>3, <1>9 DEF Crash, durable
  <1>10. CASE UNCHANGED vars BY <1>3, <1>10 DEF vars, durable
  <1> QED BY <1>5, <1>6, <1>7, <1>8, <1>9, <1>10 DEF Next

\* Nothing is refunded, redated, replaced or taken back, and a reservation belongs to a subscription
\* that outlives every instant the service has seen, whatever its clock does (#time and anchor).
THEOREM LedgerOnlyGrows == Spec => LedgerGrows
  <1> DEFINE Step == /\ meter'.time >= meter.time
                     /\ \A k \in Keys : anchors[k] # None =>
                          /\ anchors'[k] # None
                          /\ anchors'[k].created = anchors[k].created
                          /\ anchors[k].prepared # None => anchors'[k].prepared = anchors[k].prepared
                          /\ anchors'[k].broadcasts >= anchors[k].broadcasts
                     /\ \A k \in Keys : anchors[k] = None /\ anchors'[k] # None =>
                          accounts'[k[1]].paid > anchors'[k].created /\ anchors'[k].created >= meter.time
  <1>1. ASSUME TypeOK, OneTransaction, [Next]_vars PROVE Step
    <2>1. meter'.time >= meter.time BY <1>1, TimeGrows
    <2>2. CASE \A h \in Handlers : ~Charges(h)
      BY <1>1, <2>1, <2>2, RowsKept DEF Grows
    <2>3. ASSUME NEW h \in Handlers, NEW now \in Times, Reserve(h, now) PROVE Step
      <3>1. PICK k \in Keys, t \in Times :
              /\ t >= meter.time /\ anchors[k] = None /\ Paid(k[1], t) /\ accounts' = accounts
              /\ anchors' = [anchors EXCEPT ![k] = NewRow(t)] /\ NewRow(t).created = t
        BY <1>1, <2>3, ReserveRows
      <3>2. \A j \in Keys : anchors[j] # None => anchors[j].broadcasts \in Int
        BY <1>1, RowType, LimitAssumption DEF Row
      <3>3. \A j \in Keys \ {k} : anchors'[j] = anchors[j] BY <1>1, <3>1 DEF TypeOK
      <3>4. anchors'[k].created = t /\ accounts'[k[1]].paid > t BY <1>1, <3>1 DEF TypeOK, Paid
      <3> QED BY <2>1, <3>1, <3>2, <3>3, <3>4
    <2> QED BY <2>2, <2>3 DEF Charges
  <1>2. TypeOK /\ OneTransaction /\ [Next]_vars => [Step]_vars BY <1>1
  <1>3. Spec => [][Step]_vars BY <1>2, TypedAndOne, PTL DEF Spec
  <1> QED BY <1>3 DEF LedgerGrows
-----------------------------------------------------------------------------
(***************************************************************************)
(* Quotas on what is reserved, and so on what is signed.                   *)
(***************************************************************************)

Quotas ==
  /\ \A t \in Times, a \in Accounts :
       /\ Cardinality(InMonth(OfAccount(a), t)) <= AccountMonth
       /\ Cardinality(OnDay(OfAccount(a), t)) <= AccountDay
  /\ \A t \in Times : Cardinality(OnDay(Keys, t)) <= GlobalDay
  /\ Cardinality(Charged(Keys)) <= LedgerLimit

LEMMA LimitType ==
  /\ AccountMonth \in Nat /\ AccountDay \in Nat /\ GlobalDay \in Nat /\ LedgerLimit \in Nat
  /\ AccountMinute \in Nat /\ GlobalMinute \in Nat
  BY LimitAssumption

LEMMA KeysFinite == ASSUME NEW S \in SUBSET Keys PROVE IsFiniteSet(S) /\ Cardinality(S) \in Nat
  <1>1. IsFiniteSet(Keys) BY FiniteAssumption, FS_Product DEF Keys
  <1> QED BY <1>1, FS_Subset, FS_CardinalityType

LEMMA ChargedKeys ==
  ASSUME NEW S \in SUBSET Keys, NEW t
  PROVE  Charged(S) \in SUBSET Keys /\ OnDay(S, t) \in SUBSET Keys /\ InMonth(S, t) \in SUBSET Keys
  BY DEF Charged, OnDay, InMonth

\* Room for one more.
LEMMA OneMore ==
  ASSUME NEW S \in SUBSET Keys, NEW T \in SUBSET Keys, NEW k \in Keys, NEW limit \in Nat,
         T \subseteq S \cup {k}, Cardinality(S) < limit
  PROVE  Cardinality(T) <= limit
  <1>1. IsFiniteSet(S) /\ Cardinality(S) \in Nat /\ Cardinality(T) \in Nat BY KeysFinite
  <1>2. IsFiniteSet(S \cup {k}) /\ Cardinality(S \cup {k}) <= Cardinality(S) + 1
        /\ Cardinality(S \cup {k}) \in Nat
    <2>1. IsFiniteSet(S \cup {k}) BY <1>1, FS_AddElement
    <2>2. Cardinality(S \cup {k}) = IF k \in S THEN Cardinality(S) ELSE Cardinality(S) + 1
      BY <1>1, FS_AddElement
    <2> QED BY <1>1, <2>1, <2>2
  <1>3. Cardinality(T) <= Cardinality(S \cup {k}) BY <1>2, FS_Subset
  <1> QED BY <1>1, <1>2, <1>3

LEMMA ReserveQuotas ==
  ASSUME TypeOK, Quotas, NEW h \in Handlers, NEW now \in Times, Reserve(h, now)
  PROVE  Quotas'
  <1>1. PICK k \in Keys, t \in Times :
          /\ anchors[k] = None /\ Allowed(k[1], t) /\ k[1] \in Accounts
          /\ anchors' = [anchors EXCEPT ![k] = NewRow(t)] /\ NewRow(t) # None /\ NewRow(t).created = t
    BY ReserveRows
  <1>2. anchors'[k] = NewRow(t) /\ \A j \in Keys \ {k} : anchors'[j] = anchors[j] BY <1>1 DEF TypeOK
  <1>3. ASSUME NEW S \in SUBSET Keys, NEW u \in Times
        PROVE  /\ Charged(S)' \subseteq Charged(S) \cup {k}
               /\ OnDay(S, u)' \subseteq OnDay(S, u) \cup {k}
               /\ InMonth(S, u)' \subseteq InMonth(S, u) \cup {k}
               /\ (k \notin S \/ Day[u] # Day[t]) => OnDay(S, u)' = OnDay(S, u)
               /\ (k \notin S \/ Month[u] # Month[t]) => InMonth(S, u)' = InMonth(S, u)
               /\ Day[u] = Day[t] => OnDay(S, u) = OnDay(S, t)
               /\ Month[u] = Month[t] => InMonth(S, u) = InMonth(S, t)
    BY <1>1, <1>2 DEF Charged, OnDay, InMonth
  <1>4. ASSUME NEW S \in SUBSET Keys, NEW u \in Times
        PROVE  /\ Charged(S) \in SUBSET Keys /\ Charged(S)' \in SUBSET Keys
               /\ OnDay(S, u) \in SUBSET Keys /\ OnDay(S, u)' \in SUBSET Keys
               /\ InMonth(S, u) \in SUBSET Keys /\ InMonth(S, u)' \in SUBSET Keys
    BY DEF Charged, OnDay, InMonth
  <1>5. \A a \in Accounts : OfAccount(a) \in SUBSET Keys /\ (k \in OfAccount(a) => a = k[1])
    BY DEF OfAccount
  <1>6. ASSUME NEW u \in Times, NEW a \in Accounts
        PROVE  /\ Cardinality(InMonth(OfAccount(a), u)') <= AccountMonth
               /\ Cardinality(OnDay(OfAccount(a), u)') <= AccountDay
    <2> DEFINE S == OfAccount(a)
    <2>1. S \in SUBSET Keys BY <1>5
    <2>2. Cardinality(InMonth(S, u)) <= AccountMonth /\ Cardinality(OnDay(S, u)) <= AccountDay
      BY DEF Quotas
    <2>3. k \in S => a = k[1] BY <1>5
    <2>4. k \in S => Cardinality(InMonth(S, t)) < AccountMonth /\ Cardinality(OnDay(S, t)) < AccountDay
      BY <1>1, <2>3 DEF Allowed
    <2> HIDE DEF S
    <2>5. Cardinality(InMonth(S, u)') <= AccountMonth
      <3>1. CASE k \notin S \/ Month[u] # Month[t] BY <1>3, <2>1, <2>2, <3>1
      <3>2. CASE k \in S /\ Month[u] = Month[t]
        <4>1. Cardinality(InMonth(S, u)) < AccountMonth BY <1>3, <2>1, <2>4, <3>2
        <4>2. InMonth(S, u)' \subseteq InMonth(S, u) \cup {k} BY <1>3, <2>1
        <4> QED BY <1>4, <2>1, <4>1, <4>2, OneMore, LimitType
      <3> QED BY <3>1, <3>2
    <2>6. Cardinality(OnDay(S, u)') <= AccountDay
      <3>1. CASE k \notin S \/ Day[u] # Day[t] BY <1>3, <2>1, <2>2, <3>1
      <3>2. CASE k \in S /\ Day[u] = Day[t]
        <4>1. Cardinality(OnDay(S, u)) < AccountDay BY <1>3, <2>1, <2>4, <3>2
        <4>2. OnDay(S, u)' \subseteq OnDay(S, u) \cup {k} BY <1>3, <2>1
        <4> QED BY <1>4, <2>1, <4>1, <4>2, OneMore, LimitType
      <3> QED BY <3>1, <3>2
    <2> QED BY <2>5, <2>6 DEF S
  <1>7. ASSUME NEW u \in Times PROVE Cardinality(OnDay(Keys, u)') <= GlobalDay
    <2>1. CASE Day[u] # Day[t] BY <1>3, <2>1 DEF Quotas
    <2>2. CASE Day[u] = Day[t]
      <3>1. Cardinality(OnDay(Keys, u)) < GlobalDay BY <1>1, <1>3, <2>2 DEF Allowed
      <3>2. OnDay(Keys, u)' \subseteq OnDay(Keys, u) \cup {k} BY <1>3
      <3> QED BY <1>4, <3>1, <3>2, OneMore, LimitType
    <2> QED BY <2>1, <2>2
  <1>8. Cardinality(Charged(Keys)') <= LedgerLimit
    <2>1. Cardinality(Charged(Keys)) < LedgerLimit BY <1>1 DEF Allowed
    <2>2. Charged(Keys)' \subseteq Charged(Keys) \cup {k} BY <1>3
    <2> QED BY <1>4, <2>1, <2>2, OneMore, LimitType
  <1> QED BY <1>6, <1>7, <1>8 DEF Quotas

LEMMA StepQuotas == ASSUME TypeOK, OneTransaction, Quotas, [Next]_vars PROVE Quotas'
  <1>1. CASE \A h \in Handlers : ~Charges(h)
    <2>1. \A k \in Keys : Grows(k) /\ (anchors[k] = None => anchors'[k] = None) BY <1>1, RowsKept
    <2>2. ASSUME NEW S \in SUBSET Keys, NEW u \in Times
          PROVE  /\ Charged(S)' = Charged(S) /\ OnDay(S, u)' = OnDay(S, u) /\ InMonth(S, u)' = InMonth(S, u)
      BY <2>1 DEF Charged, OnDay, InMonth, Grows
    <2>3. \A a \in Accounts : OfAccount(a) \in SUBSET Keys BY DEF OfAccount
    <2>4. 0 \in Times BY CalendarAssumption
    <2>5. Charged(Keys)' = Charged(Keys) BY <2>2, <2>4
    <2> QED BY <2>2, <2>3, <2>5 DEF Quotas
  <1> QED BY <1>1, ReserveQuotas DEF Charges

LEMMA InitQuotas == Init => Quotas
  <1> SUFFICES ASSUME Init PROVE Quotas
    OBVIOUS
  <1>1. \A S \in SUBSET Keys : Charged(S) = {} BY DEF Init, Charged
  <1>2. \A S \in SUBSET Keys, t \in Times : OnDay(S, t) = {} /\ InMonth(S, t) = {}
    BY <1>1 DEF OnDay, InMonth
  <1>3. \A a \in Accounts : OfAccount(a) \in SUBSET Keys BY DEF OfAccount
  <1>4. Cardinality({}) = 0 BY FS_EmptySet
  <1> QED BY <1>1, <1>2, <1>3, <1>4, LimitType DEF Quotas

\* What is signed was reserved, one transaction per row.
LEMMA SignedWithin ==
  ASSUME TypeOK, OneTransaction, NEW T \in SUBSET signed, NEW C \in SUBSET Keys,
         \A x \in T : x.key \in C
  PROVE  IsFiniteSet(T) /\ Cardinality(T) <= Cardinality(C)
  <1> DEFINE f == [x \in T |-> x.key]
  <1>1. f \in [T -> C] OBVIOUS
  <1>2. ASSUME NEW x \in T, NEW y \in T, f[x] = f[y] PROVE x = y
    <2>1. x \in signed /\ y \in signed /\ x.key = y.key /\ x.key \in Keys BY <1>2 DEF TypeOK
    <2> QED BY <2>1 DEF OneTransaction, RowSound
  <1>3. f \in Injection(T, C) BY <1>1, <1>2 DEF Injection, IsInjective
  <1>4. IsFiniteSet(C) BY KeysFinite
  <1> QED BY <1>3, <1>4, FS_Injection

LEMMA SignedIsReserved ==
  ASSUME TypeOK, OneTransaction, NEW x \in signed
  PROVE  /\ x.key \in Keys /\ anchors[x.key] # None /\ x.at = anchors[x.key].created
         /\ x.key \in Charged(Keys)
  <1>1. x.key \in Keys BY DEF TypeOK
  <1>2. RowSound(x.key) BY <1>1 DEF OneTransaction
  <1> QED BY <1>1, <1>2 DEF RowSound, Charged

LEMMA FeesWithinQuotas == ASSUME TypeOK, OneTransaction, Quotas PROVE FeesBounded
  <1>1. ASSUME NEW t \in Times, NEW a \in Accounts
        PROVE  /\ Cardinality({x \in SignedBy(OfAccount(a)) : Month[x.at] = Month[t]}) <= AccountMonth
               /\ Cardinality({x \in SignedBy(OfAccount(a)) : Day[x.at] = Day[t]}) <= AccountDay
    <2>1. OfAccount(a) \in SUBSET Keys BY DEF OfAccount
    <2> DEFINE M == {x \in SignedBy(OfAccount(a)) : Month[x.at] = Month[t]}
               D == {x \in SignedBy(OfAccount(a)) : Day[x.at] = Day[t]}
               CM == InMonth(OfAccount(a), t)
               CD == OnDay(OfAccount(a), t)
    <2>2. M \in SUBSET signed /\ D \in SUBSET signed BY DEF SignedBy
    <2>3. CM \in SUBSET Keys /\ CD \in SUBSET Keys BY <2>1, ChargedKeys
    <2>4. (\A x \in M : x.key \in CM) /\ (\A x \in D : x.key \in CD)
      BY SignedIsReserved DEF SignedBy, InMonth, OnDay, Charged
    <2>5. Cardinality(CM) <= AccountMonth /\ Cardinality(CD) <= AccountDay BY DEF Quotas
    <2> HIDE DEF M, D, CM, CD
    <2>6. IsFiniteSet(M) /\ Cardinality(M) <= Cardinality(CM) BY <2>2, <2>3, <2>4, SignedWithin
    <2>7. IsFiniteSet(D) /\ Cardinality(D) <= Cardinality(CD) BY <2>2, <2>3, <2>4, SignedWithin
    <2>8. Cardinality(M) \in Nat /\ Cardinality(CM) \in Nat /\ Cardinality(D) \in Nat /\ Cardinality(CD) \in Nat
      BY <2>3, <2>6, <2>7, KeysFinite, FS_CardinalityType
    <2>9. Cardinality(M) <= AccountMonth /\ Cardinality(D) <= AccountDay
      BY <2>5, <2>6, <2>7, <2>8, LimitType
    <2> QED BY <2>9 DEF M, D
  <1>2. ASSUME NEW t \in Times PROVE Cardinality({x \in signed : Day[x.at] = Day[t]}) <= GlobalDay
    <2> DEFINE D == {x \in signed : Day[x.at] = Day[t]}
               CD == OnDay(Keys, t)
    <2>1. D \in SUBSET signed /\ CD \in SUBSET Keys BY ChargedKeys
    <2>2. \A x \in D : x.key \in CD BY SignedIsReserved DEF OnDay, Charged
    <2>3. Cardinality(CD) <= GlobalDay BY DEF Quotas
    <2> HIDE DEF D, CD
    <2>4. IsFiniteSet(D) /\ Cardinality(D) <= Cardinality(CD) BY <2>1, <2>2, SignedWithin
    <2>5. Cardinality(D) \in Nat /\ Cardinality(CD) \in Nat BY <2>1, <2>4, KeysFinite, FS_CardinalityType
    <2>6. Cardinality(D) <= GlobalDay BY <2>3, <2>4, <2>5, LimitType
    <2> QED BY <2>6 DEF D
  <1>3. Cardinality(signed) <= LedgerLimit
    <2> DEFINE C == Charged(Keys)
    <2>1. C \in SUBSET Keys BY DEF Charged
    <2>2. \A x \in signed : x.key \in C BY SignedIsReserved
    <2>3. Cardinality(C) <= LedgerLimit BY DEF Quotas
    <2> HIDE DEF C
    <2>4. IsFiniteSet(signed) /\ Cardinality(signed) <= Cardinality(C) BY <2>1, <2>2, SignedWithin
    <2>5. Cardinality(signed) \in Nat /\ Cardinality(C) \in Nat BY <2>1, <2>4, KeysFinite, FS_CardinalityType
    <2> QED BY <2>3, <2>4, <2>5, LimitType
  <1> QED BY <1>1, <1>2, <1>3 DEF FeesBounded
-----------------------------------------------------------------------------
(***************************************************************************)
(* Requests: the counters never let more in than they say, because the     *)
(* service's minute never goes back.                                       *)
(***************************************************************************)

GlobalRate ==
  /\ meter.minute <= Minute[meter.time]
  /\ \A m \in Minutes : (m > meter.minute => served[m] = 0) /\ served[m] <= GlobalMinute
  /\ served[meter.minute] <= meter.hits
AccountRate(a) ==
  /\ accounts[a] = None => \A m \in Minutes : admitted[a][m] = 0
  /\ accounts[a] # None =>
       /\ accounts[a].minute <= meter.minute
       /\ \A m \in Minutes : m > accounts[a].minute => admitted[a][m] = 0
       /\ admitted[a][accounts[a].minute] <= accounts[a].hits
  /\ \A m \in Minutes : admitted[a][m] <= AccountMinute
Rates == GlobalRate /\ \A a \in Accounts : AccountRate(a)

LEMMA InitRates == Init => Rates
  <1> SUFFICES ASSUME Init PROVE Rates
    OBVIOUS
  <1>1. 0 \in Minutes /\ Minute[0] = 0 /\ Minutes \subseteq Nat BY CalendarAssumption DEF Minutes
  <1>2. AccountMinute \in Nat /\ GlobalMinute \in Nat BY LimitAssumption
  <1> QED BY <1>1, <1>2 DEF Init, Rates, GlobalRate, AccountRate

\* Numbers, said once.
LEMMA MeterNumbers ==
  ASSUME TypeOK
  PROVE  /\ meter.minute \in Minutes /\ meter.hits \in Nat /\ Minute[meter.time] \in Nat
         /\ Minutes \subseteq Nat
         /\ \A m \in Minutes : served[m] \in Nat /\ \A a \in Accounts : admitted[a][m] \in Nat
         /\ GlobalMinute \in Nat \ {0} /\ AccountMinute \in Nat \ {0}
  <1>1. Minutes \subseteq Nat BY CalendarAssumption
  <1>2. meter.time \in Times /\ Minute[meter.time] \in Minutes BY DEF TypeOK, Meter, Minutes
  <1>3. GlobalMinute \in Nat \ {0} /\ AccountMinute \in Nat \ {0} BY LimitAssumption
  <1>4. meter.hits \in Nat /\ meter.minute \in Minutes BY <1>3 DEF TypeOK, Meter
  <1>5. served \in [Minutes -> Nat] /\ admitted \in [Accounts -> [Minutes -> Nat]] BY DEF TypeOK
  <1>6. Minute[meter.time] \in Nat BY <1>1, <1>2
  <1> QED BY <1>1, <1>3, <1>4, <1>5, <1>6

\* Neither the counters nor what they let in change.
LEMMA RatesKept ==
  ASSUME TypeOK, TypeOK', Rates, UNCHANGED <<accounts, admitted, served>>,
         meter'.minute = meter.minute, meter'.hits = meter.hits, meter'.time >= meter.time
  PROVE  Rates'
  <1>1. meter.time \in Times /\ meter'.time \in Times BY DEF TypeOK, Meter
  <1>2. meter.minute \in Nat /\ Minute[meter.time] \in Nat /\ Minute[meter'.time] \in Nat
    <2>1. Minutes \subseteq Nat BY CalendarAssumption
    <2> QED BY <1>1, <2>1 DEF TypeOK, Meter, Minutes
  <1>3. Minute[meter.time] <= Minute[meter'.time]
    BY <1>1, CalendarAssumption
  <1>4. meter'.minute <= Minute[meter'.time] BY <1>2, <1>3 DEF Rates, GlobalRate
  <1> QED BY <1>4 DEF Rates, GlobalRate, AccountRate

\* Counting a request moves the minute forward or leaves it.
LEMMA MeteredAdvances ==
  ASSUME TypeOK, Rates, NEW now \in Times, Metered(Time(now))
  PROVE  LET m == Minute[Time(now)] IN
         /\ m \in Minutes /\ meter.minute <= m
         /\ meter'.minute = m /\ Minute[meter'.time] = m
         /\ meter'.hits = Capped(GlobalHits(Time(now)), GlobalMinute)
  <1>1. Time(now) \in Times /\ Time(now) >= meter.time /\ meter.time \in Times
    BY TimeType DEF TypeOK, Meter
  <1>2. Minute[meter.time] <= Minute[Time(now)] BY <1>1, CalendarAssumption
  <1>3. Minute[Time(now)] \in Minutes BY <1>1 DEF Minutes
  <1> QED BY <1>2, <1>3, MeterNumbers DEF Metered, Rates, GlobalRate

\* The global counter goes up by what it lets in, or starts again at a minute nothing was let in.
LEMMA MeteredRate ==
  ASSUME TypeOK, Rates, NEW now \in Times, Metered(Time(now)),
         \/ served' = served
         \/ /\ GlobalHits(Time(now)) <= GlobalMinute
            /\ served' = [served EXCEPT ![Minute[Time(now)]] = @ + 1]
  PROVE  GlobalRate'
  <1> DEFINE m == Minute[Time(now)]
             hits == GlobalHits(Time(now))
  <1>1. /\ m \in Minutes /\ meter.minute <= m /\ meter'.minute = m /\ Minute[meter'.time] = m
        /\ meter'.hits = Capped(hits, GlobalMinute)
    BY MeteredAdvances
  <1>2. served \in [Minutes -> Nat] BY DEF TypeOK
  <1>3. hits \in Nat \ {0} /\ served[m] <= hits - 1
    BY <1>1, <1>2, MeterNumbers DEF Rates, GlobalRate, GlobalHits
  <1>4. \A n \in Minutes : (n > meter.minute => served[n] = 0) /\ served[n] <= GlobalMinute
    BY DEF Rates, GlobalRate
  <1> HIDE DEF m, hits
  <1>5. /\ hits <= GlobalMinute => meter'.hits = hits
        /\ hits > GlobalMinute => meter'.hits = GlobalMinute + 1
    <2>1. GlobalMinute \in Nat /\ hits \in Nat BY <1>3, MeterNumbers
    <2> QED BY <1>1, <2>1 DEF Capped
  <1>6. CASE served' = served
    BY <1>1, <1>2, <1>3, <1>4, <1>5, <1>6, MeterNumbers DEF GlobalRate
  <1>7. CASE hits <= GlobalMinute /\ served' = [served EXCEPT ![m] = @ + 1]
    <2>1. served'[m] = served[m] + 1 /\ \A n \in Minutes \ {m} : served'[n] = served[n]
      BY <1>1, <1>2, <1>7
    <2> QED BY <1>1, <1>2, <1>3, <1>4, <1>5, <1>7, <2>1, MeterNumbers DEF GlobalRate
  <1> QED BY <1>6, <1>7 DEF m, hits

\* The same for one account's counter.
LEMMA AccountMeteredRate ==
  ASSUME TypeOK, Rates, NEW now \in Times, Metered(Time(now)),
         NEW a \in Accounts, accounts[a] # None, AccountMetered(a, Time(now)),
         \/ admitted' = admitted
         \/ /\ AccountHits(a, Time(now)) <= AccountMinute
            /\ admitted' = [admitted EXCEPT ![a][Minute[Time(now)]] = @ + 1]
  PROVE  AccountRate(a)'
  <1> DEFINE m == Minute[Time(now)]
             hits == AccountHits(a, Time(now))
             row == accounts[a]
  <1>1. m \in Minutes /\ meter.minute <= m /\ meter'.minute = m
    BY MeteredAdvances
  <1>2. /\ row.minute \in Minutes /\ row.hits \in Nat /\ row \in Account
        /\ admitted[a] \in [Minutes -> Nat]
    BY AccountType, MeterNumbers DEF Account, TypeOK
  <1>3. /\ row.minute <= meter.minute /\ admitted[a][row.minute] <= row.hits
        /\ \A n \in Minutes : (n > row.minute => admitted[a][n] = 0) /\ admitted[a][n] <= AccountMinute
    BY DEF Rates, AccountRate
  <1>4. hits \in Nat \ {0} /\ admitted[a][m] <= hits - 1
    BY <1>1, <1>2, <1>3, MeterNumbers DEF AccountHits
  <1>5. /\ hits <= AccountMinute => Capped(hits, AccountMinute) = hits
        /\ hits > AccountMinute => Capped(hits, AccountMinute) = AccountMinute + 1
    BY <1>4, MeterNumbers, HitsType
  <1>6. accounts'[a].minute = m /\ accounts'[a].hits = Capped(hits, AccountMinute) /\ accounts'[a] # None
    <2>1. accounts'[a] = [row EXCEPT !.minute = m, !.hits = Capped(hits, AccountMinute)]
      BY DEF AccountMetered, TypeOK
    <2>2. Capped(hits, AccountMinute) \in 0 .. AccountMinute + 1 BY <1>4, MeterNumbers, HitsType
    <2>3. accounts'[a] \in Account BY <1>1, <1>2, <2>1, <2>2 DEF Account
    <2> QED BY <1>2, <2>1, <2>3, NoneAssumption DEF Account
  <1>7. \/ admitted'[a] = admitted[a]
        \/ /\ hits <= AccountMinute /\ admitted'[a] = [admitted[a] EXCEPT ![m] = @ + 1]
    BY DEF TypeOK
  <1> HIDE DEF m, hits, row
  <1>8. CASE admitted'[a] = admitted[a]
    BY <1>1, <1>2, <1>3, <1>4, <1>5, <1>6, <1>8, MeterNumbers DEF AccountRate
  <1>9. CASE hits <= AccountMinute /\ admitted'[a] = [admitted[a] EXCEPT ![m] = @ + 1]
    <2>1. admitted'[a][m] = admitted[a][m] + 1 /\ \A n \in Minutes \ {m} : admitted'[a][n] = admitted[a][n]
      BY <1>1, <1>2, <1>9
    <2> QED BY <1>1, <1>2, <1>3, <1>4, <1>5, <1>6, <1>9, <2>1, MeterNumbers DEF AccountRate
  <1> QED BY <1>7, <1>8, <1>9

\* An account whose own counter is left alone.
LEMMA AccountKept ==
  ASSUME TypeOK, NEW a \in Accounts, AccountRate(a), meter'.minute \in Nat, meter.minute <= meter'.minute,
         admitted'[a] = admitted[a],
         \/ accounts'[a] = accounts[a]
         \/ /\ accounts[a] # None /\ accounts'[a] # None
            /\ accounts'[a].minute = accounts[a].minute /\ accounts'[a].hits = accounts[a].hits
  PROVE  AccountRate(a)'
  <1>1. accounts[a] # None => accounts[a].minute \in Nat
    BY AccountType, MeterNumbers DEF Account
  <1> QED BY <1>1, MeterNumbers DEF AccountRate

LEMMA OperatorRates == ASSUME TypeOK, Rates, Operator PROVE Rates'
  <1>1. UNCHANGED <<meter, admitted, served>>
    BY DEF Operator, Provision, SetSubscription, RotateAccessCode, history
  <1>2. GlobalRate' BY <1>1 DEF Rates, GlobalRate
  <1>3. meter.minute \in Nat /\ meter.minute <= meter'.minute /\ meter'.minute \in Nat
    BY <1>1, MeterNumbers
  <1>4. accounts \in [Accounts -> Account \cup {None}] BY DEF TypeOK
  <1>5. ASSUME NEW a \in Accounts, NEW token \in Tokens, NEW paid \in Times, Provision(a, token, paid),
               NEW b \in Accounts
        PROVE  AccountRate(b)'
    <2> DEFINE row == [token |-> token, paid |-> paid, minute |-> 0, hits |-> 0]
    <2>1. accounts'[a] = row /\ row.minute = 0 /\ row.hits = 0 /\ \A c \in Accounts \ {a} : accounts'[c] = accounts[c]
      BY <1>4, <1>5 DEF Provision
    <2>2. CASE b # a BY <1>1, <1>3, <2>1, <2>2, AccountKept DEF Rates
    <2>3. CASE b = a
      <3>1. \A m \in Minutes : admitted[b][m] = 0 BY <1>5, <2>3 DEF Provision, Rates, AccountRate
      <3>2. 0 \in Minutes BY CalendarAssumption DEF Minutes
      <3> HIDE DEF row
      <3> QED BY <1>1, <2>1, <2>3, <3>1, <3>2, MeterNumbers DEF AccountRate
    <2> QED BY <2>2, <2>3
  <1>6. ASSUME NEW a \in Accounts, NEW token \in Tokens, NEW paid \in Times,
               SetSubscription(a, paid) \/ RotateAccessCode(a, token), NEW b \in Accounts
        PROVE  AccountRate(b)'
    <2>1. accounts[a] # None BY <1>6 DEF SetSubscription, RotateAccessCode
    <2>2. accounts[a] \in Account BY <2>1, AccountType
    <2>3. \/ accounts' = [accounts EXCEPT ![a].paid = paid]
          \/ accounts' = [accounts EXCEPT ![a].token = token]
      BY <1>6 DEF SetSubscription, RotateAccessCode
    <2>4. /\ accounts'[a].minute = accounts[a].minute /\ accounts'[a].hits = accounts[a].hits
          /\ accounts'[a] \in Account
      BY <1>4, <2>2, <2>3 DEF Account
    <2>5. accounts'[a] # None BY <2>4, NoneAssumption
    <2>6. \A c \in Accounts \ {a} : accounts'[c] = accounts[c] BY <1>4, <2>3
    <2>7. CASE b = a BY <1>1, <1>3, <2>1, <2>4, <2>5, <2>7, AccountKept DEF Rates
    <2>8. CASE b # a BY <1>1, <1>3, <2>6, <2>8, AccountKept DEF Rates
    <2> QED BY <2>7, <2>8
  <1>7. ASSUME NEW b \in Accounts PROVE AccountRate(b)'
    <2>1. CASE \E a \in Accounts, token \in Tokens, paid \in Times : Provision(a, token, paid)
      BY <1>5, <2>1
    <2>2. CASE \E a \in Accounts, paid \in Times : SetSubscription(a, paid)
      <3>1. PICK a \in Accounts, paid \in Times : SetSubscription(a, paid) BY <2>2
      <3>2. accounts[a] # None BY <3>1 DEF SetSubscription
      <3>3. accounts[a].token \in Tokens BY <3>2, AccountType DEF Account
      <3> QED BY <1>6, <3>1, <3>3
    <2>3. CASE \E a \in Accounts, token \in Tokens : RotateAccessCode(a, token)
      <3>1. 0 \in Times BY CalendarAssumption
      <3> QED BY <1>6, <2>3, <3>1
    <2> QED BY <2>1, <2>2, <2>3 DEF Operator
  <1> QED BY <1>2, <1>7 DEF Rates

LEMMA ArriveRates == ASSUME TypeOK, Rates, NEW h \in Handlers, Arrive(h) PROVE Rates'
  <1> PICK token \in Tokens, now \in Times :
        \/ Reject(h, token, now)
        \/ Status(h, token, now)
        \/ \E payload \in Payloads : Authenticate(h, token, payload, now)
    BY DEF Arrive
  <1> DEFINE t == Time(now)
  <1>1. PICK a \in Accounts \cup {None} :
          /\ Metered(t)
          /\ \/ a = None /\ UNCHANGED <<accounts, admitted, served>>
             \/ /\ a \in Accounts /\ accounts[a] # None /\ AccountMetered(a, t)
                /\ UNCHANGED <<admitted, served>>
             \/ /\ a \in Accounts /\ accounts[a] # None /\ AccountMetered(a, t)
                /\ GlobalHits(t) <= GlobalMinute /\ AccountHits(a, t) <= AccountMinute
                /\ admitted' = [admitted EXCEPT ![a][Minute[t]] = @ + 1]
                /\ served' = [served EXCEPT ![Minute[t]] = @ + 1]
    BY DEF Reject, Status, Authenticate, Authenticated, Holder, Opened, history
  <1> HIDE DEF t
  <1>2. Metered(Time(now)) /\ GlobalRate' BY <1>1, MeteredRate DEF t
  <1>3. meter'.minute \in Nat /\ meter.minute <= meter'.minute
    BY <1>2, MeteredAdvances, MeterNumbers
  <1>4. ASSUME NEW b \in Accounts PROVE AccountRate(b)'
    <2>1. CASE b = a /\ accounts[b] # None /\ AccountMetered(b, t)
      BY <1>1, <1>2, <2>1, AccountMeteredRate DEF t
    <2>2. CASE b # a \/ UNCHANGED <<accounts, admitted>>
      <3>1. accounts'[b] = accounts[b] /\ admitted'[b] = admitted[b]
        BY <1>1, <2>2 DEF AccountMetered, TypeOK
      <3> QED BY <1>3, <3>1, AccountKept DEF Rates
    <2> QED BY <1>1, <2>1, <2>2
  <1> QED BY <1>2, <1>4 DEF Rates

LEMMA StepRates == ASSUME TypeOK, TypeOK', Rates, [Next]_vars PROVE Rates'
  <1>1. CASE Operator BY <1>1, OperatorRates
  <1>2. ASSUME NEW h \in Handlers, Arrive(h) PROVE Rates' BY <1>2, ArriveRates
  <1>3. meter \in Meter /\ meter'.time >= meter.time BY TimeGrows DEF TypeOK
  <1>4. ASSUME UNCHANGED <<accounts, admitted, served>>,
               \/ meter' = meter
               \/ \E t \in Times : meter' = [meter EXCEPT !.time = t]
        PROVE  Rates'
    <2>1. meter'.minute = meter.minute /\ meter'.hits = meter.hits BY <1>3, <1>4 DEF Meter
    <2> QED BY <1>3, <1>4, <2>1, RatesKept
  <1>5. ASSUME NEW h \in Handlers, Serve(h) PROVE Rates'
    <2>1. \A now \in Times : Time(now) \in Times BY TimeType
    <2>2. ASSUME NEW now \in Times,
                 \/ Reserve(h, now) \/ Replay(h, now) \/ CountBroadcast(h, now) \/ SkipBroadcast(h, now)
          PROVE  Rates'
      <3>1. UNCHANGED <<accounts, admitted, served>> /\ meter' = [meter EXCEPT !.time = Time(now)]
        BY <2>2 DEF Reserve, Replay, CountBroadcast, SkipBroadcast, history
      <3> QED BY <1>4, <2>1, <3>1
    <2>3. ASSUME NEW now \in Times, Refuse(h, now) PROVE Rates'
      BY <1>4, <2>3 DEF Refuse, durable, history
    <2>4. CASE TransactionFails(h) \/ Save(h) \/ PrepareFails(h) \/ HandOver(h) \/ Reply(h)
      <3>1. UNCHANGED <<meter, accounts, admitted, served>>
        BY <2>4 DEF TransactionFails, Save, PrepareFails, HandOver, Reply, durable, history
      <3> QED BY <1>4, <3>1
    <2> QED BY <1>5, <2>2, <2>3, <2>4 DEF Serve
  <1>6. ASSUME NEW h \in Handlers, NEW tx \in Transactions, Sign(h, tx) PROVE Rates'
    BY <1>4, <1>6 DEF Sign, durable
  <1>7. ASSUME NEW s \in Servers, Crash(s) PROVE Rates' BY <1>4, <1>7 DEF Crash, durable, history
  <1>8. CASE UNCHANGED vars BY <1>4, <1>8 DEF vars, durable, history
  <1> QED BY <1>1, <1>2, <1>5, <1>6, <1>7, <1>8 DEF Next

\* The fees, the request rates and the set of submissions under way stay within what the service
\* promises, for every number of accounts, servers and limits (#authenticate and anchor).
THEOREM QuotasHeld == Spec => []QuotasHold
  <1> DEFINE IInv == TypeOK /\ OneTransaction /\ Quotas /\ Rates
  <1>1. Init => IInv BY InitTyped, InitOne, InitQuotas, InitRates
  <1>2. IInv /\ [Next]_vars => IInv' BY StepTyped, StepOne, StepQuotas, StepRates
  <1>3. IInv /\ Live => QuotasHold
    BY LiveIsLive, FeesWithinQuotas DEF QuotasHold, RateHolds, Rates, GlobalRate, AccountRate
  <1>4. Spec => []IInv BY <1>1, <1>2, PTL DEF Spec
  <1> QED BY <1>3, <1>4, AlwaysLive, PTL
=============================================================================
