----------------------------- MODULE BridgeProofs -----------------------------
(***************************************************************************)
(* Proofs about Bridge for any number of attempts, conversations, starts   *)
(* of the worker and messages in flight: the shapes of its state, that it  *)
(* keeps the contract of AdapterContract, that an enrollment is of the     *)
(* open connection and the running worker, that a text enters the page     *)
(* only where it was enrolled, and that an undisturbed release is observed.*)
(***************************************************************************)
EXTENDS Bridge, TLAPS

(***************************************************************************)
(* What the pieces of an attempt say about each other, wherever they are.  *)
(***************************************************************************)

\* A result says nothing false of what was shown.
Truthful(result, a) == /\ result = "NONE" => a.shown = 0
                       /\ result = "CLICKED" => a.shown = 1

\* An attempt handed over and not yet answered.
Open(a) == a.at # "new" /\ a.verdict = None

Early == {"new", "wire", "worker", "asked", "hashing"}

Sound(a) ==
  /\ a.at \in Early => a.shown = 0
  /\ a.at = "new" => a.verdict = None /\ ~a.pending /\ a.replied = None
  /\ a.at \in {"answered", "returned"} => a.result \in Results /\ Truthful(a.result, a)
  /\ a.pending \/ a.replied # None => a.verdict = None
  /\ a.replied # None => a.at = "gone" /\ Truthful(a.replied, a)
  /\ a.verdict = "FAILED_BEFORE_EGRESS" => a.at = "gone" /\ a.shown = 0

\* The same of a reply on its way to the app, given the attempts.
Backed(m, a) == m.kind = "reply" => a[m.attempt].at = "gone" /\ Truthful(m.result, a[m.attempt])

IInv ==
  /\ TypeOK
  /\ \A t \in Attempts : Sound(att[t])
  /\ \A i \in 1 .. Len(toApp) : Backed(toApp[i], att)
  /\ \A t, u \in Attempts : Open(att[t]) /\ Open(att[u]) => t = u

\* What a step may make of one attempt: nothing the contract sees, or a step of it.
Same(a, b) == b.shown = a.shown /\ b.verdict = a.verdict /\ (b.at = "new" <=> a.at = "new")
HandsOver(a, b) == a.at = "new" /\ b.at # "new" /\ b.shown = 0 /\ b.verdict = None
Refuses(a, b) == /\ a.at = "new" /\ b.at # "new"
                 /\ b.shown = 0 /\ b.verdict = "FAILED_BEFORE_EGRESS"
Shows(a, b) == /\ a.at = "hashing" /\ b.at # "new" /\ b.verdict = a.verdict
               /\ a.shown = 0 /\ b.shown = 1
Settles(a, b) == /\ Open(a) /\ b.at # "new" /\ b.shown = a.shown
                 /\ b.verdict \in Outcomes
                 /\ b.verdict = "FAILED_BEFORE_EGRESS" => b.shown = 0
                 /\ b.verdict = "SUBMISSION_OBSERVED" => b.shown = 1
Steps(a, b) == Same(a, b) \/ HandsOver(a, b) \/ Refuses(a, b) \/ Shows(a, b) \/ Settles(a, b)

\* Out of the page's reach for good.
Keeps(a, b) == a.at = "gone" => b.at = "gone" /\ b.shown = a.shown

-----------------------------------------------------------------------------
(***************************************************************************)
(* The contract's view of a step.                                          *)
(***************************************************************************)

LEMMA SameFate ==
  ASSUME NEW t \in Attempts, Same(att[t], att'[t])
  PROVE  Fate(t)' = Fate(t) /\ att'[t].verdict = att[t].verdict
  BY DEF Same, Fate

LEMMA ContractStep ==
  ASSUME IInv, att' \in [Attempts -> Attempt],
         \A t \in Attempts : Steps(att[t], att'[t]),
         \A t, u \in Attempts : ~Same(att[t], att'[t]) /\ ~Same(att[u], att'[u]) => t = u
  PROVE  [Contract!Next]_(Contract!vars)
  <1> DEFINE f == [t \in Attempts |-> Fate(t)]
             v == [t \in Attempts |-> att[t].verdict]
             g == [t \in Attempts |-> Fate(t)']
             w == [t \in Attempts |-> att'[t].verdict]
  <1>1. CASE \A t \in Attempts : Same(att[t], att'[t])
    <2>1. g = f /\ w = v BY <1>1, SameFate
    <2> QED BY <2>1 DEF Contract!vars
  <1>2. CASE \E t \in Attempts : ~Same(att[t], att'[t])
    <2>1. PICK t \in Attempts : ~Same(att[t], att'[t]) BY <1>2
    <2>2. \A u \in Attempts \ {t} : g[u] = f[u] /\ w[u] = v[u] BY <2>1, SameFate
    <2>3. att[t] \in Attempt /\ att'[t] \in Attempt /\ Sound(att[t]) BY DEF IInv, TypeOK
    <2>4. CASE HandsOver(att[t], att'[t])
      <3>1. f[t] = "new" /\ g[t] = "inflight" /\ w[t] = v[t]
        BY <2>3, <2>4, BridgeAssumption DEF HandsOver, Fate, Sound, Early, Outcomes
      <3>2. g = [f EXCEPT ![t] = "inflight"] /\ w = v BY <2>2, <3>1
      <3>3. Contract!Hand(t) BY <3>1, <3>2 DEF Contract!Hand
      <3> QED BY <3>3 DEF Contract!Next
    <2>5. CASE Refuses(att[t], att'[t])
      <3>1. f[t] = "new" /\ v[t] = None /\ g[t] = "refused" /\ w[t] = "FAILED_BEFORE_EGRESS"
        BY <2>3, <2>5, BridgeAssumption DEF Refuses, Fate, Sound, Early, Outcomes
      <3>2. g = [f EXCEPT ![t] = "refused"] /\ w = [v EXCEPT ![t] = "FAILED_BEFORE_EGRESS"]
        BY <2>2, <3>1
      <3>3. Contract!Refuse(t) BY <3>1, <3>2 DEF Contract!Refuse
      <3> QED BY <3>3 DEF Contract!Next
    <2>6. CASE Shows(att[t], att'[t])
      <3>1. f[t] = "inflight" /\ g[t] = "exposed" /\ w[t] = v[t]
        BY <2>3, <2>6 DEF Shows, Fate, Sound, Early
      <3>2. g = [f EXCEPT ![t] = "exposed"] /\ w = v BY <2>2, <3>1
      <3>3. Contract!Expose(t) BY <3>1, <3>2 DEF Contract!Expose
      <3> QED BY <3>3 DEF Contract!Next
    <2>7. CASE Settles(att[t], att'[t])
      <3>1. v[t] = None /\ f[t] \in {"inflight", "exposed"} /\ (f[t] = "exposed" <=> att[t].shown = 1)
        BY <2>3, <2>7, BridgeAssumption DEF Settles, Open, Fate, Attempt, Outcomes
      <3>2. CASE att'[t].verdict = "FAILED_BEFORE_EGRESS"
        <4>1. f[t] = "inflight" /\ g[t] = "refused" /\ w[t] = "FAILED_BEFORE_EGRESS"
          BY <2>3, <2>7, <3>1, <3>2 DEF Settles, Fate
        <4>2. g = [f EXCEPT ![t] = "refused"] /\ w = [v EXCEPT ![t] = "FAILED_BEFORE_EGRESS"]
          BY <2>2, <4>1
        <4>3. Contract!Refuse(t) BY <3>1, <4>1, <4>2 DEF Contract!Refuse
        <4> QED BY <4>3 DEF Contract!Next
      <3>3. CASE att'[t].verdict # "FAILED_BEFORE_EGRESS"
        <4>1. g[t] = f[t]
          BY <2>3, <2>7, <3>1, <3>3, BridgeAssumption DEF Settles, Open, Fate, Outcomes
        <4>2. g = f /\ w = [v EXCEPT ![t] = att'[t].verdict] BY <2>2, <4>1
        <4>3. att'[t].verdict \in {"OUTCOME_UNKNOWN"}
                 \cup (IF f[t] = "exposed" THEN {"SUBMISSION_OBSERVED"} ELSE {})
          BY <2>3, <2>7, <3>1, <3>3 DEF Settles, Outcomes
        <4>4. Contract!Say(t) BY <3>1, <4>2, <4>3 DEF Contract!Say
        <4> QED BY <4>4 DEF Contract!Next
      <3> QED BY <3>2, <3>3
    <2> QED BY <2>1, <2>4, <2>5, <2>6, <2>7 DEF Steps
  <1> QED BY <1>1, <1>2

LEMMA ContractInit == Init => Contract!Init
  <1> SUFFICES ASSUME Init PROVE Contract!Init OBVIOUS
  <1>1. \A t \in Attempts : Fate(t) = "new" /\ att[t].verdict = None
    BY BridgeAssumption DEF Init, NewAttempt, Fate, Outcomes
  <1> QED BY <1>1 DEF Contract!Init
-----------------------------------------------------------------------------
(***************************************************************************)
(* From what a step does to each attempt to the invariant.                 *)
(***************************************************************************)

Fine(a, b) == b \in Attempt /\ Sound(b) /\ Steps(a, b) /\ Keeps(a, b)
Quiet(a, b) == b \in Attempt /\ Sound(b) /\ Same(a, b) /\ Keeps(a, b)

\* Every message on its way was already, or is backed.
Carried == \A i \in 1 .. Len(toApp') :
             Backed(toApp'[i], att') \/ \E j \in 1 .. Len(toApp) : toApp'[i] = toApp[j]

LEMMA Preserved ==
  ASSUME IInv, TypeOK', Carried,
         \A t \in Attempts : Fine(att[t], att'[t]),
         \A t, u \in Attempts : ~Same(att[t], att'[t]) /\ ~Same(att[u], att'[u]) => t = u,
         \A t, u \in Attempts : HandsOver(att[t], att'[t]) => ~Open(att[u])
  PROVE  IInv' /\ [Contract!Next]_(Contract!vars)
  <1>1. \A t \in Attempts : Sound(att'[t]) BY DEF Fine
  <1>2. ASSUME NEW m \in Message, Backed(m, att) PROVE Backed(m, att')
    <2>1. CASE m.kind = "reply"
      <3>1. m.attempt \in Attempts BY <2>1 DEF Message
      <3>2. Keeps(att[m.attempt], att'[m.attempt]) BY <3>1 DEF Fine
      <3> QED BY <1>2, <2>1, <3>2 DEF Backed, Keeps, Truthful
    <2>2. CASE m.kind # "reply" BY <2>2 DEF Backed
    <2> QED BY <2>1, <2>2
  <1>3. \A i \in 1 .. Len(toApp') : Backed(toApp'[i], att')
    <2>1. \A j \in 1 .. Len(toApp) : toApp[j] \in Message /\ Backed(toApp[j], att)
      BY DEF IInv, TypeOK
    <2>2. \A j \in 1 .. Len(toApp) : Backed(toApp[j], att') BY <1>2, <2>1
    <2> QED BY <2>2 DEF Carried
  <1>4. ASSUME NEW t \in Attempts, Open(att'[t])
        PROVE  HandsOver(att[t], att'[t]) \/ Open(att[t])
    <2>1. Steps(att[t], att'[t]) /\ Sound(att[t]) BY DEF Fine, IInv
    <2> QED
      BY <1>4, <2>1, BridgeAssumption
         DEF Steps, Same, HandsOver, Refuses, Shows, Settles, Open, Outcomes
  <1>5. \A t \in Attempts : HandsOver(att[t], att'[t]) => ~Same(att[t], att'[t])
    BY DEF HandsOver, Same
  <1>6. \A t, u \in Attempts : Open(att'[t]) /\ Open(att'[u]) => t = u
    BY <1>4, <1>5 DEF IInv
  <1>7. IInv' BY <1>1, <1>3, <1>6 DEF IInv
  <1>8. [Contract!Next]_(Contract!vars)
    <2>1. att' \in [Attempts -> Attempt] BY DEF TypeOK
    <2>2. \A t \in Attempts : Steps(att[t], att'[t]) BY DEF Fine
    <2> QED BY <2>1, <2>2, ContractStep
  <1> QED BY <1>7, <1>8

\* A step the contract does not see.
LEMMA Unseen ==
  ASSUME IInv, TypeOK', Carried, \A t \in Attempts : Quiet(att[t], att'[t])
  PROVE  IInv' /\ [Contract!Next]_(Contract!vars)
  <1>1. \A t \in Attempts : Fine(att[t], att'[t]) BY DEF Quiet, Fine, Steps
  <1>2. \A t \in Attempts : Same(att[t], att'[t]) BY DEF Quiet
  <1>3. \A t \in Attempts : ~HandsOver(att[t], att'[t]) BY <1>2 DEF HandsOver, Same
  <1> QED BY <1>1, <1>2, <1>3, Preserved

\* A step that changes one attempt.
LEMMA SeenOnce ==
  ASSUME IInv, TypeOK', Carried, NEW t \in Attempts, Fine(att[t], att'[t]),
         \A u \in Attempts \ {t} : att'[u] = att[u],
         HandsOver(att[t], att'[t]) => \A u \in Attempts : ~Open(att[u])
  PROVE  IInv' /\ [Contract!Next]_(Contract!vars)
  <1>1. ASSUME NEW u \in Attempts \ {t}
        PROVE  Quiet(att[u], att'[u])
    <2>1. att[u] \in Attempt /\ Sound(att[u]) BY DEF IInv, TypeOK
    <2> QED BY <2>1 DEF Quiet, Same, Keeps
  <1>2. \A u \in Attempts : Fine(att[u], att'[u]) BY <1>1 DEF Quiet, Fine, Steps
  <1>3. \A u \in Attempts \ {t} : Same(att[u], att'[u]) BY <1>1 DEF Quiet
  <1>4. \A u \in Attempts \ {t} : ~HandsOver(att[u], att'[u]) BY <1>3 DEF HandsOver, Same
  <1>5. \A u, w \in Attempts : HandsOver(att[u], att'[u]) => ~Open(att[w]) BY <1>4
  <1>6. \A u, w \in Attempts : ~Same(att[u], att'[u]) /\ ~Same(att[w], att'[w]) => u = w BY <1>3
  <1> QED BY <1>2, <1>5, <1>6, Preserved

\* A step after which some answers are out, and one attempt at most was owed one.
LEMMA SeenSettled ==
  ASSUME IInv, TypeOK', Carried,
         \A t \in Attempts : /\ att'[t] \in Attempt /\ Sound(att'[t]) /\ Keeps(att[t], att'[t])
                             /\ Same(att[t], att'[t]) \/ Settles(att[t], att'[t])
  PROVE  IInv' /\ [Contract!Next]_(Contract!vars)
  <1>1. \A t \in Attempts : Fine(att[t], att'[t]) BY DEF Fine, Steps
  <1>2. \A t \in Attempts : ~Same(att[t], att'[t]) => Open(att[t]) BY DEF Settles
  <1>3. \A t \in Attempts : ~HandsOver(att[t], att'[t])
    BY DEF HandsOver, Same, Settles, Open
  <1> QED BY <1>1, <1>2, <1>3, Preserved DEF IInv

LEMMA CarriedUnsent == toApp' = toApp => Carried
  BY DEF Carried

LEMMA CarriedNone == toApp' = <<>> => Carried /\ toApp' \in Seq(Message)
  BY DEF Carried

LEMMA CarriedTail ==
  ASSUME IInv, toApp # <<>>, toApp' = Tail(toApp)
  PROVE  Carried /\ toApp' \in Seq(Message)
  <1>1. toApp \in Seq(Message) BY DEF IInv, TypeOK
  <1>2. Tail(toApp) \in Seq(Message) /\ Len(Tail(toApp)) = Len(toApp) - 1
    BY <1>1
  <1>3. \A i \in 1 .. Len(Tail(toApp)) : Tail(toApp)[i] = toApp[i + 1] /\ i + 1 \in 1 .. Len(toApp)
    BY <1>1, <1>2
  <1> QED BY <1>2, <1>3 DEF Carried

LEMMA CarriedSent ==
  ASSUME IInv, NEW m \in Message, Backed(m, att'), toApp' = IF link = "up" THEN Append(toApp, m) ELSE toApp
  PROVE  Carried /\ toApp' \in Seq(Message)
  <1>1. toApp \in Seq(Message) BY DEF IInv, TypeOK
  <1>2. CASE link = "up"
    <2>1. toApp' = Append(toApp, m) BY <1>2
    <2>2. Len(toApp') = Len(toApp) + 1 /\ toApp'[Len(toApp) + 1] = m
          /\ \A i \in 1 .. Len(toApp) : toApp'[i] = toApp[i]
      BY <1>1, <2>1
    <2>3. toApp' \in Seq(Message) BY <1>1, <2>1
    <2> QED BY <1>1, <2>2, <2>3 DEF Carried
  <1>3. CASE link # "up" BY <1>1, <1>3 DEF Carried
  <1> QED BY <1>2, <1>3

LEMMA IInvInit == Init => IInv
  <1> SUFFICES ASSUME Init PROVE IInv OBVIOUS
  <1>1. NewAttempt \in Attempt /\ Sound(NewAttempt)
    BY BridgeAssumption DEF NewAttempt, Attempt, Places, Results, Sound, Early, Outcomes
  <1>2. TypeOK
    <2>1. page \in Page BY DEF Init, Page
    <2>2. /\ worker \in [session : Sessions, deferred : BOOLEAN, notice : BOOLEAN]
          /\ ad \in [conn : Sessions \cup {None}, view : Page \cup {None},
                    enrolled : Enrollment \cup {None}]
      BY BridgeAssumption DEF Init, Sessions
    <2>3. toApp \in Seq(Message) /\ chosen \in Seq(Destinations) /\ Len(chosen) <= MaxScopes
      BY BridgeAssumption DEF Init
    <2> QED BY <1>1, <2>1, <2>2, <2>3 DEF Init, TypeOK
  <1>3. \A t \in Attempts : att[t] = NewAttempt BY DEF Init
  <1>4. \A t \in Attempts : ~Open(att[t]) BY <1>3 DEF Open, NewAttempt
  <1>5. Len(toApp) = 0 BY DEF Init
  <1> QED BY <1>1, <1>2, <1>3, <1>4, <1>5 DEF IInv

-----------------------------------------------------------------------------
(***************************************************************************)
(* The actions: outside the app, and what the contract does not see.       *)
(***************************************************************************)

\* The pieces that Sound speaks of.
Alike(a, b) == /\ b.at = a.at /\ b.result = a.result /\ b.shown = a.shown /\ b.pending = a.pending
               /\ b.replied = a.replied /\ b.verdict = a.verdict

LEMMA AlikeQuiet ==
  ASSUME NEW a, NEW b \in Attempt, Sound(a), Alike(a, b)
  PROVE  Quiet(a, b)
  BY DEF Alike, Quiet, Same, Keeps, Sound, Truthful

LEMMA Calm ==
  ASSUME NEW a \in Attempt, NEW calm \in BOOLEAN
  PROVE  [a EXCEPT !.calm = calm] \in Attempt /\ Alike(a, [a EXCEPT !.calm = calm])
  BY DEF Attempt, Alike

\* What every action of these leaves alone is left alone.
LEMMA AttemptsKept ==
  ASSUME IInv, att' = att
  PROVE  att' \in [Attempts -> Attempt] /\ \A t \in Attempts : Quiet(att[t], att'[t])
  BY DEF IInv, TypeOK, Quiet, Same, Keeps

LEMMA AttemptsDisturbed ==
  ASSUME IInv, att' = Disturbed(att)
  PROVE  att' \in [Attempts -> Attempt] /\ \A t \in Attempts : Quiet(att[t], att'[t])
  <1>1. ASSUME NEW a \in Attempt, Sound(a)
        PROVE  Quiet(a, [a EXCEPT !.calm = FALSE])
    BY <1>1, Calm, AlikeQuiet
  <1>2. \A t \in Attempts : Quiet(att[t], att'[t]) BY <1>1 DEF IInv, TypeOK, Disturbed
  <1> QED BY <1>2 DEF Disturbed, Quiet

LEMMA PublishType ==
  \A kind \in {"hello", "state"} : Publish(kind) \in Publications
  BY DEF Publish, Publications

LEMMA StraysType == ASSUME NEW next PROVE Strays(next) \in BOOLEAN
  BY DEF Strays

LEMMA SurfaceChangesStep ==
  ASSUME IInv, NEW d \in Destinations, NEW empty \in BOOLEAN, SurfaceChanges(d, empty)
  PROVE  IInv' /\ [Contract!Next]_(Contract!vars)
  <1> DEFINE next == [page EXCEPT !.dest = d, !.empty = empty]
  <1>1. att' \in [Attempts -> Attempt] /\ \A t \in Attempts : Quiet(att[t], att'[t])
    BY AttemptsDisturbed DEF SurfaceChanges
  <1>2. TypeOK'
    <2>1. page' \in Page BY DEF SurfaceChanges, IInv, TypeOK, Page
    <2>2. strayed' \in BOOLEAN BY StraysType DEF SurfaceChanges
    <2>3. publishing' \subseteq Publications BY PublishType DEF SurfaceChanges, IInv, TypeOK
    <2>4. worker' \in [session : Sessions, deferred : BOOLEAN, notice : BOOLEAN]
      BY DEF SurfaceChanges, IInv, TypeOK
    <2> QED BY <1>1, <2>1, <2>2, <2>3, <2>4 DEF SurfaceChanges, IInv, TypeOK
  <1> QED BY <1>1, <1>2, CarriedUnsent, Unseen DEF SurfaceChanges

LEMMA TabsChangeStep ==
  ASSUME IInv, NEW alone \in BOOLEAN, NEW granted \in BOOLEAN, TabsChange(alone, granted)
  PROVE  IInv' /\ [Contract!Next]_(Contract!vars)
  <1>1. att' \in [Attempts -> Attempt] /\ \A t \in Attempts : Quiet(att[t], att'[t])
    BY AttemptsDisturbed DEF TabsChange
  <1>2. TypeOK'
    <2>1. page' \in Page BY DEF TabsChange, IInv, TypeOK, Page
    <2>2. strayed' \in BOOLEAN BY StraysType DEF TabsChange
    <2>3. publishing' \subseteq Publications BY PublishType DEF TabsChange, IInv, TypeOK
    <2> QED BY <1>1, <2>1, <2>2, <2>3 DEF TabsChange, IInv, TypeOK
  <1> QED BY <1>1, <1>2, CarriedUnsent, Unseen DEF TabsChange

LEMMA ReloadStep ==
  ASSUME IInv, NEW d \in Destinations, Reload(d)
  PROVE  IInv' /\ [Contract!Next]_(Contract!vars)
  <1> DEFINE lost(a) == IF a.at \in {"asked", "hashing", "answered"} THEN Answered(a, Unheard) ELSE a
  <1>1. ASSUME NEW a \in Attempt, Sound(a)
        PROVE  Quiet(a, [lost(a) EXCEPT !.calm = FALSE])
    <2>1. CASE a.at \in {"asked", "hashing", "answered"}
      <3>1. lost(a) = [a EXCEPT !.at = "answered", !.result = "UNKNOWN"]
        BY <2>1 DEF Answered, Unheard
      <3> HIDE DEF lost
      <3>2. lost(a) \in Attempt BY <3>1 DEF Attempt, Places, Results
      <3>3. Quiet(a, lost(a))
        BY <1>1, <2>1, <3>1, <3>2 DEF Attempt, Results, Quiet, Same, Keeps, Sound, Truthful, Early
      <3>4. Alike(lost(a), [lost(a) EXCEPT !.calm = FALSE])
            /\ [lost(a) EXCEPT !.calm = FALSE] \in Attempt
        BY <3>2, Calm
      <3>5. Quiet(lost(a), [lost(a) EXCEPT !.calm = FALSE])
        BY <3>3, <3>4, AlikeQuiet DEF Quiet
      <3> QED BY <3>3, <3>5 DEF Quiet, Same, Keeps
    <2>2. CASE a.at \notin {"asked", "hashing", "answered"}
      <3>1. lost(a) = a BY <2>2
      <3> HIDE DEF lost
      <3> QED BY <1>1, <3>1, Calm, AlikeQuiet
    <2> QED BY <2>1, <2>2
  <1>2. att' = [t \in Attempts |-> [lost(att[t]) EXCEPT !.calm = FALSE]]
    BY DEF Reload, Disturbed
  <1> HIDE DEF lost
  <1>3. \A t \in Attempts : Quiet(att[t], att'[t]) BY <1>1, <1>2 DEF IInv, TypeOK
  <1>4. att' \in [Attempts -> Attempt] BY <1>2, <1>3 DEF Quiet
  <1>5. TypeOK'
    <2>1. page' \in Page BY DEF Reload, IInv, TypeOK, Page
    <2>2. strayed' \in BOOLEAN BY StraysType DEF Reload
    <2>3. publishing' \subseteq Publications BY PublishType DEF Reload, IInv, TypeOK
    <2> QED BY <1>4, <2>1, <2>2, <2>3 DEF Reload, IInv, TypeOK
  <1> QED BY <1>3, <1>5, CarriedUnsent, Unseen DEF Reload

LEMMA ConnectStep ==
  ASSUME IInv, Connect
  PROVE  IInv' /\ [Contract!Next]_(Contract!vars)
  <1>1. att' \in [Attempts -> Attempt] /\ \A t \in Attempts : Quiet(att[t], att'[t])
    BY AttemptsKept DEF Connect
  <1>2. TypeOK' BY <1>1, PublishType DEF Connect, IInv, TypeOK
  <1> QED BY <1>1, <1>2, CarriedUnsent, Unseen DEF Connect

LEMMA InspectTabsStep ==
  ASSUME IInv, NEW m \in publishing, InspectTabs(m)
  PROVE  IInv' /\ [Contract!Next]_(Contract!vars)
  <1>1. att' \in [Attempts -> Attempt] /\ \A t \in Attempts : Quiet(att[t], att'[t])
    BY AttemptsKept DEF InspectTabs
  <1>2. m \in Publications /\ page \in Page BY DEF IInv, TypeOK
  <1>3. [m EXCEPT !.seen = page] \in Publications BY <1>2 DEF Publications
  <1>4. TypeOK' BY <1>1, <1>3 DEF InspectTabs, IInv, TypeOK
  <1> QED BY <1>1, <1>4, CarriedUnsent, Unseen DEF InspectTabs

LEMMA PostStateStep ==
  ASSUME IInv, NEW m \in publishing, PostState(m)
  PROVE  IInv' /\ [Contract!Next]_(Contract!vars)
  <1> DEFINE sent == [kind |-> m.kind, seen |-> m.seen, session |-> worker.session]
  <1>1. att' \in [Attempts -> Attempt] /\ \A t \in Attempts : Quiet(att[t], att'[t])
    BY AttemptsKept DEF PostState
  <1>2. m \in Publications /\ worker.session \in Sessions BY DEF IInv, TypeOK
  <1>3. sent \in Message /\ sent.kind # "reply"
    BY <1>2 DEF Publications, Message, PostState
  <1>4. toApp' = IF link = "up" THEN Append(toApp, sent) ELSE toApp BY DEF PostState
  <1> HIDE DEF sent
  <1>5. Backed(sent, att') BY <1>3 DEF Backed
  <1>6. Carried /\ toApp' \in Seq(Message) BY <1>3, <1>4, <1>5, CarriedSent
  <1>7. TypeOK' BY <1>1, <1>6 DEF PostState, IInv, TypeOK
  <1> QED BY <1>1, <1>6, <1>7, Unseen

LEMMA SurfaceNoticeStep ==
  ASSUME IInv, SurfaceNotice
  PROVE  IInv' /\ [Contract!Next]_(Contract!vars)
  <1>1. att' \in [Attempts -> Attempt] /\ \A t \in Attempts : Quiet(att[t], att'[t])
    BY AttemptsKept DEF SurfaceNotice
  <1>2. worker' \in [session : Sessions, deferred : BOOLEAN, notice : BOOLEAN]
    BY DEF SurfaceNotice, IInv, TypeOK
  <1>3. publishing' \subseteq Publications BY PublishType DEF SurfaceNotice, IInv, TypeOK
  <1>4. TypeOK' BY <1>1, <1>2, <1>3 DEF SurfaceNotice, IInv, TypeOK
  <1> QED BY <1>1, <1>4, CarriedUnsent, Unseen DEF SurfaceNotice

LEMMA EnrollStep ==
  ASSUME IInv, NEW d \in Destinations, Enroll(d)
  PROVE  IInv' /\ [Contract!Next]_(Contract!vars)
  <1>1. att' \in [Attempts -> Attempt] /\ \A t \in Attempts : Quiet(att[t], att'[t])
    BY AttemptsKept DEF Enroll
  <1>2. Len(chosen) + 1 \in Scopes /\ ad.conn \in Sessions BY DEF Enroll, IInv, TypeOK
  <1>3. ad' \in [conn : Sessions \cup {None}, view : Page \cup {None},
                 enrolled : Enrollment \cup {None}]
    BY <1>2 DEF Enroll, IInv, TypeOK, Enrollment
  <1>4. chosen' \in Seq(Destinations) /\ Len(chosen') <= MaxScopes
    BY <1>2, BridgeAssumption DEF Enroll, IInv, TypeOK, Scopes
  <1>5. TypeOK' BY <1>1, <1>3, <1>4 DEF Enroll, IInv, TypeOK
  <1> QED BY <1>1, <1>5, CarriedUnsent, Unseen DEF Enroll

-----------------------------------------------------------------------------
(***************************************************************************)
(* The actions: a release in the worker and in the page.                   *)
(***************************************************************************)

LEMMA OneChanged ==
  ASSUME IInv, NEW t \in Attempts, NEW b, att' = [att EXCEPT ![t] = b], Fine(att[t], b)
  PROVE  /\ att' \in [Attempts -> Attempt] /\ Fine(att[t], att'[t]) /\ att'[t] = b
         /\ \A u \in Attempts \ {t} : att'[u] = att[u]
  BY DEF IInv, TypeOK, Fine

\* An attempt in the worker's or the page's hands, before and after a move.
LEMMA MoveFine ==
  ASSUME NEW a \in Attempt, NEW b \in Attempt, Sound(a),
         a.at \in {"wire", "worker", "asked", "answered", "returned"},
         b.at \in {"worker", "asked", "hashing", "answered", "returned", "gone"},
         b.at = "hashing" => a.at = "asked", b.at \in Early => a.at \in Early,
         b.at \in {"answered", "returned"} => b.result \in Results /\ Truthful(b.result, b),
         b.shown = a.shown, b.pending = a.pending, b.replied = a.replied, b.verdict = a.verdict
  PROVE  Fine(a, b) /\ ~HandsOver(a, b)
  BY DEF Fine, Sound, Steps, Same, Keeps, HandsOver, Truthful, Early

LEMMA ReceiveReleaseStep ==
  ASSUME IInv, NEW t \in Attempts, ReceiveRelease(t)
  PROVE  IInv' /\ [Contract!Next]_(Contract!vars)
  <1> DEFINE a == att[t]
             b == [a EXCEPT !.at = "worker", !.job = worker.session]
  <1>1. a \in Attempt /\ Sound(a) /\ a.at = "wire" /\ worker.session \in Sessions
    BY DEF ReceiveRelease, IInv, TypeOK
  <1>2. b \in Attempt /\ b.at = "worker" /\ b.shown = a.shown /\ b.pending = a.pending
        /\ b.replied = a.replied /\ b.verdict = a.verdict
    BY <1>1 DEF Attempt, Places
  <1>3. att' = [att EXCEPT ![t] = b] BY DEF ReceiveRelease, IInv, TypeOK
  <1> HIDE DEF b
  <1>4. Fine(a, b) /\ ~HandsOver(a, b) BY <1>1, <1>2, MoveFine DEF Early
  <1>5. /\ att' \in [Attempts -> Attempt] /\ Fine(att[t], att'[t]) /\ att'[t] = b
        /\ \A u \in Attempts \ {t} : att'[u] = att[u]
    BY <1>3, <1>4, OneChanged
  <1>6. TypeOK' BY <1>5 DEF ReceiveRelease, IInv, TypeOK
  <1> QED BY <1>4, <1>5, <1>6, CarriedUnsent, SeenOnce DEF ReceiveRelease

LEMMA HandleReleaseStep ==
  ASSUME IInv, NEW t \in Attempts, HandleRelease(t)
  PROVE  IInv' /\ [Contract!Next]_(Contract!vars)
  <1> DEFINE a == att[t]
             go == [a EXCEPT !.at = "asked"]
             no == [a EXCEPT !.at = "returned", !.result = "NONE"]
  <1>1. a \in Attempt /\ Sound(a) /\ a.at = "worker" /\ a.shown = 0
    BY DEF HandleRelease, IInv, TypeOK, Sound, Early
  <1>2. go \in Attempt /\ go.at = "asked" /\ go.shown = a.shown /\ go.pending = a.pending
        /\ go.replied = a.replied /\ go.verdict = a.verdict
    BY <1>1 DEF Attempt, Places
  <1>3. no \in Attempt /\ no.at = "returned" /\ no.result = "NONE" /\ no.shown = a.shown
        /\ no.pending = a.pending /\ no.replied = a.replied /\ no.verdict = a.verdict
    BY <1>1 DEF Attempt, Places, Results
  <1>4. PICK b \in {go, no} : att' = [att EXCEPT ![t] = b] BY DEF HandleRelease
  <1> HIDE DEF go, no
  <1>5. Fine(a, b) /\ ~HandsOver(a, b)
    <2>1. b = go => Fine(a, b) /\ ~HandsOver(a, b) BY <1>1, <1>2, MoveFine DEF Early
    <2>2. b = no => Fine(a, b) /\ ~HandsOver(a, b)
      BY <1>1, <1>3, MoveFine DEF Early, Results, Truthful
    <2> QED BY <2>1, <2>2
  <1>6. /\ att' \in [Attempts -> Attempt] /\ Fine(att[t], att'[t]) /\ att'[t] = b
        /\ \A u \in Attempts \ {t} : att'[u] = att[u]
    BY <1>4, <1>5, OneChanged
  <1>7. TypeOK' BY <1>6 DEF HandleRelease, IInv, TypeOK
  <1> QED BY <1>5, <1>6, <1>7, CarriedUnsent, SeenOnce DEF HandleRelease

LEMMA AnsweredType ==
  ASSUME NEW a \in Attempt, NEW result \in Results
  PROVE  LET b == Answered(a, result) IN
         /\ b \in Attempt /\ b.at = "answered" /\ b.result = result /\ b.shown = a.shown
         /\ b.pending = a.pending /\ b.replied = a.replied /\ b.verdict = a.verdict
  BY DEF Answered, Attempt, Places

LEMMA BeginInjectionStep ==
  ASSUME IInv, NEW t \in Attempts, BeginInjection(t)
  PROVE  IInv' /\ [Contract!Next]_(Contract!vars)
  <1> DEFINE a == att[t]
             go == [a EXCEPT !.at = "hashing"]
             no == Answered(a, "NONE")
  <1>1. a \in Attempt /\ Sound(a) /\ a.at = "asked" /\ a.shown = 0
    BY DEF BeginInjection, IInv, TypeOK, Sound, Early
  <1>2. go \in Attempt /\ go.at = "hashing" /\ go.shown = a.shown /\ go.pending = a.pending
        /\ go.replied = a.replied /\ go.verdict = a.verdict
    BY <1>1 DEF Attempt, Places
  <1>3. no \in Attempt /\ no.at = "answered" /\ no.result = "NONE" /\ no.shown = a.shown
        /\ no.pending = a.pending /\ no.replied = a.replied /\ no.verdict = a.verdict
    BY <1>1, AnsweredType DEF Results
  <1>4. PICK b \in {go, no} : att' = [att EXCEPT ![t] = b] BY DEF BeginInjection
  <1> HIDE DEF go, no
  <1>5. Fine(a, b) /\ ~HandsOver(a, b)
    <2>1. b = go => Fine(a, b) /\ ~HandsOver(a, b) BY <1>1, <1>2, MoveFine DEF Early
    <2>2. b = no => Fine(a, b) /\ ~HandsOver(a, b)
      BY <1>1, <1>3, MoveFine DEF Early, Results, Truthful
    <2> QED BY <2>1, <2>2
  <1>6. /\ att' \in [Attempts -> Attempt] /\ Fine(att[t], att'[t]) /\ att'[t] = b
        /\ \A u \in Attempts \ {t} : att'[u] = att[u]
    BY <1>4, <1>5, OneChanged
  <1>7. TypeOK' BY <1>6 DEF BeginInjection, IInv, TypeOK
  <1> QED BY <1>5, <1>6, <1>7, CarriedUnsent, SeenOnce DEF BeginInjection

LEMMA InjectedFine ==
  ASSUME NEW a \in Attempt, NEW clicked \in BOOLEAN, Sound(a), a.at = "hashing", a.shown = 0
  PROVE  Fine(a, Injected(a, clicked)) /\ ~HandsOver(a, Injected(a, clicked))
  <1> DEFINE result == IF clicked THEN "CLICKED" ELSE "UNKNOWN"
             b == Injected(a, clicked)
  <1>1. result \in {"CLICKED", "UNKNOWN"} OBVIOUS
  <1>2. b = [Answered(a, result) EXCEPT !.shown = 1, !.clicked = clicked] BY DEF Injected
  <1> HIDE DEF result, b
  <1>3. b = [a EXCEPT !.at = "answered", !.result = result, !.shown = 1, !.clicked = clicked]
    BY <1>2 DEF Answered, Attempt
  <1>4. b \in Attempt /\ b.at = "answered" /\ b.result = result /\ b.shown = 1
        /\ b.pending = a.pending /\ b.replied = a.replied /\ b.verdict = a.verdict
    <2> DEFINE c == [a EXCEPT !.at = "answered", !.result = result, !.shown = 1]
    <2>1. c \in Attempt /\ c.at = "answered" /\ c.result = result /\ c.shown = 1
          /\ c.pending = a.pending /\ c.replied = a.replied /\ c.verdict = a.verdict
      <3>1. result \in Results BY <1>1 DEF Results
      <3>2. Answered(a, result) \in Attempt BY <3>1, AnsweredType
      <3>3. c = [Answered(a, result) EXCEPT !.shown = 1] BY DEF Answered, Attempt
      <3>4. [Answered(a, result) EXCEPT !.shown = 1] \in Attempt BY <3>2 DEF Attempt
      <3> QED BY <3>1, <3>3, <3>4 DEF Attempt
    <2>2. b = [c EXCEPT !.clicked = clicked] BY <1>3 DEF Attempt
    <2> HIDE DEF c
    <2> QED BY <2>1, <2>2 DEF Attempt
  <1>5. Fine(a, b) /\ ~HandsOver(a, b)
    BY <1>1, <1>4 DEF Fine, Sound, Truthful, Steps, Shows, Keeps, HandsOver, Early, Results
  <1> QED BY <1>5 DEF b

LEMMA FinishInjectionStep ==
  ASSUME IInv, NEW t \in Attempts, FinishInjection(t)
  PROVE  IInv' /\ [Contract!Next]_(Contract!vars)
  <1> DEFINE a == att[t]
  <1>1. a \in Attempt /\ Sound(a) /\ a.at = "hashing" /\ a.shown = 0
    BY DEF FinishInjection, IInv, TypeOK, Sound, Early
  <1>2. \E b : att' = [att EXCEPT ![t] = b] /\ Fine(a, b) /\ ~HandsOver(a, b)
    <2>1. CASE SurfaceFits(a)
      <3>1. PICK clicked \in BOOLEAN : att' = [att EXCEPT ![t] = Injected(a, clicked)]
        BY <2>1 DEF FinishInjection, InjectAndClick
      <3>2. Fine(a, Injected(a, clicked)) /\ ~HandsOver(a, Injected(a, clicked))
        BY <1>1, InjectedFine
      <3> QED BY <3>1, <3>2
    <2>2. CASE ~SurfaceFits(a)
      <3> DEFINE b == Answered(a, "NONE")
      <3>1. b \in Attempt /\ b.at = "answered" /\ b.result = "NONE" /\ b.shown = 0
            /\ b.pending = a.pending /\ b.replied = a.replied /\ b.verdict = a.verdict
        BY <1>1, AnsweredType DEF Results
      <3>2. att' = [att EXCEPT ![t] = b]
        BY <2>2 DEF FinishInjection, Withhold, IInv, TypeOK
      <3> HIDE DEF b
      <3>3. Fine(a, b) /\ ~HandsOver(a, b)
        BY <1>1, <3>1 DEF Fine, Sound, Truthful, Steps, Same, Keeps, HandsOver, Early, Results
      <3> QED BY <3>2, <3>3
    <2> QED BY <2>1, <2>2
  <1>3. PICK b : att' = [att EXCEPT ![t] = b] /\ Fine(a, b) /\ ~HandsOver(a, b) BY <1>2
  <1>4. /\ att' \in [Attempts -> Attempt] /\ Fine(att[t], att'[t]) /\ att'[t] = b
        /\ \A u \in Attempts \ {t} : att'[u] = att[u]
    BY <1>3, OneChanged
  <1>5. TypeOK'
    <2>1. page' \in Page
      BY DEF FinishInjection, InjectAndClick, Withhold, IInv, TypeOK, Page
    <2>2. strayed' \in BOOLEAN
      BY StraysType DEF FinishInjection, InjectAndClick, Withhold, IInv, TypeOK
    <2>3. worker' \in [session : Sessions, deferred : BOOLEAN, notice : BOOLEAN]
      BY DEF FinishInjection, InjectAndClick, Withhold, IInv, TypeOK
    <2> QED BY <1>4, <2>1, <2>2, <2>3 DEF FinishInjection, IInv, TypeOK
  <1> QED BY <1>3, <1>4, <1>5, CarriedUnsent, SeenOnce DEF FinishInjection

LEMMA HearAnswerStep ==
  ASSUME IInv, NEW t \in Attempts, HearAnswer(t)
  PROVE  IInv' /\ [Contract!Next]_(Contract!vars)
  <1> DEFINE a == att[t]
             place == IF a.job = worker.session THEN "returned" ELSE "gone"
             b == [a EXCEPT !.at = place]
  <1>1. a \in Attempt /\ Sound(a) /\ a.at = "answered" BY DEF HearAnswer, IInv, TypeOK
  <1>2. place \in {"returned", "gone"} OBVIOUS
  <1>3. att' = [att EXCEPT ![t] = b] BY DEF HearAnswer, IInv, TypeOK
  <1> HIDE DEF place
  <1>4. b \in Attempt /\ b.at = place /\ b.result = a.result /\ b.shown = a.shown
        /\ b.pending = a.pending /\ b.replied = a.replied /\ b.verdict = a.verdict
    BY <1>1, <1>2 DEF Attempt, Places
  <1> HIDE DEF b
  <1>5. b.result \in Results /\ Truthful(b.result, b) BY <1>1, <1>4 DEF Sound, Truthful
  <1>6. Fine(a, b) /\ ~HandsOver(a, b) BY <1>1, <1>2, <1>4, <1>5, MoveFine DEF Early
  <1>7. /\ att' \in [Attempts -> Attempt] /\ Fine(att[t], att'[t]) /\ att'[t] = b
        /\ \A u \in Attempts \ {t} : att'[u] = att[u]
    BY <1>3, <1>6, OneChanged
  <1>8. TypeOK' BY <1>7 DEF HearAnswer, IInv, TypeOK
  <1> QED BY <1>6, <1>7, <1>8, CarriedUnsent, SeenOnce DEF HearAnswer

LEMMA PostReplyStep ==
  ASSUME IInv, NEW t \in Attempts, PostReply(t)
  PROVE  IInv' /\ [Contract!Next]_(Contract!vars)
  <1> DEFINE a == att[t]
             b == [a EXCEPT !.at = "gone"]
             reply == [kind |-> "reply", attempt |-> t, session |-> worker.session,
                       result |-> a.result]
  <1>1. a \in Attempt /\ Sound(a) /\ a.at = "returned" /\ worker.session \in Sessions
    BY DEF PostReply, IInv, TypeOK
  <1>2. att' = [att EXCEPT ![t] = b] BY DEF PostReply, IInv, TypeOK
  <1>3. b \in Attempt /\ b.at = "gone" /\ b.shown = a.shown /\ b.pending = a.pending
        /\ b.replied = a.replied /\ b.verdict = a.verdict
    BY <1>1 DEF Attempt, Places
  <1>4. toApp' = IF link = "up" THEN Append(toApp, reply) ELSE toApp BY DEF PostReply
  <1> HIDE DEF b
  <1>5. Fine(a, b) /\ ~HandsOver(a, b) BY <1>1, <1>3, MoveFine DEF Early
  <1>6. /\ att' \in [Attempts -> Attempt] /\ Fine(att[t], att'[t]) /\ att'[t] = b
        /\ \A u \in Attempts \ {t} : att'[u] = att[u]
    BY <1>2, <1>5, OneChanged
  <1>7. a.result \in Results /\ Truthful(a.result, a) BY <1>1 DEF Sound
  <1>8. reply \in Message BY <1>1, <1>7 DEF Message
  <1>9. Backed(reply, att') BY <1>3, <1>6, <1>7 DEF Backed, Truthful
  <1> HIDE DEF reply
  <1>10. Carried /\ toApp' \in Seq(Message) BY <1>4, <1>8, <1>9, CarriedSent
  <1>11. publishing' \subseteq Publications BY PublishType DEF PostReply, IInv, TypeOK
  <1>12. worker' \in [session : Sessions, deferred : BOOLEAN, notice : BOOLEAN]
    BY DEF PostReply, IInv, TypeOK
  <1>13. TypeOK' BY <1>6, <1>10, <1>11, <1>12 DEF PostReply, IInv, TypeOK
  <1> QED BY <1>5, <1>6, <1>10, <1>13, SeenOnce

-----------------------------------------------------------------------------
(***************************************************************************)
(* The actions: the app, and the loss of the connection.                   *)
(***************************************************************************)

LEMMA SettleType ==
  ASSUME NEW a \in Attempt, NEW verdict \in Outcomes
  PROVE  LET b == Settle(a, verdict) IN
         /\ b \in Attempt /\ b.at = a.at /\ b.result = a.result /\ b.shown = a.shown
         /\ ~b.pending /\ b.replied = None /\ b.verdict = verdict
  BY DEF Settle, Attempt

\* An answer the contract allows, given to an attempt that is owed one.
LEMMA SettleFine ==
  ASSUME NEW a \in Attempt, Sound(a), a.pending \/ a.replied # None,
         NEW b \in Attempt,
         b.at = a.at \/ (a.at = "wire" /\ b.at = "gone"),
         b.result = a.result, b.shown = a.shown,
         ~b.pending, b.replied = None, b.verdict \in Outcomes,
         b.verdict = "FAILED_BEFORE_EGRESS" => b.at = "gone" /\ b.shown = 0,
         b.verdict = "SUBMISSION_OBSERVED" => b.shown = 1
  PROVE  Settles(a, b) /\ Sound(b) /\ Keeps(a, b)
  BY DEF Settles, Sound, Keeps, Open, Truthful, Early

LEMMA DispatchStep ==
  ASSUME IInv, NEW t \in Attempts, NEW scope \in Scopes, Dispatch(t, scope)
  PROVE  IInv' /\ [Contract!Next]_(Contract!vars)
  <1> DEFINE a == att[t]
  <1>1. a \in Attempt /\ Sound(a) /\ a.at = "new" /\ \A u \in Attempts : ~Open(att[u])
    BY DEF Dispatch, IInv, TypeOK, Open
  <1>2. \E b : att' = [att EXCEPT ![t] = b] /\ Fine(a, b)
    <2>1. CASE ~Healthy(scope) \/ link # "up"
      <3> DEFINE b == [a EXCEPT !.at = "gone", !.verdict = "FAILED_BEFORE_EGRESS"]
      <3>1. att' = [att EXCEPT ![t] = b] BY <2>1 DEF Dispatch
      <3>2. b \in Attempt /\ b.at = "gone" /\ b.verdict = "FAILED_BEFORE_EGRESS"
            /\ b.shown = a.shown /\ b.pending = a.pending /\ b.replied = a.replied
        BY <1>1 DEF Attempt, Places, Outcomes
      <3> HIDE DEF b
      <3>3. Fine(a, b)
        BY <1>1, <3>2 DEF Fine, Sound, Steps, Refuses, Keeps, Truthful, Early
      <3> QED BY <3>1, <3>3
    <2>2. CASE Healthy(scope) /\ link = "up"
      <3>1. PICK calm \in BOOLEAN :
              att' = [att EXCEPT ![t] =
                [a EXCEPT !.at = "wire", !.pending = TRUE, !.scope = scope,
                          !.dest = ad.enrolled.dest, !.session = ad.conn, !.calm = calm]]
        BY <2>2 DEF Dispatch
      <3> DEFINE c == [a EXCEPT !.at = "wire", !.pending = TRUE, !.scope = scope,
                                !.dest = ad.enrolled.dest, !.session = ad.conn]
                 b == [c EXCEPT !.calm = calm]
      <3>2. ad.enrolled.dest \in Destinations /\ ad.conn \in Sessions
        BY <2>2 DEF Healthy, IInv, TypeOK, Enrollment
      <3>3. c \in Attempt /\ c.at = "wire" /\ c.verdict = a.verdict
            /\ c.shown = a.shown /\ c.replied = a.replied
        BY <1>1, <3>2 DEF Attempt, Places
      <3>4. att' = [att EXCEPT ![t] = b] BY <1>1, <3>1 DEF Attempt
      <3> HIDE DEF c
      <3>5. b \in Attempt /\ Alike(c, b) BY <3>3, Calm
      <3> HIDE DEF b
      <3>6. Fine(a, b)
        BY <1>1, <3>3, <3>5
           DEF Alike, Fine, Sound, Steps, HandsOver, Keeps, Truthful, Early
      <3> QED BY <3>4, <3>6
    <2> QED BY <2>1, <2>2
  <1>3. PICK b : att' = [att EXCEPT ![t] = b] /\ Fine(a, b) BY <1>2
  <1>4. /\ att' \in [Attempts -> Attempt] /\ Fine(att[t], att'[t])
        /\ \A u \in Attempts \ {t} : att'[u] = att[u]
    BY <1>3, OneChanged
  <1>5. TypeOK' BY <1>4 DEF Dispatch, IInv, TypeOK
  <1> QED BY <1>1, <1>4, <1>5, CarriedUnsent, SeenOnce DEF Dispatch

LEMMA ResumeStep ==
  ASSUME IInv, NEW t \in Attempts, Resume(t)
  PROVE  IInv' /\ [Contract!Next]_(Contract!vars)
  <1> DEFINE a == att[t]
             verdict == CASE a.replied = "NONE" -> "FAILED_BEFORE_EGRESS"
                          [] a.replied = "CLICKED" /\ ~a.stale -> "SUBMISSION_OBSERVED"
                          [] OTHER -> "OUTCOME_UNKNOWN"
             b == Settle(a, verdict)
  <1>1. a \in Attempt /\ Sound(a) /\ a.replied # None /\ a.at = "gone" /\ Truthful(a.replied, a)
    BY DEF Resume, IInv, TypeOK, Sound
  <1>2. verdict \in Outcomes /\ (verdict = "FAILED_BEFORE_EGRESS" => a.shown = 0)
        /\ (verdict = "SUBMISSION_OBSERVED" => a.shown = 1)
    <2>1. CASE a.replied = "NONE" BY <1>1, <2>1 DEF Truthful, Outcomes
    <2>2. CASE a.replied = "CLICKED" /\ ~a.stale BY <1>1, <2>2 DEF Truthful, Outcomes
    <2>3. CASE a.replied # "NONE" /\ ~(a.replied = "CLICKED" /\ ~a.stale)
      BY <2>3 DEF Outcomes
    <2> QED BY <2>1, <2>2, <2>3
  <1>3. att' = [att EXCEPT ![t] = b] BY DEF Resume
  <1> HIDE DEF verdict
  <1>4. /\ b \in Attempt /\ b.at = a.at /\ b.result = a.result /\ b.shown = a.shown
        /\ ~b.pending /\ b.replied = None /\ b.verdict = verdict
    BY <1>1, <1>2, SettleType
  <1> HIDE DEF b
  <1>5. Settles(a, b) /\ Sound(b) /\ Keeps(a, b) BY <1>1, <1>2, <1>4, SettleFine
  <1>6. Fine(a, b) /\ ~HandsOver(a, b) BY <1>4, <1>5 DEF Fine, Steps, Settles, HandsOver, Open
  <1>7. /\ att' \in [Attempts -> Attempt] /\ Fine(att[t], att'[t]) /\ att'[t] = b
        /\ \A u \in Attempts \ {t} : att'[u] = att[u]
    BY <1>3, <1>6, OneChanged
  <1>8. TypeOK' BY <1>7 DEF Resume, IInv, TypeOK
  <1> QED BY <1>6, <1>7, <1>8, CarriedUnsent, SeenOnce DEF Resume

LEMMA TimeoutStep ==
  ASSUME IInv, NEW t \in Attempts, Timeout(t)
  PROVE  IInv' /\ [Contract!Next]_(Contract!vars)
  <1> DEFINE a == att[t]
             c == Settle(a, "OUTCOME_UNKNOWN")
             b == [c EXCEPT !.calm = FALSE]
  <1>1. a \in Attempt /\ Sound(a) /\ a.pending BY DEF Timeout, IInv, TypeOK
  <1>2. att' = [att EXCEPT ![t] = b] BY DEF Timeout
  <1>3. /\ c \in Attempt /\ c.at = a.at /\ c.result = a.result /\ c.shown = a.shown
        /\ ~c.pending /\ c.replied = None /\ c.verdict = "OUTCOME_UNKNOWN"
    BY <1>1, SettleType DEF Outcomes
  <1> HIDE DEF c
  <1>4. b \in Attempt /\ Alike(c, b) BY <1>3, Calm
  <1> HIDE DEF b
  <1>5. Settles(a, b) /\ Sound(b) /\ Keeps(a, b)
    BY <1>1, <1>3, <1>4, SettleFine DEF Alike, Outcomes
  <1>6. Fine(a, b) /\ ~HandsOver(a, b) BY <1>4, <1>5 DEF Fine, Steps, Settles, HandsOver, Open
  <1>7. /\ att' \in [Attempts -> Attempt] /\ Fine(att[t], att'[t]) /\ att'[t] = b
        /\ \A u \in Attempts \ {t} : att'[u] = att[u]
    BY <1>2, <1>6, OneChanged
  <1>8. TypeOK' BY <1>7 DEF Timeout, IInv, TypeOK
  <1> QED BY <1>6, <1>7, <1>8, CarriedUnsent, SeenOnce DEF Timeout

LEMMA TakeReplyStep ==
  ASSUME IInv, Receive, Head(toApp).kind = "reply"
  PROVE  IInv' /\ [Contract!Next]_(Contract!vars)
  <1> DEFINE m == Head(toApp)
             t == m.attempt
             a == att[t]
  <1>1. m \in Message /\ Backed(m, att)
    <2>1. toApp \in Seq(Message) /\ toApp # <<>> BY DEF Receive, IInv, TypeOK
    <2>2. m = toApp[1] /\ 1 \in 1 .. Len(toApp) BY <2>1
    <2> QED BY <2>1, <2>2 DEF IInv
  <1>2. TakeReply(m) /\ toApp # <<>> /\ toApp' = Tail(toApp) BY DEF Receive
  <1> HIDE DEF m
  <1>3. t \in Attempts /\ m.result \in Results /\ a.at = "gone" /\ Truthful(m.result, a)
    BY <1>1 DEF Message, Backed, m
  <1>4. a \in Attempt /\ Sound(a) BY <1>3 DEF IInv, TypeOK
  <1>5. Carried /\ toApp' \in Seq(Message) BY <1>2, CarriedTail
  <1>6. CASE ~a.pending
    <2>1. att' = att BY <1>2, <1>6 DEF TakeReply
    <2>2. att' \in [Attempts -> Attempt] /\ \A u \in Attempts : Quiet(att[u], att'[u])
      BY <2>1, AttemptsKept
    <2>3. TypeOK' BY <1>2, <1>5, <2>2 DEF Receive, TakeReply, IInv, TypeOK
    <2> QED BY <1>5, <2>2, <2>3, Unseen
  <1>7. CASE a.pending
    <2>1. \E b : att' = [att EXCEPT ![t] = b] /\ Fine(a, b) /\ ~HandsOver(a, b)
      <3>1. CASE Matches(m)
        <4> DEFINE b == [a EXCEPT !.pending = FALSE, !.replied = m.result]
        <4>1. b \in Attempt /\ b.at = a.at /\ b.shown = a.shown /\ b.verdict = a.verdict
              /\ ~b.pending /\ b.replied = m.result
          BY <1>3, <1>4 DEF Attempt
        <4>2. att' = [att EXCEPT ![t] = b] BY <1>2, <1>7, <3>1 DEF TakeReply
        <4> HIDE DEF b
        <4>3. Fine(a, b) /\ ~HandsOver(a, b)
          BY <1>3, <1>4, <1>7, <4>1
             DEF Fine, Sound, Steps, Same, Keeps, HandsOver, Truthful, Early
        <4> QED BY <4>2, <4>3
      <3>2. CASE ~Matches(m)
        <4> DEFINE b == Settle(a, "OUTCOME_UNKNOWN")
        <4>1. /\ b \in Attempt /\ b.at = a.at /\ b.result = a.result /\ b.shown = a.shown
              /\ ~b.pending /\ b.replied = None /\ b.verdict = "OUTCOME_UNKNOWN"
          BY <1>4, SettleType DEF Outcomes
        <4>2. att' = [att EXCEPT ![t] = b] BY <1>2, <1>7, <3>2 DEF TakeReply
        <4> HIDE DEF b
        <4>3. Settles(a, b) /\ Sound(b) /\ Keeps(a, b)
          BY <1>4, <1>7, <4>1, SettleFine DEF Outcomes
        <4>4. Fine(a, b) /\ ~HandsOver(a, b)
          BY <4>1, <4>3 DEF Fine, Steps, Settles, HandsOver, Open
        <4> QED BY <4>2, <4>4
      <3> QED BY <3>1, <3>2
    <2>2. PICK b : att' = [att EXCEPT ![t] = b] /\ Fine(a, b) /\ ~HandsOver(a, b) BY <2>1
    <2>3. /\ att' \in [Attempts -> Attempt] /\ Fine(att[t], att'[t]) /\ att'[t] = b
          /\ \A u \in Attempts \ {t} : att'[u] = att[u]
      BY <1>3, <2>2, OneChanged
    <2>4. TypeOK' BY <1>2, <1>5, <2>3 DEF Receive, TakeReply, IInv, TypeOK
    <2>5. ~HandsOver(att[t], att'[t]) BY <2>2, <2>3
    <2> HIDE DEF t
    <2> QED BY <1>3, <1>5, <2>3, <2>4, <2>5, SeenOnce
  <1> QED BY <1>6, <1>7

LEMMA InvalidatedType ==
  IInv => Invalidated \in [conn : Sessions \cup {None}, view : Page \cup {None},
                           enrolled : Enrollment \cup {None}]
  BY DEF IInv, TypeOK, Invalidated

LEMMA SynchronizeStep ==
  ASSUME IInv, Receive, Head(toApp).kind # "reply"
  PROVE  IInv' /\ [Contract!Next]_(Contract!vars)
  <1> DEFINE m == Head(toApp)
             late == {t \in Attempts : att[t].replied # None}
  <1>1. m \in Message /\ m.kind # "reply"
    <2>1. toApp \in Seq(Message) /\ toApp # <<>> BY DEF Receive, IInv, TypeOK
    <2> QED BY <2>1
  <1>2. m.kind \in {"hello", "state"} /\ m.seen \in Page /\ m.session \in Sessions
    BY <1>1 DEF Message
  <1>3. Synchronize(m) /\ toApp # <<>> /\ toApp' = Tail(toApp) BY DEF Receive
  <1> HIDE DEF m
  <1>4. \A t \in Attempts : att[t] \in Attempt /\ Sound(att[t]) BY DEF IInv, TypeOK
  <1>5. ASSUME NEW a \in Attempt, NEW stale \in BOOLEAN
        PROVE  [a EXCEPT !.stale = stale] \in Attempt /\ Alike(a, [a EXCEPT !.stale = stale])
    BY DEF Attempt, Alike
  <1>6. ASSUME NEW t \in Attempts
        PROVE  Outdated(att)[t] \in Attempt /\ Alike(att[t], Outdated(att)[t])
    <2> DEFINE stale == att[t].stale \/ att[t].pending \/ att[t].replied # None
    <2>1. Outdated(att)[t] = [att[t] EXCEPT !.stale = stale] BY DEF Outdated
    <2>2. stale \in BOOLEAN BY <1>4 DEF Attempt
    <2> HIDE DEF stale
    <2> QED BY <1>4, <1>5, <2>1, <2>2
  <1>7. PICK f : /\ f \in {att, Outdated(att)}
                 /\ att' = [t \in Attempts |-> [f[t] EXCEPT !.calm = @ /\ t \notin late]]
    BY <1>3, Zenon DEF Synchronize
  <1>8. \A t \in Attempts : f[t] \in Attempt /\ Alike(att[t], f[t])
    BY <1>4, <1>6, <1>7 DEF Alike
  <1>9. ASSUME NEW t \in Attempts
        PROVE  att'[t] \in Attempt /\ Quiet(att[t], att'[t])
    <2> DEFINE c == f[t].calm /\ t \notin late
    <2>1. att'[t] = [f[t] EXCEPT !.calm = c] BY <1>7
    <2>2. c \in BOOLEAN BY <1>8 DEF Attempt
    <2> HIDE DEF c
    <2>3. att'[t] \in Attempt /\ Alike(f[t], att'[t]) BY <1>8, <2>1, <2>2, Calm
    <2>4. Alike(att[t], att'[t]) BY <1>8, <2>3 DEF Alike
    <2> QED BY <1>4, <2>3, <2>4, AlikeQuiet
  <1>10. att' \in [Attempts -> Attempt] BY <1>7, <1>9
  <1>11. ad' \in [conn : Sessions \cup {None}, view : Page \cup {None},
                  enrolled : Enrollment \cup {None}]
    <2>1. ad \in [conn : Sessions \cup {None}, view : Page \cup {None},
                  enrolled : Enrollment \cup {None}]
      BY DEF IInv, TypeOK
    <2>2. PICK conn \in Sessions \cup {None}, enrolled \in Enrollment \cup {None} :
            ad' \in {[conn |-> conn, view |-> m.seen, enrolled |-> enrolled],
                     [Invalidated EXCEPT !.conn = conn]}
      BY <1>2, <1>3, <2>1 DEF Synchronize
    <2>3. [Invalidated EXCEPT !.conn = conn]
            \in [conn : Sessions \cup {None}, view : Page \cup {None},
                 enrolled : Enrollment \cup {None}]
      BY InvalidatedType
    <2> QED BY <1>2, <2>2, <2>3
  <1>12. Carried /\ toApp' \in Seq(Message) BY <1>3, CarriedTail
  <1>13. TypeOK'
    <2>1. link' \in {"up", "closing"} /\ strayed' \in BOOLEAN
      BY <1>3 DEF Synchronize
    <2> QED BY <1>10, <1>11, <1>12, <2>1 DEF Receive, IInv, TypeOK
  <1> QED BY <1>9, <1>12, <1>13, Unseen

\* What the loss of the connection makes of one attempt.
Lost(r) == IF r.at = "wire" THEN [r EXCEPT !.at = "gone"] ELSE r
Owed(r) == IF r.pending THEN Settle(r, "OUTCOME_UNKNOWN") ELSE r

LEMMA LostFine ==
  ASSUME NEW a \in Attempt, Sound(a)
  PROVE  Owed(Lost(a)) \in Attempt /\ Sound(Owed(Lost(a))) /\ Keeps(a, Owed(Lost(a)))
         /\ (Same(a, Owed(Lost(a))) \/ Settles(a, Owed(Lost(a))))
  <1> DEFINE c == Lost(a)
             b == Owed(c)
  <1>1. c \in Attempt /\ (c.at = a.at \/ (a.at = "wire" /\ c.at = "gone"))
        /\ c.result = a.result /\ c.shown = a.shown /\ c.pending = a.pending
        /\ c.replied = a.replied /\ c.verdict = a.verdict
    BY DEF Lost, Attempt, Places
  <1> HIDE DEF c
  <1>2. CASE a.pending
    <2>1. b = Settle(c, "OUTCOME_UNKNOWN") BY <1>1, <1>2 DEF Owed
    <2>2. /\ b \in Attempt /\ b.at = c.at /\ b.result = c.result /\ b.shown = c.shown
          /\ ~b.pending /\ b.replied = None /\ b.verdict = "OUTCOME_UNKNOWN"
      BY <1>1, <2>1, SettleType DEF Outcomes
    <2> HIDE DEF b
    <2>3. Settles(a, b) /\ Sound(b) /\ Keeps(a, b)
      BY <1>1, <1>2, <2>2, SettleFine DEF Outcomes
    <2> QED BY <2>2, <2>3 DEF b, c
  <1>3. CASE ~a.pending
    <2>1. b = c BY <1>1, <1>3 DEF Owed
    <2> HIDE DEF b
    <2>2. Same(a, b) /\ Sound(b) /\ Keeps(a, b)
      BY <1>1, <2>1 DEF Same, Sound, Keeps, Truthful, Early
    <2> QED BY <1>1, <2>1, <2>2 DEF b, c
  <1> QED BY <1>2, <1>3

LEMMA CutFine ==
  ASSUME IInv, NEW f, \A t \in Attempts : Quiet(att[t], f[t]), att' = Cut(f)
  PROVE  /\ att' \in [Attempts -> Attempt]
         /\ \A t \in Attempts : /\ att'[t] \in Attempt /\ Sound(att'[t]) /\ Keeps(att[t], att'[t])
                                /\ Same(att[t], att'[t]) \/ Settles(att[t], att'[t])
  <1>1. att' = [t \in Attempts |-> Owed(Lost(f[t]))] BY DEF Cut, Owed, Lost
  <1>2. ASSUME NEW t \in Attempts
        PROVE  /\ att'[t] \in Attempt /\ Sound(att'[t]) /\ Keeps(att[t], att'[t])
               /\ Same(att[t], att'[t]) \/ Settles(att[t], att'[t])
    <2> DEFINE b == Owed(Lost(f[t]))
    <2>1. att'[t] = b BY <1>1
    <2>2. f[t] \in Attempt /\ Sound(f[t]) /\ Quiet(att[t], f[t]) BY DEF Quiet
    <2>3. b \in Attempt /\ Sound(b) /\ Keeps(f[t], b) /\ (Same(f[t], b) \/ Settles(f[t], b))
      BY <2>2, LostFine
    <2> HIDE DEF b
    <2>4. Keeps(att[t], b) BY <2>2, <2>3 DEF Quiet, Keeps
    <2>5. Same(f[t], b) => Same(att[t], b) BY <2>2 DEF Quiet, Same
    <2>6. Settles(f[t], b) => Settles(att[t], b) BY <2>2 DEF Quiet, Same, Settles, Open
    <2> QED BY <2>1, <2>3, <2>4, <2>5, <2>6
  <1> QED BY <1>1, <1>2

LEMMA DisturbedQuiet ==
  ASSUME NEW f, \A t \in Attempts : Quiet(att[t], f[t])
  PROVE  \A t \in Attempts : Quiet(att[t], Disturbed(f)[t])
  <1> SUFFICES ASSUME NEW t \in Attempts PROVE Quiet(att[t], Disturbed(f)[t])
    OBVIOUS
  <1>1. Disturbed(f)[t] = [f[t] EXCEPT !.calm = FALSE] BY DEF Disturbed
  <1>2. f[t] \in Attempt /\ Sound(f[t]) BY DEF Quiet
  <1>3. Quiet(f[t], Disturbed(f)[t]) BY <1>1, <1>2, Calm, AlikeQuiet
  <1> QED BY <1>3 DEF Quiet, Same, Keeps

LEMMA UnchangedQuiet == IInv => \A t \in Attempts : Quiet(att[t], att[t])
  BY DEF IInv, TypeOK, Quiet, Same, Keeps

LEMMA DisconnectStep ==
  ASSUME IInv, Disconnect
  PROVE  IInv' /\ [Contract!Next]_(Contract!vars)
  <1>1. PICK f : f \in {att, Disturbed(att)} /\ att' = Cut(f) BY DEF Disconnect
  <1>2. \A t \in Attempts : Quiet(att[t], f[t]) BY <1>1, UnchangedQuiet, DisturbedQuiet
  <1>3. /\ att' \in [Attempts -> Attempt]
        /\ \A t \in Attempts : /\ att'[t] \in Attempt /\ Sound(att'[t]) /\ Keeps(att[t], att'[t])
                               /\ Same(att[t], att'[t]) \/ Settles(att[t], att'[t])
    BY <1>1, <1>2, CutFine
  <1>4. TypeOK' BY <1>3, InvalidatedType, CarriedNone DEF Disconnect, Disconnected, IInv, TypeOK
  <1> QED BY <1>3, <1>4, CarriedNone, SeenSettled DEF Disconnect

LEMMA DisableIntegrationStep ==
  ASSUME IInv, DisableIntegration
  PROVE  IInv' /\ [Contract!Next]_(Contract!vars)
  <1>1. att' = Cut(Disturbed(att)) BY DEF DisableIntegration
  <1>2. \A t \in Attempts : Quiet(att[t], Disturbed(att)[t]) BY UnchangedQuiet, DisturbedQuiet
  <1>3. /\ att' \in [Attempts -> Attempt]
        /\ \A t \in Attempts : /\ att'[t] \in Attempt /\ Sound(att'[t]) /\ Keeps(att[t], att'[t])
                               /\ Same(att[t], att'[t]) \/ Settles(att[t], att'[t])
    BY <1>1, <1>2, CutFine
  <1>4. TypeOK' BY <1>3, InvalidatedType, CarriedNone DEF DisableIntegration, IInv, TypeOK
  <1> QED BY <1>3, <1>4, CarriedNone, SeenSettled DEF DisableIntegration

LEMMA WorkerRestartsStep ==
  ASSUME IInv, WorkerRestarts
  PROVE  IInv' /\ [Contract!Next]_(Contract!vars)
  <1> DEFINE dropped(r) == IF r.at \in {"worker", "returned"} THEN [r EXCEPT !.at = "gone"] ELSE r
             f == [t \in Attempts |-> dropped(att[t])]
  <1>1. att' = Cut(Disturbed(f)) BY DEF WorkerRestarts
  <1>2. ASSUME NEW a \in Attempt, Sound(a) PROVE Quiet(a, dropped(a))
    BY <1>2 DEF Attempt, Places, Quiet, Same, Keeps, Sound, Truthful, Early
  <1> HIDE DEF dropped
  <1>3. \A t \in Attempts : Quiet(att[t], f[t]) BY <1>2 DEF IInv, TypeOK
  <1> HIDE DEF f
  <1>4. \A t \in Attempts : Quiet(att[t], Disturbed(f)[t]) BY <1>3, DisturbedQuiet
  <1>5. /\ att' \in [Attempts -> Attempt]
        /\ \A t \in Attempts : /\ att'[t] \in Attempt /\ Sound(att'[t]) /\ Keeps(att[t], att'[t])
                               /\ Same(att[t], att'[t]) \/ Settles(att[t], att'[t])
    BY <1>1, <1>4, CutFine
  <1>6. worker' \in [session : Sessions, deferred : BOOLEAN, notice : BOOLEAN]
    BY BridgeAssumption DEF WorkerRestarts, IInv, TypeOK, Sessions
  <1>7. TypeOK'
    BY <1>5, <1>6, InvalidatedType, CarriedNone DEF WorkerRestarts, Disconnected, IInv, TypeOK
  <1> QED BY <1>5, <1>7, CarriedNone, SeenSettled DEF WorkerRestarts

-----------------------------------------------------------------------------
(***************************************************************************)
(* The theorems.                                                           *)
(***************************************************************************)

LEMMA StepKeeps ==
  ASSUME IInv, [Next]_vars
  PROVE  IInv' /\ [Contract!Next]_(Contract!vars)
  <1>1. CASE UNCHANGED vars
    <2>1. att' = att /\ toApp' = toApp BY <1>1 DEF vars
    <2>2. TypeOK' BY <1>1 DEF vars, IInv, TypeOK
    <2> QED BY <2>1, <2>2, AttemptsKept, CarriedUnsent, Unseen
  <1>2. CASE Outside
    BY <1>2, SurfaceChangesStep, TabsChangeStep, ReloadStep, EnrollStep, DispatchStep,
       ConnectStep, DisableIntegrationStep, WorkerRestartsStep DEF Outside
  <1>3. CASE Publication
    BY <1>3, SurfaceNoticeStep, InspectTabsStep, PostStateStep DEF Publication
  <1>4. ASSUME NEW t \in Attempts, ReleaseStep(t)
        PROVE  IInv' /\ [Contract!Next]_(Contract!vars)
    BY <1>4, ReceiveReleaseStep, HandleReleaseStep, BeginInjectionStep, FinishInjectionStep,
       HearAnswerStep, PostReplyStep, ResumeStep, TimeoutStep DEF ReleaseStep
  <1>5. CASE Receive BY <1>5, TakeReplyStep, SynchronizeStep
  <1>6. CASE Disconnect BY <1>6, DisconnectStep
  <1> QED BY <1>1, <1>2, <1>3, <1>4, <1>5, <1>6 DEF Next

\* Page, worker, pipe, adapter and attempts keep their shapes, whatever is lost, answered
\* late or restarted: what content-script.js, service-worker.js and adapter.mjs write is
\* what the next of them can read.
THEOREM TypeCorrect == Spec => []TypeOK
  <1>1. IInv => TypeOK BY DEF IInv
  <1> QED BY <1>1, IInvInit, StepKeeps, PTL DEF Spec

\* The bridge keeps the contract: every behaviour of Bridge is, seen from the release
\* runtime, a behaviour of AdapterContract.  An answer that promises the text was not
\* shown is final, also for a content script that is still at work when it is given
\* (content-script.js never reports NONE once it has begun to write, bridge.mjs never
\* makes a refusal of a timeout).
THEOREM BridgeContract == Spec => KeepsContract
  <1> QED BY ContractInit, IInvInit, StepKeeps, PTL DEF Spec, KeepsContract, Contract!Spec

-----------------------------------------------------------------------------
(***************************************************************************)
(* The enrollment, the page and the answer: what holds besides the         *)
(* contract.                                                               *)
(***************************************************************************)

\* What the app knows came over the open connection from the worker that runs.
Linked ==
  /\ \A i \in 1 .. Len(toApp) : toApp[i].session = worker.session
  /\ ad.view # None => link = "up" /\ ad.conn = worker.session
  /\ ad.enrolled # None => /\ ad.view # None /\ ad.enrolled.session = ad.conn
                           /\ Fits(ad.view, ad.enrolled)

\* Not yet looked at for the last time by the content script.
Underway == {"wire", "worker", "asked", "hashing"}
Named(scope, dest) == scope \in 1 .. Len(chosen) /\ dest = chosen[scope]
Where ==
  /\ ad.enrolled # None => Named(ad.enrolled.scope, ad.enrolled.dest)
  /\ \A t \in Attempts : att[t].at \in Underway => Named(att[t].scope, att[t].dest)

\* A reply on its way is the attempt's result, and nothing happens to an attempt before it is handed over.
Fresh(a) == a.at = "new" => ~a.stale /\ ~a.clicked /\ ~a.calm
Told ==
  /\ \A i \in 1 .. Len(toApp) : toApp[i].kind = "reply" => toApp[i].result = att[toApp[i].attempt].result
  /\ \A t \in Attempts : Fresh(att[t])

Replies == \A i \in 1 .. Len(toApp) : toApp[i].kind = "reply"
\* No state of the page is on its way to the app or will be.
Resting == publishing = {} /\ ~worker.notice /\ ~worker.deferred /\ Replies

\* The answer to an attempt will be taken for what it is.
Clean(a) == /\ a.pending /\ a.replied = None /\ ~a.stale /\ link = "up"
            /\ a.session = worker.session /\ (a.at \notin {"wire", "gone"} => a.job = worker.session)
\* Its reply comes before any state.
Answering(t) ==
  \E i \in 1 .. Len(toApp) : /\ toApp[i].kind = "reply" /\ toApp[i].attempt = t
                             /\ \A j \in 1 .. i : toApp[j].kind = "reply"
Owing(t, a) ==
  \/ a.at # "gone" /\ Clean(a) /\ publishing = {} /\ Replies
  \/ a.at = "gone" /\ Clean(a) /\ Answering(t)
  \/ a.at = "gone" /\ ~a.pending /\ a.replied = "CLICKED" /\ ~a.stale
\* What holds of an attempt nothing from outside has disturbed.
Calmly(t, a) ==
  a.calm => /\ a.at \in Underway /\ page.empty => Clean(a) /\ Resting
            /\ a.clicked => /\ a.verdict # "OUTCOME_UNKNOWN" /\ a.result = "CLICKED"
                            /\ a.at \in {"answered", "returned", "gone"}
            /\ a.clicked /\ a.verdict = None => Owing(t, a)

Rest == Linked /\ Where /\ Told /\ \A t \in Attempts : Calmly(t, att[t])

LEMMA RestInit == Init => Rest
  <1> SUFFICES ASSUME Init PROVE Rest OBVIOUS
  <1>1. Len(toApp) = 0 BY DEF Init
  <1>2. \A t \in Attempts : att[t].at = "new" /\ ~att[t].stale /\ ~att[t].clicked /\ ~att[t].calm
    BY DEF Init, NewAttempt
  <1>3. Linked BY <1>1 DEF Init, Linked
  <1>4. Where BY <1>2 DEF Init, Where, Underway
  <1>5. Told BY <1>1, <1>2 DEF Told, Fresh
  <1>6. \A t \in Attempts : Calmly(t, att[t]) BY <1>2 DEF Calmly
  <1> QED BY <1>3, <1>4, <1>5, <1>6 DEF Rest

LEMMA Shapes ==
  ASSUME IInv
  PROVE  /\ toApp \in Seq(Message) /\ Len(toApp) \in Nat
         /\ \A i \in 1 .. Len(toApp) : /\ toApp[i] \in Message /\ toApp[i].session \in Sessions
                                       /\ toApp[i].kind \in {"hello", "state", "reply"}
                                       /\ toApp[i].kind = "reply" => /\ toApp[i].attempt \in Attempts
                                                                     /\ att[toApp[i].attempt].at = "gone"
         /\ \A t \in Attempts : att[t] \in Attempt /\ Sound(att[t])
         /\ worker.session \in Sessions /\ worker.session # None
         /\ chosen \in Seq(Destinations) /\ Len(chosen) \in Nat
  <1>1. toApp \in Seq(Message) /\ chosen \in Seq(Destinations) BY DEF IInv, TypeOK
  <1>2. Len(toApp) \in Nat /\ Len(chosen) \in Nat BY <1>1
  <1>3. \A i \in 1 .. Len(toApp) : toApp[i] \in Message /\ Backed(toApp[i], att) BY <1>1 DEF IInv
  <1>4. ASSUME NEW m \in Message
        PROVE  /\ m.session \in Sessions /\ m.kind \in {"hello", "state", "reply"}
               /\ m.kind = "reply" => m.attempt \in Attempts
    BY DEF Message
  <1>5. worker.session \in Sessions /\ worker.session # None
    BY BridgeAssumption DEF IInv, TypeOK, Sessions
  <1> QED BY <1>1, <1>2, <1>3, <1>4, <1>5 DEF IInv, TypeOK, Backed

-----------------------------------------------------------------------------
(* What a step that leaves a part alone keeps.                             *)

LEMMA LinkedKept ==
  ASSUME Linked, worker'.session = worker.session, ad' = ad, link = "up" => link' = "up",
         \A i \in 1 .. Len(toApp') : toApp'[i].session = worker.session
  PROVE  Linked'
  BY DEF Linked, Fits

LEMMA WhereKept ==
  ASSUME Where, ad'.enrolled \in {ad.enrolled, None}, chosen' = chosen,
         \A t \in Attempts : att'[t].at \in Underway =>
             att[t].at \in Underway /\ att'[t].scope = att[t].scope /\ att'[t].dest = att[t].dest
  PROVE  Where'
  BY DEF Where, Named

LEMMA ToldKept ==
  ASSUME IInv, Told,
         \A i \in 1 .. Len(toApp') : toApp'[i].kind = "reply" => \E j \in 1 .. Len(toApp) : toApp'[i] = toApp[j],
         \A t \in Attempts : att[t].at = "gone" => att'[t].result = att[t].result,
         \A t \in Attempts : Fresh(att'[t])
  PROVE  Told'
  <1>1. ASSUME NEW i \in 1 .. Len(toApp'), toApp'[i].kind = "reply"
        PROVE  toApp'[i].result = att'[toApp'[i].attempt].result
    <2>1. PICK j \in 1 .. Len(toApp) : toApp'[i] = toApp[j] BY <1>1
    <2>2. toApp[j].attempt \in Attempts /\ att[toApp[j].attempt].at = "gone" BY <1>1, <2>1, Shapes
    <2>3. toApp[j].result = att[toApp[j].attempt].result BY <1>1, <2>1 DEF Told
    <2> QED BY <2>1, <2>2, <2>3
  <1> QED BY <1>1 DEF Told

\* An attempt that stays as it is while other things move.
LEMMA CalmKept ==
  ASSUME NEW u \in Attempts, NEW a, Calmly(u, a), worker'.session = worker.session,
         link = "up" => link' = "up", page'.empty => page.empty,
         page'.empty /\ link = "up" /\ Resting => Resting',
         link = "up" /\ publishing = {} /\ Replies /\ a.at \in {"answered", "returned"} /\ a.job = worker.session
           => publishing' = {} /\ Replies',
         link = "up" /\ Answering(u) => Answering(u)'
  PROVE  Calmly(u, a)'
  <1>1. Clean(a) => link = "up" /\ Clean(a)' BY DEF Clean
  <1>2. SUFFICES ASSUME a.calm
                 PROVE  /\ a.at \in Underway /\ page'.empty => Clean(a)' /\ Resting'
                        /\ a.clicked => /\ a.verdict # "OUTCOME_UNKNOWN" /\ a.result = "CLICKED"
                                        /\ a.at \in {"answered", "returned", "gone"}
                        /\ a.clicked /\ a.verdict = None => Owing(u, a)'
    BY DEF Calmly
  <1>3. a.at \in Underway /\ page'.empty => Clean(a)' /\ Resting' BY <1>1, <1>2 DEF Calmly
  <1>4. a.clicked => /\ a.verdict # "OUTCOME_UNKNOWN" /\ a.result = "CLICKED"
                     /\ a.at \in {"answered", "returned", "gone"}
    BY <1>2 DEF Calmly
  <1>5. ASSUME a.clicked, a.verdict = None PROVE Owing(u, a)'
    <2>1. Owing(u, a) /\ a.at \in {"answered", "returned", "gone"} BY <1>2, <1>5 DEF Calmly
    <2>2. CASE a.at # "gone" /\ Clean(a) /\ publishing = {} /\ Replies
      BY <1>1, <2>1, <2>2 DEF Owing, Clean
    <2>3. CASE a.at = "gone" /\ Clean(a) /\ Answering(u) BY <1>1, <2>3 DEF Owing
    <2>4. CASE a.at = "gone" /\ ~a.pending /\ a.replied = "CLICKED" /\ ~a.stale BY <2>4 DEF Owing
    <2> QED BY <2>1, <2>2, <2>3, <2>4 DEF Owing
  <1> QED BY <1>3, <1>4, <1>5

\* One attempt moves and nothing else does.
LEMMA OneMoves ==
  ASSUME IInv, Rest, NEW t \in Attempts, NEW b, att' = [att EXCEPT ![t] = b],
         UNCHANGED <<page, worker, publishing, toApp, link, ad, chosen>>,
         b.at # "new", b.at \in Underway => Named(b.scope, b.dest),
         att[t].at = "gone" => b.result = att[t].result, Calmly(t, b)
  PROVE  Rest'
  <1>1. att'[t] = b /\ \A u \in Attempts \ {t} : att'[u] = att[u] BY DEF IInv, TypeOK
  <1>2. Linked' BY LinkedKept DEF Rest, Linked
  <1>3. Where' BY <1>1 DEF Rest, Where, Named
  <1>4. Told'
    <2>1. \A u \in Attempts : Fresh(att'[u]) BY <1>1 DEF Rest, Told, Fresh
    <2>2. \A u \in Attempts : att[u].at = "gone" => att'[u].result = att[u].result BY <1>1
    <2> QED BY <2>1, <2>2, ToldKept DEF Rest
  <1>5. \A u \in Attempts : Calmly(u, att'[u]) BY <1>1 DEF Rest
  <1>6. \A u \in Attempts : Calmly(u, att[u])' BY <1>5 DEF Calmly, Clean, Owing, Answering, Resting, Replies
  <1> QED BY <1>2, <1>3, <1>4, <1>6 DEF Rest

\* Something from outside disturbs every attempt.
LEMMA AllDisturbed ==
  ASSUME IInv, Rest, Linked', Where', toApp' = toApp \/ toApp' = <<>>,
         \A t \in Attempts : /\ ~att'[t].calm /\ (att[t].at = "gone" => att'[t].result = att[t].result)
                             /\ Fresh(att'[t])
  PROVE  Rest'
  <1>1. \A t \in Attempts : Calmly(t, att[t])' BY DEF Calmly
  <1>2. Told' BY ToldKept DEF Rest
  <1> QED BY <1>1, <1>2 DEF Rest

-----------------------------------------------------------------------------
(* A release in the worker and in the page.                                *)

LEMMA ReceiveReleaseRest ==
  ASSUME IInv, Rest, NEW t \in Attempts, ReceiveRelease(t)
  PROVE  Rest'
  <1> DEFINE a == att[t]
             b == [a EXCEPT !.at = "worker", !.job = worker.session]
  <1>1. a \in Attempt /\ Sound(a) /\ a.at = "wire" /\ Calmly(t, a) BY Shapes DEF ReceiveRelease, Rest
  <1>2. /\ b.at = "worker" /\ b.job = worker.session /\ b.scope = a.scope /\ b.dest = a.dest
        /\ b.session = a.session /\ b.result = a.result /\ b.clicked = a.clicked /\ b.pending = a.pending
        /\ b.replied = a.replied /\ b.stale = a.stale /\ b.verdict = a.verdict /\ b.calm = a.calm
    BY <1>1 DEF Attempt
  <1>3. att' = [att EXCEPT ![t] = b] BY DEF ReceiveRelease, IInv, TypeOK
  <1> HIDE DEF b
  <1>4. Calmly(t, b) BY <1>1, <1>2 DEF Calmly, Clean, Underway
  <1>5. Named(b.scope, b.dest) BY <1>1, <1>2 DEF Rest, Where, Underway
  <1>6. UNCHANGED <<page, worker, publishing, toApp, link, ad, chosen>> BY DEF ReceiveRelease
  <1> QED BY <1>1, <1>2, <1>3, <1>4, <1>5, <1>6, OneMoves

\* An attempt that is asked to be refused, or is refused, was not clicked.
LEMMA Unclicked ==
  ASSUME NEW t \in Attempts, NEW a, NEW b, Calmly(t, a), a.at \in Underway,
         b.at \notin Underway, b.clicked = a.clicked, b.calm = a.calm
  PROVE  Calmly(t, b)
  BY DEF Calmly, Underway

LEMMA HandleReleaseRest ==
  ASSUME IInv, Rest, NEW t \in Attempts, HandleRelease(t)
  PROVE  Rest'
  <1> DEFINE a == att[t]
             go == [a EXCEPT !.at = "asked"]
             no == [a EXCEPT !.at = "returned", !.result = "NONE"]
  <1>1. a \in Attempt /\ Sound(a) /\ a.at = "worker" /\ Calmly(t, a) BY Shapes DEF HandleRelease, Rest
  <1>2. UNCHANGED <<page, worker, publishing, toApp, link, ad, chosen>> BY DEF HandleRelease
  <1>3. att' = [att EXCEPT ![t] = go] \/ att' = [att EXCEPT ![t] = no] BY DEF HandleRelease
  <1>4. CASE att' = [att EXCEPT ![t] = go]
    <2>1. /\ go.at = "asked" /\ go.job = a.job /\ go.scope = a.scope /\ go.dest = a.dest
          /\ go.session = a.session /\ go.result = a.result /\ go.clicked = a.clicked /\ go.pending = a.pending
          /\ go.replied = a.replied /\ go.stale = a.stale /\ go.verdict = a.verdict /\ go.calm = a.calm
      BY <1>1 DEF Attempt
    <2> HIDE DEF go
    <2>2. Calmly(t, go) BY <1>1, <2>1 DEF Calmly, Clean, Underway
    <2>3. Named(go.scope, go.dest) BY <1>1, <2>1 DEF Rest, Where, Underway
    <2> QED BY <1>1, <1>2, <1>4, <2>1, <2>2, <2>3, OneMoves
  <1>5. CASE att' = [att EXCEPT ![t] = no]
    <2>1. no.at = "returned" /\ no.clicked = a.clicked /\ no.calm = a.calm BY <1>1 DEF Attempt
    <2> HIDE DEF no
    <2>2. Calmly(t, no) BY <1>1, <2>1, Unclicked DEF Underway
    <2> QED BY <1>1, <1>2, <1>5, <2>1, <2>2, OneMoves DEF Underway
  <1> QED BY <1>3, <1>4, <1>5

LEMMA BeginInjectionRest ==
  ASSUME IInv, Rest, NEW t \in Attempts, BeginInjection(t)
  PROVE  Rest'
  <1> DEFINE a == att[t]
             go == [a EXCEPT !.at = "hashing"]
             no == [a EXCEPT !.at = "answered", !.result = "NONE"]
  <1>1. a \in Attempt /\ Sound(a) /\ a.at = "asked" /\ Calmly(t, a) BY Shapes DEF BeginInjection, Rest
  <1>2. UNCHANGED <<page, worker, publishing, toApp, link, ad, chosen>> BY DEF BeginInjection
  <1>3. att' = [att EXCEPT ![t] = go] \/ att' = [att EXCEPT ![t] = no]
    BY DEF BeginInjection, Answered, IInv, TypeOK
  <1>4. CASE att' = [att EXCEPT ![t] = go]
    <2>1. /\ go.at = "hashing" /\ go.job = a.job /\ go.scope = a.scope /\ go.dest = a.dest
          /\ go.session = a.session /\ go.result = a.result /\ go.clicked = a.clicked /\ go.pending = a.pending
          /\ go.replied = a.replied /\ go.stale = a.stale /\ go.verdict = a.verdict /\ go.calm = a.calm
      BY <1>1 DEF Attempt
    <2> HIDE DEF go
    <2>2. Calmly(t, go) BY <1>1, <2>1 DEF Calmly, Clean, Underway
    <2>3. Named(go.scope, go.dest) BY <1>1, <2>1 DEF Rest, Where, Underway
    <2> QED BY <1>1, <1>2, <1>4, <2>1, <2>2, <2>3, OneMoves
  <1>5. CASE att' = [att EXCEPT ![t] = no]
    <2>1. no.at = "answered" /\ no.clicked = a.clicked /\ no.calm = a.calm BY <1>1 DEF Attempt
    <2> HIDE DEF no
    <2>2. Calmly(t, no) BY <1>1, <2>1, Unclicked DEF Underway
    <2> QED BY <1>1, <1>2, <1>5, <2>1, <2>2, OneMoves DEF Underway
  <1> QED BY <1>3, <1>4, <1>5

\* The text goes into the page, which changes nothing for the other attempts.
LEMMA FinishInjectionRest ==
  ASSUME IInv, Rest, NEW t \in Attempts, FinishInjection(t)
  PROVE  Rest'
  <1> DEFINE a == att[t]
             no == [a EXCEPT !.at = "answered", !.result = "NONE"]
  <1>1. a \in Attempt /\ Sound(a) /\ a.at = "hashing" /\ Calmly(t, a) BY Shapes DEF FinishInjection, Rest
  <1>2. UNCHANGED <<publishing, toApp, link, ad, chosen>> BY DEF FinishInjection
  <1>3. CASE Withhold(t)
    <2>1. att' = [att EXCEPT ![t] = no] /\ UNCHANGED <<page, worker>>
      BY <1>3 DEF Withhold, Answered, IInv, TypeOK
    <2>2. no.at = "answered" /\ no.clicked = a.clicked /\ no.calm = a.calm BY <1>1 DEF Attempt
    <2> HIDE DEF no
    <2>3. Calmly(t, no) BY <1>1, <2>2, Unclicked DEF Underway
    <2> QED BY <1>1, <1>2, <2>1, <2>2, <2>3, OneMoves DEF Underway
  <1>4. CASE SurfaceFits(a) /\ InjectAndClick(t)
    <2>1. PICK clicked \in BOOLEAN : att' = [att EXCEPT ![t] = Injected(a, clicked)]
      BY <1>4 DEF InjectAndClick, IInv, TypeOK
    <2> DEFINE b == Injected(a, clicked)
    <2>2. /\ b.at = "answered" /\ b.job = a.job /\ b.result = IF clicked THEN "CLICKED" ELSE "UNKNOWN"
          /\ b.session = a.session /\ b.clicked = clicked /\ b.pending = a.pending
          /\ b.replied = a.replied /\ b.stale = a.stale /\ b.verdict = a.verdict /\ b.calm = a.calm
      BY <1>1 DEF Attempt, Injected, Answered
    <2> HIDE DEF b
    <2>3. /\ page' = [page EXCEPT !.empty = FALSE] /\ worker' = [worker EXCEPT !.notice = TRUE]
          /\ att'[t] = b /\ \A u \in Attempts \ {t} : att'[u] = att[u]
      BY <1>4, <2>1 DEF InjectAndClick, b, IInv, TypeOK
    <2>4. page'.empty = FALSE /\ worker'.session = worker.session
      BY <2>3 DEF IInv, TypeOK, Page
    <2>5. Linked' BY <1>2, <2>4, LinkedKept DEF Rest, Linked
    <2>6. Where' BY <1>2, <2>2, <2>3, WhereKept DEF Rest, Underway
    <2>7. Told'
      <3>1. \A u \in Attempts : Fresh(att'[u]) BY <2>2, <2>3 DEF Rest, Told, Fresh
      <3>2. \A u \in Attempts : att[u].at = "gone" => att'[u].result = att[u].result BY <1>1, <2>3
      <3> QED BY <1>2, <3>1, <3>2, ToldKept DEF Rest
    <2>8. ASSUME NEW u \in Attempts \ {t} PROVE Calmly(u, att[u])'
      <3>1. PICK c : c = att[u] /\ c = att'[u] BY <2>3
      <3>2. Calmly(u, c) BY <3>1 DEF Rest
      <3>3. Calmly(u, c)' BY <1>2, <2>4, <3>2, CalmKept DEF Replies, Answering
      <3> QED BY <3>1, <3>3 DEF Calmly, Owing, Clean
    <2>9. Calmly(t, att[t])'
      <3>1. a.calm => Clean(a) /\ Resting /\ a.verdict = None
        <4>1. page.empty BY <1>4 DEF SurfaceFits
        <4>2. a.pending => a.verdict = None BY <1>1 DEF Sound
        <4> QED BY <1>1, <4>1, <4>2 DEF Calmly, Underway, Clean
      <3>2. b.calm => /\ b.pending /\ b.replied = None /\ ~b.stale /\ link = "up" /\ b.session = worker.session
                      /\ b.job = worker.session /\ b.verdict = None /\ publishing = {} /\ Replies
        BY <1>1, <2>2, <3>1 DEF Clean, Resting
      <3>3. Replies' = Replies BY <1>2 DEF Replies
      <3>4. PICK c : c = b /\ c = att'[t] BY <2>3
      <3>5. Clean(c)' \/ ~c.calm BY <1>2, <2>2, <2>4, <3>2, <3>4 DEF Clean
      <3>6. c.calm => Owing(t, c)' BY <1>2, <2>2, <3>2, <3>3, <3>4, <3>5 DEF Owing
      <3>7. c.verdict # "OUTCOME_UNKNOWN" \/ ~c.calm BY <3>2, <3>4, BridgeAssumption DEF Outcomes
      <3>8. c.at = "answered" /\ (c.clicked => c.result = "CLICKED") BY <2>2, <3>4
      <3>9. Calmly(t, c)' BY <3>6, <3>7, <3>8 DEF Calmly, Underway
      <3> QED BY <3>4, <3>9 DEF Calmly, Owing, Clean
    <2> QED BY <2>5, <2>6, <2>7, <2>8, <2>9 DEF Rest
  <1> QED BY <1>3, <1>4 DEF FinishInjection

LEMMA HearAnswerRest ==
  ASSUME IInv, Rest, NEW t \in Attempts, HearAnswer(t)
  PROVE  Rest'
  <1> DEFINE a == att[t]
             at == IF a.job = worker.session THEN "returned" ELSE "gone"
             b == [a EXCEPT !.at = at]
  <1>1. a \in Attempt /\ Sound(a) /\ a.at = "answered" /\ Calmly(t, a) BY Shapes DEF HearAnswer, Rest
  <1>2. UNCHANGED <<page, worker, publishing, toApp, link, ad, chosen>> BY DEF HearAnswer
  <1>3. /\ b.at = at /\ b.job = a.job
        /\ b.session = a.session /\ b.result = a.result /\ b.clicked = a.clicked /\ b.pending = a.pending
        /\ b.replied = a.replied /\ b.stale = a.stale /\ b.verdict = a.verdict /\ b.calm = a.calm
    BY <1>1 DEF Attempt
  <1>4. att' = [att EXCEPT ![t] = b] BY DEF HearAnswer, IInv, TypeOK
  <1>5. at \in {"returned", "gone"} /\ (a.job = worker.session => at = "returned") OBVIOUS
  <1> HIDE DEF b, at
  <1>6. Calmly(t, b) BY <1>1, <1>3, <1>5 DEF Calmly, Clean, Owing, Underway
  <1> QED BY <1>1, <1>2, <1>3, <1>4, <1>5, <1>6, OneMoves DEF Underway

LEMMA Appended ==
  ASSUME IInv, NEW m \in Message, toApp' = Append(toApp, m)
  PROVE  /\ Len(toApp') = Len(toApp) + 1 /\ toApp'[Len(toApp) + 1] = m
         /\ \A i \in 1 .. Len(toApp) : toApp'[i] = toApp[i]
         /\ \A i \in 1 .. Len(toApp') : i \in 1 .. Len(toApp) \/ i = Len(toApp) + 1
  BY Shapes

LEMMA PostReplyRest ==
  ASSUME IInv, Rest, NEW t \in Attempts, PostReply(t)
  PROVE  Rest'
  <1> DEFINE a == att[t]
             b == [a EXCEPT !.at = "gone"]
             last == ActiveReleases([att EXCEPT ![t].at = "gone"], worker.session) = {}
             m == [kind |-> "reply", attempt |-> t, session |-> worker.session, result |-> a.result]
  <1>1. a \in Attempt /\ Sound(a) /\ a.at = "returned" /\ Calmly(t, a) /\ worker.session \in Sessions
    BY Shapes DEF PostReply, Rest
  <1>2. UNCHANGED <<page, link, ad, chosen>> BY DEF PostReply
  <1>3. /\ b.at = "gone" /\ b.result = a.result /\ b.clicked = a.clicked /\ b.calm = a.calm
        /\ b.session = a.session /\ b.pending = a.pending /\ b.replied = a.replied /\ b.stale = a.stale
        /\ b.verdict = a.verdict
    BY <1>1 DEF Attempt
  <1>4. att' = [att EXCEPT ![t] = b] BY DEF PostReply, IInv, TypeOK
  <1>5. m \in Message BY <1>1 DEF Message, Sound
  <1>6. (link = "up" /\ toApp' = Append(toApp, m)) \/ (link # "up" /\ toApp' = toApp) BY DEF PostReply
  <1>7. /\ worker'.session = worker.session /\ worker'.notice = worker.notice
        /\ worker'.deferred = (worker.deferred /\ ~last)
        /\ publishing' = IF last /\ worker.deferred THEN publishing \cup {Publish("state")} ELSE publishing
    BY DEF PostReply, IInv, TypeOK
  <1>8. ASSUME NEW u \in Attempts \ {t}, att[u].at \in {"answered", "returned"}, att[u].job = worker.session
        PROVE  ~last
    <2>1. u \in ActiveReleases([att EXCEPT ![t].at = "gone"], worker.session)
      BY <1>8 DEF ActiveReleases, IInv, TypeOK
    <2> QED BY <2>1
  <1>9. m.kind = "reply" /\ m.attempt = t /\ m.session = worker.session /\ m.result = a.result OBVIOUS
  <1> HIDE DEF b, m, last
  <1>10. att'[t] = b /\ \A u \in Attempts \ {t} : att'[u] = att[u] BY <1>4 DEF IInv, TypeOK
  <1>11. /\ Len(toApp) \in Nat
         /\ \A i \in 1 .. Len(toApp) : i \in 1 .. Len(toApp') /\ toApp'[i] = toApp[i]
         /\ \A i \in 1 .. Len(toApp') : i \in 1 .. Len(toApp) \/ toApp'[i] = m
         /\ link = "up" => /\ Len(toApp') = Len(toApp) + 1 /\ toApp'[Len(toApp) + 1] = m
    BY <1>5, <1>6, Appended, Shapes
  <1>12. Linked'
    <2>1. \A i \in 1 .. Len(toApp') : toApp'[i].session = worker.session BY <1>9, <1>11 DEF Rest, Linked
    <2> QED BY <1>2, <1>7, <2>1, LinkedKept DEF Rest
  <1>13. Where' BY <1>2, <1>3, <1>10, WhereKept DEF Rest, Underway
  <1>14. Told'
    <2>1. \A u \in Attempts : Fresh(att'[u]) BY <1>3, <1>10 DEF Rest, Told, Fresh
    <2>2. \A u \in Attempts : att'[u].result = att[u].result BY <1>3, <1>10
    <2>3. ASSUME NEW i \in 1 .. Len(toApp'), toApp'[i].kind = "reply"
          PROVE  toApp'[i].result = att'[toApp'[i].attempt].result
      <3>1. CASE i \in 1 .. Len(toApp)
        <4>1. toApp'[i] = toApp[i] /\ toApp[i].kind = "reply" /\ toApp[i].attempt \in Attempts
          BY <1>11, <2>3, <3>1, Shapes
        <4>2. toApp[i].result = att[toApp[i].attempt].result BY <3>1, <4>1 DEF Rest, Told
        <4> QED BY <2>2, <4>1, <4>2
      <3>2. CASE toApp'[i] = m BY <1>9, <2>2, <3>2
      <3> QED BY <1>11, <3>1, <3>2
    <2> QED BY <2>1, <2>3 DEF Told
  <1>15. Replies => Replies'
    BY <1>9, <1>11 DEF Replies
  <1>16. ASSUME NEW u \in Attempts \ {t} PROVE Calmly(u, att[u])'
    <2>1. PICK c : c = att[u] /\ c = att'[u] BY <1>10
    <2>2. Calmly(u, c) BY <2>1 DEF Rest
    <2>3. page'.empty => page.empty BY <1>2
    <2>4. link = "up" => link' = "up" BY <1>2
    <2>5. page'.empty /\ link = "up" /\ Resting => Resting' BY <1>7, <1>15 DEF Resting
    <2>6. link = "up" /\ publishing = {} /\ Replies /\ c.at \in {"answered", "returned"} /\ c.job = worker.session
            => publishing' = {} /\ Replies'
      BY <1>7, <1>8, <1>15, <2>1
    <2>7. link = "up" /\ Answering(u) => Answering(u)' BY <1>11 DEF Answering
    <2>8. Calmly(u, c)' BY <1>7, <2>2, <2>3, <2>4, <2>5, <2>6, <2>7, CalmKept
    <2> QED BY <2>1, <2>8 DEF Calmly, Owing, Clean
  <1>17. Calmly(t, att[t])'
    <2>1. PICK c : c = b /\ c = att'[t] BY <1>10
    <2>2. ASSUME c.calm, c.clicked, c.verdict = None PROVE Owing(t, c)'
      <3>1. Clean(a) /\ Replies BY <1>1, <1>3, <2>1, <2>2 DEF Calmly, Owing
      <3>2. link = "up" /\ Len(toApp') = Len(toApp) + 1 /\ toApp'[Len(toApp) + 1] = m
        BY <1>11, <3>1 DEF Clean
      <3>3. Clean(c)' BY <1>2, <1>3, <1>7, <2>1, <3>1 DEF Clean
      <3>4. Answering(t)'
        <4>1. Len(toApp) + 1 \in 1 .. Len(toApp') BY <1>11, <3>2
        <4>2. \A j \in 1 .. Len(toApp) + 1 : toApp'[j].kind = "reply"
          BY <1>15, <3>1, <3>2, <1>11 DEF Replies
        <4> QED BY <1>9, <3>2, <4>1, <4>2 DEF Answering
      <3> QED BY <1>3, <2>1, <3>3, <3>4 DEF Owing
    <2>3. c.calm /\ c.clicked => c.verdict # "OUTCOME_UNKNOWN" /\ c.result = "CLICKED"
      BY <1>1, <1>3, <2>1 DEF Calmly
    <2>4. c.at = "gone" BY <1>3, <2>1
    <2>5. Calmly(t, c)' BY <2>2, <2>3, <2>4 DEF Calmly, Underway
    <2> QED BY <2>1, <2>5 DEF Calmly, Owing, Clean
  <1> QED BY <1>12, <1>13, <1>14, <1>16, <1>17 DEF Rest

-----------------------------------------------------------------------------
(* The app.                                                                *)

LEMMA ResumeRest ==
  ASSUME IInv, Rest, NEW t \in Attempts, Resume(t)
  PROVE  Rest'
  <1> DEFINE a == att[t]
             v == CASE a.replied = "NONE" -> "FAILED_BEFORE_EGRESS"
                    [] a.replied = "CLICKED" /\ ~a.stale -> "SUBMISSION_OBSERVED"
                    [] OTHER -> "OUTCOME_UNKNOWN"
             b == Settle(a, v)
  <1>1. a \in Attempt /\ Sound(a) /\ a.replied # None /\ Calmly(t, a) BY Shapes DEF Resume, Rest
  <1>2. UNCHANGED <<page, worker, publishing, toApp, link, ad, chosen>> BY DEF Resume
  <1>3. a.replied = "CLICKED" /\ ~a.stale => v = "SUBMISSION_OBSERVED" OBVIOUS
  <1>4. v # None
    <2>1. v \in Outcomes BY DEF Outcomes
    <2> QED BY <2>1, BridgeAssumption
  <1>5. att' = [att EXCEPT ![t] = b] BY DEF Resume, Settle, IInv, TypeOK
  <1> HIDE DEF v
  <1>6. b.at = a.at /\ b.result = a.result /\ b.clicked = a.clicked /\ b.calm = a.calm /\ b.verdict = v
    BY <1>1 DEF Attempt, Settle
  <1> HIDE DEF b
  <1>7. a.at = "gone" /\ a.verdict = None BY <1>1 DEF Sound
  <1>8. Calmly(t, b)
    <2>1. a.calm /\ a.clicked => a.replied = "CLICKED" /\ ~a.stale BY <1>1, <1>7 DEF Calmly, Owing, Clean
    <2>2. a.calm /\ a.clicked => a.result = "CLICKED" BY <1>1 DEF Calmly
    <2> QED BY <1>3, <1>4, <1>6, <1>7, <2>1, <2>2 DEF Calmly, Underway
  <1> QED BY <1>2, <1>5, <1>6, <1>7, <1>8, OneMoves DEF Underway

LEMMA TimeoutRest ==
  ASSUME IInv, Rest, NEW t \in Attempts, Timeout(t)
  PROVE  Rest'
  <1> DEFINE a == att[t]
             b == [Settle(a, "OUTCOME_UNKNOWN") EXCEPT !.calm = FALSE]
  <1>1. a \in Attempt /\ Sound(a) /\ a.pending BY Shapes DEF Timeout
  <1>2. UNCHANGED <<page, worker, publishing, toApp, link, ad, chosen>> BY DEF Timeout
  <1>3. att' = [att EXCEPT ![t] = b] BY DEF Timeout, Settle, IInv, TypeOK
  <1>4. b.at = a.at /\ b.scope = a.scope /\ b.dest = a.dest /\ b.result = a.result /\ b.calm = FALSE
    BY <1>1 DEF Attempt, Settle
  <1> HIDE DEF b
  <1>5. a.at # "new" BY <1>1 DEF Sound
  <1>6. b.at \in Underway => Named(b.scope, b.dest) BY <1>4 DEF Rest, Where
  <1>7. Calmly(t, b) BY <1>4 DEF Calmly
  <1> QED BY <1>2, <1>3, <1>4, <1>5, <1>6, <1>7, OneMoves

LEMMA DispatchRest ==
  ASSUME IInv, Rest, NEW t \in Attempts, NEW scope \in Scopes, Dispatch(t, scope)
  PROVE  Rest'
  <1> DEFINE a == att[t]
             quiet == /\ publishing = {} /\ ~worker.notice /\ ~worker.deferred
                      /\ \A i \in DOMAIN toApp : toApp[i].kind = "reply"
             no == [a EXCEPT !.at = "gone", !.verdict = "FAILED_BEFORE_EGRESS"]
             go == [a EXCEPT !.at = "wire", !.pending = TRUE, !.scope = scope, !.dest = ad.enrolled.dest,
                             !.session = ad.conn, !.calm = quiet]
  <1>1. a \in Attempt /\ Sound(a) /\ a.at = "new" /\ Fresh(a) BY Shapes DEF Dispatch, Rest, Told
  <1>2. UNCHANGED <<page, worker, publishing, toApp, link, ad, chosen>> BY DEF Dispatch
  <1>3. \/ att' = [att EXCEPT ![t] = no]
        \/ Healthy(scope) /\ link = "up" /\ att' = [att EXCEPT ![t] = go]
    BY DEF Dispatch, IInv, TypeOK
  <1>4. CASE att' = [att EXCEPT ![t] = no]
    <2>1. no.at = "gone" /\ no.calm = a.calm BY <1>1 DEF Attempt
    <2> HIDE DEF no
    <2>2. Calmly(t, no) BY <1>1, <2>1 DEF Fresh, Calmly
    <2> QED BY <1>1, <1>2, <1>4, <2>1, <2>2, OneMoves DEF Underway
  <1>5. CASE Healthy(scope) /\ link = "up" /\ att' = [att EXCEPT ![t] = go]
    <2>1. quiet => Resting BY Shapes DEF Resting, Replies
    <2> HIDE DEF quiet
    <2>2. /\ go.at = "wire" /\ go.pending = TRUE /\ go.scope = scope /\ go.dest = ad.enrolled.dest
          /\ go.session = ad.conn /\ go.calm = quiet /\ go.clicked = a.clicked /\ go.replied = a.replied
          /\ go.stale = a.stale
      BY <1>1 DEF Attempt
    <2> HIDE DEF go
    <2>3. ad.conn = worker.session BY <1>5 DEF Healthy, Rest, Linked
    <2>4. Clean(go) BY <1>1, <1>5, <2>2, <2>3 DEF Clean, Fresh, Sound
    <2>5. ~go.clicked BY <1>1, <2>2 DEF Fresh
    <2>6. go.calm => Resting BY <2>1, <2>2
    <2>7. Calmly(t, go) BY <2>4, <2>5, <2>6 DEF Calmly
    <2>8. Named(go.scope, go.dest) BY <1>5, <2>2 DEF Healthy, Rest, Where
    <2> QED BY <1>1, <1>2, <1>5, <2>2, <2>7, <2>8, OneMoves DEF Underway
  <1> QED BY <1>3, <1>4, <1>5

-----------------------------------------------------------------------------
(* What the app reads.                                                     *)

LEMMA Tailed ==
  ASSUME IInv, toApp # <<>>, toApp' = Tail(toApp)
  PROVE  /\ Len(toApp) \in Nat /\ Len(toApp) >= 1 /\ Len(toApp') = Len(toApp) - 1
         /\ Head(toApp) = toApp[1]
         /\ \A i \in 1 .. Len(toApp') : i + 1 \in 1 .. Len(toApp) /\ toApp'[i] = toApp[i + 1]
  BY Shapes

LEMMA TailLinked ==
  ASSUME IInv, Rest, toApp # <<>>, toApp' = Tail(toApp)
  PROVE  /\ \A i \in 1 .. Len(toApp') : toApp'[i].session = worker.session
         /\ \A i \in 1 .. Len(toApp') : toApp'[i].kind = "reply" => \E j \in 1 .. Len(toApp) : toApp'[i] = toApp[j]
         /\ Replies => Replies'
  BY Tailed DEF Rest, Linked, Replies

\* The reply another attempt waits for is still ahead.
LEMMA TailAnswering ==
  ASSUME IInv, toApp # <<>>, toApp' = Tail(toApp), NEW u \in Attempts,
         toApp[1].attempt # u, Answering(u)
  PROVE  Answering(u)'
  <1>1. PICK i \in 1 .. Len(toApp) : /\ toApp[i].kind = "reply" /\ toApp[i].attempt = u
                                     /\ \A j \in 1 .. i : toApp[j].kind = "reply"
    BY DEF Answering
  <1>2. i # 1 BY <1>1
  <1>3. i - 1 \in 1 .. Len(toApp') /\ toApp'[i - 1] = toApp[i] BY <1>1, <1>2, Tailed
  <1>4. ASSUME NEW j \in 1 .. i - 1 PROVE toApp'[j].kind = "reply"
    <2>1. j \in 1 .. Len(toApp') /\ j + 1 \in 1 .. i BY <1>1, <1>3, Tailed
    <2>2. toApp'[j] = toApp[j + 1] BY <2>1, Tailed
    <2> QED BY <1>1, <2>1, <2>2
  <1> QED BY <1>1, <1>3, <1>4 DEF Answering

LEMMA TakeReplyRest ==
  ASSUME IInv, Rest, Receive, Head(toApp).kind = "reply"
  PROVE  Rest'
  <1> DEFINE m == toApp[1]
  <1>0. PICK w : w = m.attempt OBVIOUS
  <1> DEFINE a == att[w]
             yes == [a EXCEPT !.pending = FALSE, !.replied = m.result]
             no  == Settle(a, "OUTCOME_UNKNOWN")
  <1>1. toApp # <<>> /\ toApp' = Tail(toApp) /\ m = Head(toApp) BY Shapes DEF Receive
  <1>2. TakeReply(m) /\ UNCHANGED <<page, worker, publishing, chosen, ad, link>>
    BY <1>1 DEF Receive, TakeReply
  <1>3. 1 \in 1 .. Len(toApp) BY <1>1, Tailed
  <1>4. w \in Attempts /\ a.at = "gone" /\ m.session = worker.session /\ m.result = a.result
    BY <1>0, <1>1, <1>3, Shapes DEF Rest, Linked, Told
  <1>5. a \in Attempt /\ Sound(a) /\ Calmly(w, a) BY <1>4, Shapes DEF Rest
  <1>6. \/ ~a.pending /\ att' = att
        \/ a.pending /\ a.session = m.session /\ att' = [att EXCEPT ![w] = yes]
        \/ a.pending /\ a.session # m.session /\ att' = [att EXCEPT ![w] = no]
    BY <1>0, <1>2, <1>4 DEF TakeReply, Matches, Settle, IInv, TypeOK
  <1>7. /\ yes.at = a.at /\ yes.result = a.result /\ yes.clicked = a.clicked /\ yes.calm = a.calm
        /\ yes.pending = FALSE /\ yes.replied = m.result /\ yes.stale = a.stale /\ yes.verdict = a.verdict
        /\ no.at = a.at /\ no.result = a.result /\ no.clicked = a.clicked /\ no.calm = a.calm
    BY <1>5 DEF Attempt, Settle
  <1> HIDE DEF yes, no
  <1>8. /\ \A u \in Attempts \ {w} : att'[u] = att[u]
        /\ \/ ~a.pending /\ att'[w] = a
           \/ a.pending /\ a.session = m.session /\ att'[w] = yes
           \/ a.pending /\ a.session # m.session /\ att'[w] = no
    BY <1>4, <1>6 DEF IInv, TypeOK
  <1>9. Linked' BY <1>1, <1>2, TailLinked, LinkedKept DEF Rest
  <1>10. Where'
    <2>1. \A u \in Attempts : att'[u].at \in Underway => att'[u] = att[u]
      BY <1>4, <1>7, <1>8 DEF Underway
    <2> QED BY <1>2, <2>1, WhereKept DEF Rest
  <1>11. Told'
    <2>1. \A u \in Attempts : Fresh(att'[u]) BY <1>4, <1>7, <1>8 DEF Rest, Told, Fresh
    <2>2. \A u \in Attempts : att'[u].result = att[u].result BY <1>7, <1>8
    <2>3. \A i \in 1 .. Len(toApp') : toApp'[i].kind = "reply" => \E j \in 1 .. Len(toApp) : toApp'[i] = toApp[j]
      BY <1>1, TailLinked
    <2> QED BY <2>1, <2>2, <2>3, ToldKept DEF Rest
  <1>12. Resting => Resting' BY <1>1, <1>2, TailLinked DEF Resting
  <1>13. ASSUME NEW u \in Attempts \ {w} PROVE Calmly(u, att[u])'
    <2>1. PICK c : c = att[u] /\ c = att'[u] BY <1>8
    <2>2. Calmly(u, c) BY <2>1 DEF Rest
    <2>3. page'.empty => page.empty BY <1>2
    <2>4. link = "up" => link' = "up" BY <1>2
    <2>5. page'.empty /\ link = "up" /\ Resting => Resting' BY <1>12
    <2>6. link = "up" /\ publishing = {} /\ Replies /\ c.at \in {"answered", "returned"} /\ c.job = worker.session
            => publishing' = {} /\ Replies'
      BY <1>1, <1>2, TailLinked
    <2>7. link = "up" /\ Answering(u) => Answering(u)' BY <1>0, <1>1, TailAnswering
    <2>8. worker'.session = worker.session BY <1>2
    <2>9. Calmly(u, c)' BY <2>2, <2>3, <2>4, <2>5, <2>6, <2>7, <2>8, CalmKept
    <2> QED BY <2>1, <2>9 DEF Calmly, Owing, Clean
  <1>14. ASSUME a.calm, a.clicked
         PROVE  /\ a.result = "CLICKED" /\ a.verdict # "OUTCOME_UNKNOWN"
                /\ a.verdict = None => \/ Clean(a)
                                       \/ ~a.pending /\ a.replied = "CLICKED" /\ ~a.stale
    BY <1>4, <1>5, <1>14 DEF Calmly, Owing
  <1>15. Calmly(w, att[w])'
    <2>1. CASE ~a.pending /\ att'[w] = a
      <3>1. PICK c : c = a /\ c = att'[w] BY <2>1
      <3>2. ~Clean(c) BY <2>1, <3>1 DEF Clean
      <3>3. Calmly(w, c)' BY <1>4, <1>14, <3>1, <3>2 DEF Calmly, Owing, Underway
      <3> QED BY <3>1, <3>3, <1>2 DEF Calmly, Owing, Clean
    <2>2. CASE a.pending /\ a.session = m.session /\ att'[w] = yes
      <3>1. PICK c : c = yes /\ c = att'[w] BY <2>2
      <3>2. a.verdict = None BY <1>5, <2>2 DEF Sound
      <3>3. c.calm /\ c.clicked => c.result = "CLICKED" /\ ~c.stale /\ c.replied = "CLICKED"
        BY <1>4, <1>7, <1>14, <2>2, <3>1, <3>2 DEF Clean
      <3>4. c.at = "gone" /\ ~c.pending /\ c.verdict = None BY <1>4, <1>7, <3>1, <3>2
      <3>5. None # "OUTCOME_UNKNOWN" BY BridgeAssumption DEF Outcomes
      <3>6. Calmly(w, c)' BY <3>3, <3>4, <3>5 DEF Calmly, Owing, Underway
      <3> QED BY <3>1, <3>6 DEF Calmly, Owing, Clean
    <2>3. CASE a.pending /\ a.session # m.session /\ att'[w] = no
      <3>1. a.verdict = None BY <1>5, <2>3 DEF Sound
      <3>2. ~Clean(a) BY <1>4, <2>3 DEF Clean
      <3>3. ~(a.calm /\ a.clicked) BY <1>14, <2>3, <3>1, <3>2
      <3>4. PICK c : c = no /\ c = att'[w] BY <2>3
      <3>5. ~(c.calm /\ c.clicked) /\ c.at = "gone" BY <1>4, <1>7, <3>3, <3>4
      <3>6. Calmly(w, c)' BY <3>5 DEF Calmly, Underway
      <3> QED BY <3>4, <3>6 DEF Calmly, Owing, Clean
    <2> QED BY <1>8, <2>1, <2>2, <2>3
  <1> QED BY <1>9, <1>10, <1>11, <1>13, <1>15 DEF Rest

\* A state the app reads finds no attempt waiting for its answer undisturbed.
LEMMA SynchronizeRest ==
  ASSUME IInv, Rest, Receive, Head(toApp).kind # "reply"
  PROVE  Rest'
  <1> DEFINE m == toApp[1]
             conn == IF m.kind = "state" THEN ad.conn ELSE IF m.seen.granted THEN m.session ELSE None
             renewed == m.kind = "hello" /\ ad.conn # None /\ ad.conn # conn
             enrolled == IF renewed THEN None ELSE ad.enrolled
             accepted == /\ conn = m.session /\ m.seen.granted
                         /\ enrolled # None => Fits(m.seen, enrolled)
  <1>1. toApp # <<>> /\ toApp' = Tail(toApp) /\ m = Head(toApp) BY Shapes DEF Receive
  <1>2. Synchronize(m) /\ UNCHANGED <<page, worker, publishing, chosen>> BY <1>1 DEF Receive
  <1>3. 1 \in 1 .. Len(toApp) /\ m.kind # "reply" BY <1>1, Tailed
  <1>4. m.session = worker.session /\ m.kind \in {"hello", "state"}
    BY <1>3, Shapes DEF Rest, Linked
  <1>5. /\ ad' = IF accepted THEN [conn |-> conn, view |-> m.seen, enrolled |-> enrolled]
                 ELSE [Invalidated EXCEPT !.conn = conn]
        /\ link' = IF accepted THEN "up" ELSE "closing"
    BY <1>2 DEF Synchronize
  <1>6. \A u \in Attempts :
          /\ att'[u].at = att[u].at /\ att'[u].result = att[u].result /\ att'[u].clicked = att[u].clicked
          /\ att'[u].scope = att[u].scope /\ att'[u].dest = att[u].dest /\ att'[u].verdict = att[u].verdict
          /\ att'[u].calm => att[u].calm /\ att[u].replied = None
          /\ att'[u].stale => att[u].stale \/ att[u].pending \/ att[u].replied # None
    <2> DEFINE late == {t \in Attempts : att[t].replied # None}
               old == Outdated(att)
               f   == IF accepted /\ ~renewed THEN att ELSE old
    <2>0. att' = [t \in Attempts |-> [f[t] EXCEPT !.calm = @ /\ t \notin late]]
      BY <1>2 DEF Synchronize
    <2>1. PICK g \in {att, old} : att' = [t \in Attempts |-> [g[t] EXCEPT !.calm = @ /\ t \notin late]]
      <3>1. f \in {att, old} OBVIOUS
      <3> HIDE DEF f, late
      <3> QED BY <2>0, <3>1
    <2> SUFFICES ASSUME NEW u \in Attempts
                 PROVE  /\ att'[u].at = att[u].at /\ att'[u].result = att[u].result
                        /\ att'[u].clicked = att[u].clicked /\ att'[u].scope = att[u].scope
                        /\ att'[u].dest = att[u].dest /\ att'[u].verdict = att[u].verdict
                        /\ att'[u].calm => att[u].calm /\ att[u].replied = None
                        /\ att'[u].stale => att[u].stale \/ att[u].pending \/ att[u].replied # None
      OBVIOUS
    <2>2. att[u] \in Attempt BY Shapes
    <2>3. old[u] = [att[u] EXCEPT !.stale = att[u].stale \/ att[u].pending \/ att[u].replied # None]
      BY DEF Outdated
    <2> HIDE DEF old
    <2>4. /\ g[u] \in Attempt
          /\ g[u].at = att[u].at /\ g[u].result = att[u].result
          /\ g[u].clicked = att[u].clicked /\ g[u].scope = att[u].scope
          /\ g[u].dest = att[u].dest /\ g[u].verdict = att[u].verdict /\ g[u].calm = att[u].calm
          /\ g[u].stale => att[u].stale \/ att[u].pending \/ att[u].replied # None
      <3>1. CASE g = att BY <2>2, <3>1
      <3>2. CASE g = old BY <2>2, <2>3, <3>2 DEF Attempt
      <3> QED BY <2>1, <3>1, <3>2
    <2>5. u \notin late => att[u].replied = None OBVIOUS
    <2> HIDE DEF late
    <2>6. att'[u] = [g[u] EXCEPT !.calm = g[u].calm /\ u \notin late] BY <2>1
    <2>7. /\ att'[u].at = g[u].at /\ att'[u].result = g[u].result
          /\ att'[u].clicked = g[u].clicked /\ att'[u].scope = g[u].scope
          /\ att'[u].dest = g[u].dest /\ att'[u].verdict = g[u].verdict /\ att'[u].stale = g[u].stale
          /\ att'[u].calm = (g[u].calm /\ u \notin late)
      BY <2>4, <2>6 DEF Attempt
    <2> QED BY <2>4, <2>5, <2>7
  <1>7. Linked'
    <2>1. \A i \in 1 .. Len(toApp') : toApp'[i].session = worker'.session BY <1>1, <1>2, TailLinked
    <2>2. CASE accepted
      <3>1. /\ ad'.conn = conn /\ ad'.view = m.seen /\ ad'.enrolled = enrolled /\ link' = "up"
            /\ conn = worker.session
        BY <1>4, <1>5, <2>2
      <3>2. enrolled # None => enrolled = ad.enrolled /\ ~renewed /\ Fits(m.seen, enrolled) BY <2>2
      <3>3. ad.enrolled # None => ad.enrolled.session = ad.conn /\ ad.conn # None
        BY Shapes DEF Rest, Linked
      <3>4. ~renewed /\ ad.conn # None => ad.conn = conn BY <1>4
      <3> HIDE DEF conn, enrolled, renewed, accepted
      <3>5. enrolled # None => enrolled.session = conn BY <3>2, <3>3, <3>4
      <3>6. m.seen # None \/ enrolled = None
        <4>1. toApp[1] \in Message /\ toApp[1].kind # "reply" BY <1>3, Shapes
        <4>2. toApp[1].seen \in Page BY <4>1 DEF Message
        <4> QED BY <4>2, BridgeAssumption
      <3>7. ad'.enrolled # None => Fits(ad'.view, ad'.enrolled) BY <3>1, <3>2
      <3> QED BY <1>2, <2>1, <3>1, <3>5, <3>6, <3>7 DEF Linked
    <2>3. CASE ~accepted
      <3>1. ad'.view = None /\ ad'.enrolled = None BY <1>5, <2>3 DEF Invalidated, IInv, TypeOK
      <3> QED BY <2>1, <3>1 DEF Linked
    <2> QED BY <2>2, <2>3
  <1>8. ad'.enrolled \in {ad.enrolled, None} BY <1>5 DEF Invalidated, IInv, TypeOK
  <1>9. Where' BY <1>2, <1>6, <1>8, WhereKept DEF Rest
  <1>10. Told'
    <2>1. \A u \in Attempts : Fresh(att'[u]) BY <1>6, Shapes DEF Rest, Told, Fresh, Sound
    <2>2. \A i \in 1 .. Len(toApp') : toApp'[i].kind = "reply" => \E j \in 1 .. Len(toApp) : toApp'[i] = toApp[j]
      BY <1>1, TailLinked
    <2> QED BY <1>6, <2>1, <2>2, ToldKept DEF Rest
  <1>11. ASSUME NEW u \in Attempts PROVE Calmly(u, att[u])'
    <2>1. Calmly(u, att[u]) BY DEF Rest
    <2>2. ~Resting /\ ~Replies BY <1>3 DEF Resting, Replies
    <2>3. ~Answering(u) BY <1>3 DEF Answering
    <2>4. att[u].calm /\ att[u].replied = None => ~Owing(u, att[u]) BY <2>2, <2>3, BridgeAssumption DEF Owing, Results
    <2>5. PICK c : c = att'[u] OBVIOUS
    <2>6. c.calm => ~(c.at \in Underway /\ page'.empty) BY <1>2, <1>6, <2>1, <2>2, <2>5 DEF Calmly
    <2>7. c.calm /\ c.clicked => /\ c.verdict # "OUTCOME_UNKNOWN" /\ c.result = "CLICKED"
                                 /\ c.at \in {"answered", "returned", "gone"} /\ c.verdict # None
      BY <1>6, <2>1, <2>4, <2>5 DEF Calmly
    <2>8. Calmly(u, c)' BY <2>6, <2>7 DEF Calmly
    <2> QED BY <2>5, <2>8 DEF Calmly, Owing, Clean
  <1> QED BY <1>7, <1>9, <1>10, <1>11 DEF Rest

-----------------------------------------------------------------------------
(* The loss of the connection.                                             *)

LEMMA CutKeeps ==
  ASSUME NEW a, \A t \in Attempts : a[t] \in Attempt, NEW t \in Attempts
  PROVE  /\ Cut(a)[t].calm = a[t].calm /\ Cut(a)[t].stale = a[t].stale
         /\ Cut(a)[t].clicked = a[t].clicked /\ Cut(a)[t].result = a[t].result
         /\ Cut(a)[t].scope = a[t].scope /\ Cut(a)[t].dest = a[t].dest
         /\ Cut(a)[t].at = IF a[t].at = "wire" THEN "gone" ELSE a[t].at
         /\ ~a[t].pending => Cut(a)[t].verdict = a[t].verdict
         /\ Cut(a)[t].shown = a[t].shown
  <1> DEFINE r == a[t]
             lost == Lost(r)
  <1>1. r \in Attempt BY DEF r
  <1>2. Cut(a)[t] = Owed(lost) BY DEF Cut, Lost, Owed
  <1> HIDE DEF r
  <1>3. /\ lost \in Attempt /\ lost.calm = r.calm /\ lost.stale = r.stale
        /\ lost.clicked = r.clicked /\ lost.result = r.result /\ lost.scope = r.scope /\ lost.dest = r.dest
        /\ lost.at = (IF r.at = "wire" THEN "gone" ELSE r.at) /\ lost.pending = r.pending
        /\ lost.verdict = r.verdict /\ lost.shown = r.shown
    BY <1>1 DEF Lost, Attempt, Places
  <1> HIDE DEF lost
  <1>4. /\ Owed(lost).calm = lost.calm /\ Owed(lost).stale = lost.stale
        /\ Owed(lost).clicked = lost.clicked /\ Owed(lost).result = lost.result
        /\ Owed(lost).scope = lost.scope /\ Owed(lost).dest = lost.dest
        /\ Owed(lost).at = lost.at
        /\ ~lost.pending => Owed(lost).verdict = lost.verdict
        /\ Owed(lost).shown = lost.shown
    BY <1>3 DEF Owed, Settle, Attempt
  <1> QED BY <1>2, <1>3, <1>4 DEF r

LEMMA DisturbedKeeps ==
  ASSUME NEW a, \A t \in Attempts : a[t] \in Attempt, NEW t \in Attempts
  PROVE  /\ Disturbed(a)[t] \in Attempt /\ ~Disturbed(a)[t].calm
         /\ Disturbed(a)[t].stale = a[t].stale /\ Disturbed(a)[t].clicked = a[t].clicked
         /\ Disturbed(a)[t].result = a[t].result /\ Disturbed(a)[t].scope = a[t].scope
         /\ Disturbed(a)[t].dest = a[t].dest /\ Disturbed(a)[t].at = a[t].at
         /\ Disturbed(a)[t].shown = a[t].shown
  <1>1. a[t] \in Attempt OBVIOUS
  <1>2. Disturbed(a)[t] = [a[t] EXCEPT !.calm = FALSE] BY DEF Disturbed
  <1> QED BY <1>1, <1>2 DEF Attempt

\* The connection goes while every attempt is disturbed.
LEMMA LossRest ==
  ASSUME IInv, Rest, NEW a, \A t \in Attempts : a[t] \in Attempt, att' = Cut(Disturbed(a)),
         toApp' = <<>>, ad'.view = None, ad'.enrolled = None, chosen' = chosen,
         \A t \in Attempts : /\ a[t].stale = att[t].stale /\ a[t].clicked = att[t].clicked
                             /\ a[t].result = att[t].result /\ a[t].scope = att[t].scope
                             /\ a[t].dest = att[t].dest
                             /\ a[t].at = att[t].at \/ (a[t].at = "gone" /\ att[t].at # "new")
  PROVE  Rest'
  <1>1. \A t \in Attempts :
          /\ ~att'[t].calm /\ att'[t].stale = att[t].stale /\ att'[t].clicked = att[t].clicked
          /\ att'[t].result = att[t].result /\ att'[t].scope = att[t].scope /\ att'[t].dest = att[t].dest
          /\ att'[t].at \in {att[t].at, "gone"}
    <2> TAKE t \in Attempts
    <2>1. \A u \in Attempts : Disturbed(a)[u] \in Attempt BY DisturbedKeeps
    <2>2. PICK d : d = Disturbed(a) OBVIOUS
    <2>3. /\ Cut(d)[t].calm = d[t].calm /\ Cut(d)[t].stale = d[t].stale
          /\ Cut(d)[t].clicked = d[t].clicked /\ Cut(d)[t].result = d[t].result
          /\ Cut(d)[t].scope = d[t].scope /\ Cut(d)[t].dest = d[t].dest
          /\ Cut(d)[t].at = IF d[t].at = "wire" THEN "gone" ELSE d[t].at
      BY <2>1, <2>2, CutKeeps
    <2>4. /\ ~d[t].calm /\ d[t].stale = a[t].stale /\ d[t].clicked = a[t].clicked
          /\ d[t].result = a[t].result /\ d[t].scope = a[t].scope /\ d[t].dest = a[t].dest
          /\ d[t].at = a[t].at
      BY <2>2, DisturbedKeeps
    <2>5. att' = Cut(d) BY <2>2
    <2> QED BY <2>3, <2>4, <2>5
  <1>2. Linked' BY DEF Linked
  <1>3. Where' BY <1>1, WhereKept DEF Rest, Underway
  <1>4. \A t \in Attempts : Fresh(att'[t]) BY <1>1 DEF Rest, Told, Fresh
  <1> QED BY <1>1, <1>2, <1>3, <1>4, AllDisturbed

LEMMA InvalidatedKeeps == IInv => Invalidated.view = None /\ Invalidated.enrolled = None
  BY DEF Invalidated, IInv, TypeOK

LEMMA DisableIntegrationRest ==
  ASSUME IInv, Rest, DisableIntegration
  PROVE  Rest'
  <1>1. att' = Cut(Disturbed(att)) /\ toApp' = <<>> /\ chosen' = chosen /\ ad' = Invalidated
    BY DEF DisableIntegration
  <1>2. ad'.view = None /\ ad'.enrolled = None BY <1>1, InvalidatedKeeps
  <1>3. PICK a : a = att OBVIOUS
  <1>4. (\A t \in Attempts : a[t] \in Attempt) /\ att' = Cut(Disturbed(a)) BY <1>1, <1>3, Shapes
  <1> QED BY <1>1, <1>2, <1>3, <1>4, LossRest

LEMMA WorkerRestartsRest ==
  ASSUME IInv, Rest, WorkerRestarts
  PROVE  Rest'
  <1> DEFINE dropped(r) == IF r.at \in {"worker", "returned"} THEN [r EXCEPT !.at = "gone"] ELSE r
  <1>1. /\ att' = Cut(Disturbed([t \in Attempts |-> dropped(att[t])]))
        /\ toApp' = <<>> /\ chosen' = chosen /\ ad' = Invalidated
    BY DEF WorkerRestarts, Disconnected
  <1>2. ad'.view = None /\ ad'.enrolled = None BY <1>1, InvalidatedKeeps
  <1>3. PICK a : a = [t \in Attempts |-> dropped(att[t])] OBVIOUS
  <1>4. \A t \in Attempts :
          /\ a[t] \in Attempt
          /\ a[t].stale = att[t].stale /\ a[t].clicked = att[t].clicked
          /\ a[t].result = att[t].result /\ a[t].scope = att[t].scope
          /\ a[t].dest = att[t].dest
          /\ a[t].at = att[t].at \/ (a[t].at = "gone" /\ att[t].at # "new")
    <2> TAKE t \in Attempts
    <2>1. att[t] \in Attempt BY Shapes
    <2>2. a[t] = dropped(att[t]) BY <1>3
    <2> QED BY <2>1, <2>2 DEF Attempt, Places
  <1>5. att' = Cut(Disturbed(a)) BY <1>1, <1>3
  <1> HIDE DEF dropped
  <1> QED BY <1>1, <1>2, <1>4, <1>5, LossRest

\* The app has closed the connection itself: no attempt still waits undisturbed for its answer.
LEMMA DisconnectRest ==
  ASSUME IInv, Rest, Disconnect
  PROVE  Rest'
  <1>1. toApp' = <<>> /\ chosen' = chosen /\ ad' = Invalidated /\ page' = page /\ AppIdle
    BY DEF Disconnect, Disconnected
  <1>2. ad'.view = None /\ ad'.enrolled = None BY <1>1, InvalidatedKeeps
  <1>3. \A t \in Attempts : att[t] \in Attempt /\ Calmly(t, att[t]) BY Shapes DEF Rest
  <1>4. CASE link = "up"
    <2>1. PICK a : a = att OBVIOUS
    <2>2. (\A t \in Attempts : a[t] \in Attempt) /\ att' = Cut(Disturbed(a))
      BY <1>3, <1>4, <2>1 DEF Disconnect
    <2> QED BY <1>1, <1>2, <2>1, <2>2, LossRest
  <1>5. CASE link # "up"
    <2>1. att' = Cut(att) BY <1>5 DEF Disconnect
    <2>2. PICK a : a = att OBVIOUS
    <2>3. \A t \in Attempts :
            /\ att'[t].calm = att[t].calm /\ att'[t].stale = att[t].stale
            /\ att'[t].clicked = att[t].clicked /\ att'[t].result = att[t].result
            /\ att'[t].scope = att[t].scope /\ att'[t].dest = att[t].dest
            /\ att'[t].at = IF att[t].at = "wire" THEN "gone" ELSE att[t].at
            /\ ~att[t].pending => att'[t].verdict = att[t].verdict
      <3>1. (\A t \in Attempts : a[t] \in Attempt) /\ att' = Cut(a) BY <1>3, <2>1, <2>2
      <3>2. \A t \in Attempts :
              /\ Cut(a)[t].calm = a[t].calm /\ Cut(a)[t].stale = a[t].stale
              /\ Cut(a)[t].clicked = a[t].clicked /\ Cut(a)[t].result = a[t].result
              /\ Cut(a)[t].scope = a[t].scope /\ Cut(a)[t].dest = a[t].dest
              /\ Cut(a)[t].at = IF a[t].at = "wire" THEN "gone" ELSE a[t].at
              /\ ~a[t].pending => Cut(a)[t].verdict = a[t].verdict
        BY <3>1, CutKeeps
      <3> QED BY <2>2, <3>1, <3>2
    <2>4. Linked' BY <1>1, <1>2 DEF Linked
    <2>5. Where' BY <1>1, <1>2, <2>3, WhereKept DEF Rest, Underway
    <2>6. Told'
      <3>1. \A t \in Attempts : Fresh(att'[t]) BY <2>3 DEF Rest, Told, Fresh
      <3> QED BY <1>1, <2>3, <3>1, ToldKept DEF Rest
    <2>7. ASSUME NEW t \in Attempts PROVE Calmly(t, att[t])'
      <3>1. Calmly(t, att[t]) /\ ~Clean(att[t]) /\ att[t].replied = None /\ Sound(att[t])
        BY <1>1, <1>3, <1>5, Shapes DEF Clean, AppIdle
      <3>2. ~Owing(t, att[t]) BY <3>1, BridgeAssumption DEF Owing, Results
      <3>3. PICK c : c = att'[t] OBVIOUS
      <3>4. c.calm => ~(c.at \in Underway /\ page'.empty)
        BY <1>1, <2>3, <3>1, <3>3 DEF Calmly, Underway
      <3>5. c.calm /\ c.clicked => att[t].verdict # None /\ ~att[t].pending
        BY <2>3, <3>1, <3>2, <3>3 DEF Calmly, Sound
      <3>6. c.calm /\ c.clicked => /\ c.verdict # "OUTCOME_UNKNOWN" /\ c.result = "CLICKED"
                                   /\ c.at \in {"answered", "returned", "gone"} /\ c.verdict # None
        BY <2>3, <3>1, <3>3, <3>5 DEF Calmly
      <3>7. Calmly(t, c)' BY <3>4, <3>6 DEF Calmly
      <3> QED BY <3>3, <3>7 DEF Calmly, Owing, Clean
    <2> QED BY <2>4, <2>5, <2>6, <2>7 DEF Rest
  <1> QED BY <1>4, <1>5

-----------------------------------------------------------------------------
(* The outside, and the publications of the worker.                        *)

\* Something outside the app disturbs every attempt; the connection stays.
LEMMA DisturbanceRest ==
  ASSUME IInv, Rest, NEW a, \A t \in Attempts : a[t] \in Attempt, att' = Disturbed(a),
         worker'.session = worker.session, UNCHANGED <<toApp, link, ad, chosen>>,
         \A t \in Attempts : /\ a[t].stale = att[t].stale /\ a[t].clicked = att[t].clicked
                             /\ a[t].scope = att[t].scope /\ a[t].dest = att[t].dest
                             /\ att[t].at = "gone" => a[t].result = att[t].result
                             /\ a[t].at = att[t].at \/ (a[t].at = "answered" /\ att[t].at # "new")
  PROVE  Rest'
  <1>1. \A t \in Attempts :
          /\ ~att'[t].calm /\ att'[t].stale = att[t].stale /\ att'[t].clicked = att[t].clicked
          /\ att[t].at = "gone" => att'[t].result = att[t].result
          /\ att'[t].scope = att[t].scope /\ att'[t].dest = att[t].dest
          /\ att'[t].at = att[t].at \/ (att'[t].at = "answered" /\ att[t].at # "new")
    <2> TAKE t \in Attempts
    <2>1. /\ ~Disturbed(a)[t].calm
          /\ Disturbed(a)[t].stale = a[t].stale /\ Disturbed(a)[t].clicked = a[t].clicked
          /\ Disturbed(a)[t].result = a[t].result /\ Disturbed(a)[t].scope = a[t].scope
          /\ Disturbed(a)[t].dest = a[t].dest /\ Disturbed(a)[t].at = a[t].at
      BY DisturbedKeeps
    <2> QED BY <2>1
  <1>2. Linked' BY LinkedKept DEF Rest, Linked
  <1>3. Where' BY <1>1, WhereKept DEF Rest, Underway
  <1>4. \A t \in Attempts : Fresh(att'[t]) BY <1>1 DEF Rest, Told, Fresh
  <1> QED BY <1>1, <1>2, <1>3, <1>4, AllDisturbed

LEMMA SurfaceDisturbs ==
  ASSUME NEW d \in Destinations, NEW empty \in BOOLEAN, SurfaceChanges(d, empty)
  PROVE  /\ att' = Disturbed(att) /\ UNCHANGED <<toApp, link, ad, chosen>>
         /\ worker' = [worker EXCEPT !.notice = TRUE]
  BY DEF SurfaceChanges

LEMMA TabsDisturb ==
  ASSUME NEW alone \in BOOLEAN, NEW granted \in BOOLEAN, TabsChange(alone, granted)
  PROVE  att' = Disturbed(att) /\ UNCHANGED <<worker, toApp, link, ad, chosen>>
  BY DEF TabsChange

\* What a new document leaves of an attempt.
Wrecked(a) == IF a.at \in {"asked", "hashing", "answered"} THEN Answered(a, Unheard) ELSE a

LEMMA ReloadDisturbs ==
  ASSUME NEW d \in Destinations, Reload(d)
  PROVE  /\ att' = Disturbed([t \in Attempts |-> Wrecked(att[t])])
         /\ UNCHANGED <<worker, toApp, link, ad, chosen>>
  BY DEF Reload, Wrecked

LEMMA WreckedKeeps ==
  ASSUME NEW a \in Attempt
  PROVE  /\ Wrecked(a) \in Attempt
         /\ Wrecked(a).stale = a.stale /\ Wrecked(a).clicked = a.clicked
         /\ Wrecked(a).scope = a.scope /\ Wrecked(a).dest = a.dest /\ Wrecked(a).shown = a.shown
         /\ a.at = "gone" => Wrecked(a).result = a.result
         /\ Wrecked(a).at = a.at \/ (Wrecked(a).at = "answered" /\ a.at # "new")
  <1>1. CASE a.at \in {"asked", "hashing", "answered"}
    <2>1. Wrecked(a) = [a EXCEPT !.at = "answered", !.result = "UNKNOWN"]
      BY <1>1 DEF Wrecked, Answered, Unheard
    <2> QED BY <1>1, <2>1 DEF Attempt, Places, Results
  <1>2. CASE a.at \notin {"asked", "hashing", "answered"} BY <1>2 DEF Wrecked
  <1> QED BY <1>1, <1>2

LEMMA SurfaceRest ==
  ASSUME IInv, Rest, att' = Disturbed(att), UNCHANGED <<toApp, link, ad, chosen>>,
         worker' \in {worker, [worker EXCEPT !.notice = TRUE]}
  PROVE  Rest'
  <1>1. worker'.session = worker.session BY DEF IInv, TypeOK
  <1>2. PICK a : a = att OBVIOUS
  <1>3. (\A t \in Attempts : a[t] \in Attempt) /\ att' = Disturbed(a) BY <1>2, Shapes
  <1> QED BY <1>1, <1>2, <1>3, DisturbanceRest

LEMMA ReloadRest ==
  ASSUME IInv, Rest, NEW d \in Destinations, Reload(d)
  PROVE  Rest'
  <1>1. /\ att' = Disturbed([t \in Attempts |-> Wrecked(att[t])])
        /\ UNCHANGED <<worker, toApp, link, ad, chosen>>
    BY ReloadDisturbs
  <1>2. PICK a : a = [t \in Attempts |-> Wrecked(att[t])] OBVIOUS
  <1>3. \A t \in Attempts :
          /\ a[t] \in Attempt
          /\ a[t].stale = att[t].stale /\ a[t].clicked = att[t].clicked
          /\ a[t].scope = att[t].scope /\ a[t].dest = att[t].dest
          /\ att[t].at = "gone" => a[t].result = att[t].result
          /\ a[t].at = att[t].at \/ (a[t].at = "answered" /\ att[t].at # "new")
    BY <1>2, Shapes, WreckedKeeps
  <1>4. att' = Disturbed(a) /\ worker'.session = worker.session BY <1>1, <1>2
  <1> QED BY <1>1, <1>3, <1>4, DisturbanceRest

\* The attempts stay as they are.
LEMMA AttemptsStay ==
  ASSUME IInv, Rest, Linked', Where', att' = att, worker'.session = worker.session,
         \A i \in 1 .. Len(toApp') : toApp'[i].kind = "reply" => \E j \in 1 .. Len(toApp) : toApp'[i] = toApp[j],
         link = "up" => link' = "up", page' = page, link = "up" /\ Resting => Resting',
         \A u \in Attempts : link = "up" /\ publishing = {} /\ Replies /\ att[u].at \in {"answered", "returned"}
                               /\ att[u].job = worker.session => publishing' = {} /\ Replies',
         \A u \in Attempts : link = "up" /\ Answering(u) => Answering(u)'
  PROVE  Rest'
  <1>1. Told' BY ToldKept DEF Rest, Told
  <1>2. ASSUME NEW u \in Attempts PROVE Calmly(u, att[u])'
    <2>1. PICK c : c = att[u] /\ c = att'[u] OBVIOUS
    <2>2. Calmly(u, c) BY <2>1 DEF Rest
    <2>3. page'.empty => page.empty OBVIOUS
    <2>4. page'.empty /\ link = "up" /\ Resting => Resting' OBVIOUS
    <2>5. link = "up" /\ publishing = {} /\ Replies /\ c.at \in {"answered", "returned"} /\ c.job = worker.session
            => publishing' = {} /\ Replies'
      BY <2>1
    <2>6. link = "up" => link' = "up" OBVIOUS
    <2>7. link = "up" /\ Answering(u) => Answering(u)' OBVIOUS
    <2>8. Calmly(u, c)' BY <2>2, <2>3, <2>4, <2>5, <2>6, <2>7, CalmKept
    <2> QED BY <2>1, <2>8 DEF Calmly, Owing, Clean
  <1> QED BY <1>1, <1>2 DEF Rest

LEMMA ConnectRest ==
  ASSUME IInv, Rest, Connect
  PROVE  Rest'
  <1>1. link = "down" /\ UNCHANGED <<page, worker, toApp, ad, att, chosen>> BY DEF Connect
  <1>2. Linked' BY <1>1, LinkedKept DEF Rest, Linked
  <1>3. Where' BY <1>1, WhereKept DEF Rest
  <1> QED BY <1>1, <1>2, <1>3, AttemptsStay

LEMMA InspectTabsRest ==
  ASSUME IInv, Rest, NEW m \in publishing, InspectTabs(m)
  PROVE  Rest'
  <1>1. UNCHANGED <<page, worker, toApp, link, ad, att, chosen>> BY DEF InspectTabs
  <1>2. Linked' BY <1>1, LinkedKept DEF Rest, Linked
  <1>3. Where' BY <1>1, WhereKept DEF Rest
  <1>4. publishing # {} /\ ~Resting BY DEF Resting
  <1>5. \A u \in Attempts : Answering(u) => Answering(u)' BY <1>1 DEF Answering
  <1> QED BY <1>1, <1>2, <1>3, <1>4, <1>5, AttemptsStay

LEMMA PostStateRest ==
  ASSUME IInv, Rest, NEW m \in publishing, PostState(m)
  PROVE  Rest'
  <1> DEFINE n == [kind |-> m.kind, seen |-> m.seen, session |-> worker.session]
  <1>1. UNCHANGED <<page, worker, link, ad, att, chosen>> BY DEF PostState
  <1>2. n \in Message /\ n.kind # "reply" /\ n.session = worker.session
    <2>1. m \in Publications /\ m.seen # None BY DEF PostState, IInv, TypeOK
    <2> QED BY <2>1, Shapes DEF Publications, Message
  <1>3. toApp' = Append(toApp, n) \/ toApp' = toApp BY DEF PostState
  <1> HIDE DEF n
  <1>4. /\ \A i \in 1 .. Len(toApp) : i \in 1 .. Len(toApp') /\ toApp'[i] = toApp[i]
        /\ \A i \in 1 .. Len(toApp') : i \in 1 .. Len(toApp) \/ toApp'[i] = n
    BY <1>2, <1>3, Appended, Shapes
  <1>5. \A i \in 1 .. Len(toApp') : toApp'[i].session = worker.session
    BY <1>2, <1>4 DEF Rest, Linked
  <1>6. Linked' BY <1>1, <1>5, LinkedKept DEF Rest
  <1>7. Where' BY <1>1, WhereKept DEF Rest
  <1>8. publishing # {} /\ ~Resting BY DEF Resting
  <1>9. \A u \in Attempts : Answering(u) => Answering(u)'
    <2> TAKE u \in Attempts
    <2> SUFFICES ASSUME Answering(u) PROVE Answering(u)' OBVIOUS
    <2>1. PICK i \in 1 .. Len(toApp) : /\ toApp[i].kind = "reply" /\ toApp[i].attempt = u
                                       /\ \A j \in 1 .. i : toApp[j].kind = "reply"
      BY DEF Answering
    <2>2. \A j \in 1 .. i : j \in 1 .. Len(toApp) BY <2>1, Shapes
    <2> QED BY <1>4, <2>1, <2>2 DEF Answering
  <1>10. \A i \in 1 .. Len(toApp') : toApp'[i].kind = "reply" => \E j \in 1 .. Len(toApp) : toApp'[i] = toApp[j]
    BY <1>2, <1>4
  <1> QED BY <1>1, <1>6, <1>7, <1>8, <1>9, <1>10, AttemptsStay

LEMMA SurfaceNoticeRest ==
  ASSUME IInv, Rest, SurfaceNotice
  PROVE  Rest'
  <1> DEFINE busy == ActiveReleases(att, worker.session) # {}
  <1>1. /\ worker.notice /\ worker'.session = worker.session
        /\ publishing' = IF busy THEN publishing ELSE publishing \cup {Publish("state")}
        /\ UNCHANGED <<page, toApp, link, ad, att, chosen>>
    BY DEF SurfaceNotice, IInv, TypeOK
  <1>2. ASSUME NEW u \in Attempts, att[u].at \in {"answered", "returned"}, att[u].job = worker.session PROVE busy
    <2>1. u \in ActiveReleases(att, worker.session) BY <1>2 DEF ActiveReleases
    <2> QED BY <2>1
  <1> HIDE DEF busy
  <1>3. Linked' BY <1>1, LinkedKept DEF Rest, Linked
  <1>4. Where' BY <1>1, WhereKept DEF Rest
  <1>5. ~Resting BY <1>1 DEF Resting
  <1>6. \A u \in Attempts : Answering(u) => Answering(u)' BY <1>1 DEF Answering
  <1>7. Replies => Replies' BY <1>1 DEF Replies
  <1>8. \A u \in Attempts : link = "up" /\ publishing = {} /\ Replies /\ att[u].at \in {"answered", "returned"}
                               /\ att[u].job = worker.session => publishing' = {} /\ Replies'
    BY <1>1, <1>2, <1>7
  <1> QED BY <1>1, <1>3, <1>4, <1>5, <1>6, <1>8, AttemptsStay

LEMMA EnrollRest ==
  ASSUME IInv, Rest, NEW d \in Destinations, Enroll(d)
  PROVE  Rest'
  <1> DEFINE scope == Len(chosen) + 1
  <1>1. /\ ad.conn # None /\ ad.view # None /\ Fits(ad.view, [dest |-> d])
        /\ ad' = [ad EXCEPT !.enrolled = [scope |-> scope, dest |-> d, session |-> ad.conn]]
        /\ chosen' = Append(chosen, d)
        /\ UNCHANGED <<page, worker, publishing, toApp, link, att>>
    BY DEF Enroll
  <1>2. /\ ad'.conn = ad.conn /\ ad'.view = ad.view /\ ad'.enrolled.scope = scope
        /\ ad'.enrolled.dest = d /\ ad'.enrolled.session = ad.conn
    BY <1>1 DEF IInv, TypeOK
  <1>3. Linked' BY <1>1, <1>2 DEF Rest, Linked, Fits
  <1>4. /\ Len(chosen') = scope /\ scope \in Nat /\ chosen'[scope] = d
        /\ \A s \in 1 .. Len(chosen) : s \in 1 .. scope /\ chosen'[s] = chosen[s]
    BY <1>1, Shapes
  <1>5. scope \in 1 .. scope BY Shapes
  <1> HIDE DEF scope
  <1>6. Where' BY <1>1, <1>2, <1>4, <1>5 DEF Rest, Where, Named
  <1>7. \A u \in Attempts : Answering(u) => Answering(u)' BY <1>1 DEF Answering
  <1>8. Resting => Resting' BY <1>1 DEF Resting, Replies
  <1>9. publishing = {} /\ Replies => publishing' = {} /\ Replies' BY <1>1 DEF Replies
  <1> QED BY <1>1, <1>3, <1>6, <1>7, <1>8, <1>9, AttemptsStay

-----------------------------------------------------------------------------
(* The theorems.                                                           *)

LEMMA NextRest == IInv /\ Rest /\ [Next]_vars => Rest'
  <1> SUFFICES ASSUME IInv, Rest, [Next]_vars PROVE Rest' OBVIOUS
  <1>1. CASE Outside
    BY <1>1, SurfaceDisturbs, TabsDisturb, SurfaceRest, ReloadRest, EnrollRest, DispatchRest, ConnectRest, DisableIntegrationRest,
       WorkerRestartsRest
    DEF Outside
  <1>2. CASE Publication
    BY <1>2, SurfaceNoticeRest, InspectTabsRest, PostStateRest DEF Publication
  <1>3. ASSUME NEW t \in Attempts, ReleaseStep(t) PROVE Rest'
    BY <1>3, ReceiveReleaseRest, HandleReleaseRest, BeginInjectionRest, FinishInjectionRest, HearAnswerRest,
       PostReplyRest, ResumeRest, TimeoutRest
    DEF ReleaseStep
  <1>4. CASE Receive BY <1>4, TakeReplyRest, SynchronizeRest
  <1>5. CASE Disconnect BY <1>5, DisconnectRest
  <1>6. CASE UNCHANGED vars
    <2>1. UNCHANGED <<page, worker, publishing, toApp, link, ad, att, chosen>> BY <1>6 DEF vars
    <2>2. Linked' BY <2>1, LinkedKept DEF Rest, Linked
    <2>3. Where' BY <2>1, WhereKept DEF Rest
    <2>4. \A u \in Attempts : Answering(u) => Answering(u)' BY <2>1 DEF Answering
    <2>5. Resting => Resting' BY <2>1 DEF Resting, Replies
    <2>6. publishing = {} /\ Replies => publishing' = {} /\ Replies' BY <2>1 DEF Replies
    <2> QED BY <2>1, <2>2, <2>3, <2>4, <2>5, <2>6, AttemptsStay
  <1> QED BY <1>1, <1>2, <1>3, <1>4, <1>5, <1>6 DEF Next

\* The text of an attempt goes in only by FinishInjection, where the page is the one enrolled.
ShowsInPlace == \A t \in Attempts : att'[t].shown # att[t].shown =>
                  page.empty /\ page.dest = chosen[att[t].scope]

\* No other step does.
LEMMA OneShows ==
  ASSUME IInv, NEW u \in Attempts, NEW b, att' = [att EXCEPT ![u] = b], b.shown = att[u].shown
  PROVE  \A t \in Attempts : att'[t].shown = att[t].shown
  BY DEF IInv, TypeOK

LEMMA MoveShows ==
  ASSUME IInv, NEW u \in Attempts,
         ReceiveRelease(u) \/ HandleRelease(u) \/ BeginInjection(u) \/ HearAnswer(u) \/ PostReply(u)
  PROVE  \A t \in Attempts : att'[t].shown = att[t].shown
  <1>1. att \in [Attempts -> Attempt] /\ att[u] \in Attempt BY DEF IInv, TypeOK
  <1>2. CASE ReceiveRelease(u) BY <1>1, <1>2 DEF ReceiveRelease, Attempt
  <1>3. CASE HandleRelease(u) BY <1>1, <1>3 DEF HandleRelease, Attempt
  <1>4. CASE BeginInjection(u) BY <1>1, <1>4 DEF BeginInjection, Answered, Attempt
  <1>5. CASE HearAnswer(u) BY <1>1, <1>5 DEF HearAnswer, Attempt
  <1>6. CASE PostReply(u) BY <1>1, <1>6 DEF PostReply, Attempt
  <1> QED BY <1>2, <1>3, <1>4, <1>5, <1>6

LEMMA SettleShows ==
  ASSUME NEW a \in Attempt, NEW v
  PROVE  Settle(a, v).shown = a.shown /\ [Settle(a, v) EXCEPT !.calm = FALSE].shown = a.shown
  BY DEF Settle, Attempt

LEMMA ResumeShows ==
  ASSUME IInv, NEW u \in Attempts, Resume(u)
  PROVE  \A t \in Attempts : att'[t].shown = att[t].shown
  <1> DEFINE v == CASE att[u].replied = "NONE" -> "FAILED_BEFORE_EGRESS"
                    [] att[u].replied = "CLICKED" /\ ~att[u].stale -> "SUBMISSION_OBSERVED"
                    [] OTHER -> "OUTCOME_UNKNOWN"
             b == Settle(att[u], v)
  <1>1. att' = [att EXCEPT ![u] = b] BY DEF Resume
  <1> HIDE DEF v
  <1>2. b.shown = att[u].shown BY SettleShows DEF IInv, TypeOK
  <1> HIDE DEF b
  <1> QED BY <1>1, <1>2, OneShows

LEMMA TimeoutShows ==
  ASSUME IInv, NEW u \in Attempts, Timeout(u)
  PROVE  \A t \in Attempts : att'[t].shown = att[t].shown
  <1> DEFINE b == [Settle(att[u], "OUTCOME_UNKNOWN") EXCEPT !.calm = FALSE]
  <1>1. att' = [att EXCEPT ![u] = b] BY DEF Timeout
  <1>2. b.shown = att[u].shown BY SettleShows DEF IInv, TypeOK
  <1> HIDE DEF b
  <1> QED BY <1>1, <1>2, OneShows

LEMMA DispatchShows ==
  ASSUME IInv, NEW u \in Attempts, NEW scope \in Scopes, Dispatch(u, scope)
  PROVE  \A t \in Attempts : att'[t].shown = att[t].shown
  <1> DEFINE a == att[u]
             quiet == /\ publishing = {} /\ ~worker.notice /\ ~worker.deferred
                      /\ \A i \in DOMAIN toApp : toApp[i].kind = "reply"
             no == [a EXCEPT !.at = "gone", !.verdict = "FAILED_BEFORE_EGRESS"]
             go == [a EXCEPT !.at = "wire", !.pending = TRUE, !.scope = scope, !.dest = ad.enrolled.dest,
                             !.session = ad.conn, !.calm = quiet]
  <1>1. att' = [att EXCEPT ![u] = no] \/ att' = [att EXCEPT ![u] = go] BY DEF Dispatch, IInv, TypeOK
  <1> HIDE DEF quiet
  <1>2. no.shown = a.shown /\ go.shown = a.shown BY DEF IInv, TypeOK, Attempt
  <1> HIDE DEF no, go
  <1> QED BY <1>1, <1>2, OneShows

LEMMA CutShows ==
  ASSUME IInv, NEW a, \A u \in Attempts : a[u] \in Attempt /\ a[u].shown = att[u].shown,
         att' = Disturbed(a) \/ att' = Cut(a) \/ att' = Cut(Disturbed(a))
  PROVE  \A t \in Attempts : att'[t].shown = att[t].shown
  <1>1. PICK d : d = Disturbed(a) OBVIOUS
  <1>2. \A u \in Attempts : d[u] \in Attempt /\ d[u].shown = att[u].shown BY <1>1, DisturbedKeeps
  <1>3. CASE att' = Disturbed(a) BY <1>1, <1>2, <1>3
  <1>4. CASE att' = Cut(a) BY <1>4, CutKeeps
  <1>5. CASE att' = Cut(Disturbed(a))
    <2>1. att' = Cut(d) BY <1>1, <1>5
    <2> QED BY <1>2, <2>1, CutKeeps
  <1> QED BY <1>3, <1>4, <1>5

LEMMA ReloadShows ==
  ASSUME IInv, NEW d \in Destinations, Reload(d)
  PROVE  \A t \in Attempts : att'[t].shown = att[t].shown
  <1>1. PICK a : a = [t \in Attempts |-> Wrecked(att[t])] OBVIOUS
  <1>2. att' = Disturbed(a) BY <1>1, ReloadDisturbs
  <1>3. \A u \in Attempts : a[u] \in Attempt /\ a[u].shown = att[u].shown BY <1>1, Shapes, WreckedKeeps
  <1> QED BY <1>2, <1>3, CutShows

LEMMA LossShows ==
  ASSUME IInv, Disconnect \/ DisableIntegration \/ WorkerRestarts
  PROVE  \A t \in Attempts : att'[t].shown = att[t].shown
  <1>1. CASE Disconnect \/ DisableIntegration
    <2>1. PICK a : a = att OBVIOUS
    <2>2. att' = Cut(Disturbed(a)) \/ att' = Cut(a) BY <1>1, <2>1 DEF Disconnect, DisableIntegration
    <2> QED BY <2>1, <2>2, Shapes, CutShows
  <1>2. CASE WorkerRestarts
    <2> DEFINE dropped(r) == IF r.at \in {"worker", "returned"} THEN [r EXCEPT !.at = "gone"] ELSE r
    <2>1. PICK a : a = [u \in Attempts |-> dropped(att[u])] OBVIOUS
    <2>2. att' = Cut(Disturbed(a)) BY <1>2, <2>1 DEF WorkerRestarts
    <2>3. \A u \in Attempts : a[u] \in Attempt /\ a[u].shown = att[u].shown
      BY <2>1, Shapes DEF Attempt, Places
    <2> QED BY <2>2, <2>3, CutShows
  <1> QED BY <1>1, <1>2

LEMMA TakeReplyShows ==
  ASSUME IInv, NEW m, m.attempt \in Attempts, TakeReply(m)
  PROVE  \A t \in Attempts : att'[t].shown = att[t].shown
  <1>1. PICK u \in Attempts : u = m.attempt OBVIOUS
  <1> DEFINE yes == [att[u] EXCEPT !.pending = FALSE, !.replied = m.result]
             no  == Settle(att[u], "OUTCOME_UNKNOWN")
  <1>2. att' = att \/ att' = [att EXCEPT ![u] = yes] \/ att' = [att EXCEPT ![u] = no]
    BY <1>1 DEF TakeReply, Matches, IInv, TypeOK
  <1>3. yes.shown = att[u].shown /\ no.shown = att[u].shown
    BY Shapes, SettleShows DEF Attempt
  <1> HIDE DEF yes, no
  <1> QED BY <1>2, <1>3, OneShows

LEMMA SynchronizeShows ==
  ASSUME IInv, NEW m, Synchronize(m)
  PROVE  \A t \in Attempts : att'[t].shown = att[t].shown
  <1> DEFINE old == Outdated(att)
             late == {t \in Attempts : att[t].replied # None}
  <1>1. PICK g \in {att, old} : att' = [t \in Attempts |-> [g[t] EXCEPT !.calm = @ /\ t \notin late]]
    BY DEF Synchronize
  <1> SUFFICES ASSUME NEW t \in Attempts PROVE att'[t].shown = att[t].shown OBVIOUS
  <1>2. att[t] \in Attempt BY Shapes
  <1>3. old[t] = [att[t] EXCEPT !.stale = att[t].stale \/ att[t].pending \/ att[t].replied # None]
    BY DEF Outdated
  <1> HIDE DEF old, late
  <1>4. old[t] \in Attempt /\ old[t].shown = att[t].shown
    <2>1. PICK x \in BOOLEAN : old[t] = [att[t] EXCEPT !.stale = x] BY <1>2, <1>3 DEF Attempt
    <2> QED BY <1>2, <2>1 DEF Attempt
  <1>5. g[t] \in Attempt /\ g[t].shown = att[t].shown BY <1>1, <1>2, <1>4
  <1>6. att'[t] = [g[t] EXCEPT !.calm = g[t].calm /\ t \notin late] BY <1>1
  <1> QED BY <1>5, <1>6 DEF Attempt

LEMMA OutsideShows ==
  ASSUME IInv, Outside
  PROVE  \A t \in Attempts : att'[t].shown = att[t].shown
  <1>1. CASE att' = Disturbed(att)
    <2>1. PICK a : a = att OBVIOUS
    <2> QED BY <1>1, <2>1, Shapes, CutShows
  <1>2. CASE Connect BY <1>2 DEF Connect
  <1>3. ASSUME NEW d \in Destinations, Enroll(d) PROVE att' = att BY <1>3 DEF Enroll
  <1> QED
    BY <1>1, <1>2, <1>3, SurfaceDisturbs, TabsDisturb, ReloadShows, DispatchShows, LossShows DEF Outside

LEMMA NextShows == IInv /\ Rest /\ [Next]_vars => [ShowsInPlace]_vars
  <1> SUFFICES ASSUME IInv, Rest, Next, NEW t \in Attempts, att'[t].shown # att[t].shown
               PROVE  page.empty /\ page.dest = chosen[att[t].scope]
    BY DEF ShowsInPlace
  <1>1. PICK u \in Attempts : FinishInjection(u)
    <2>1. ~Outside BY OutsideShows
    <2>2. ~Publication BY DEF Publication, SurfaceNotice, InspectTabs, PostState
    <2>3. ~Receive
      <3>1. SUFFICES ASSUME Receive PROVE FALSE OBVIOUS
      <3>2. PICK m : m = Head(toApp) OBVIOUS
      <3>3. toApp[1] = m /\ 1 \in 1 .. Len(toApp) BY <3>1, <3>2, Shapes DEF Receive
      <3>4. m.kind = "reply" => m.attempt \in Attempts BY <3>3, Shapes
      <3>5. (m.kind = "reply" /\ TakeReply(m)) \/ Synchronize(m) BY <3>1, <3>2 DEF Receive
      <3> QED BY <3>4, <3>5, TakeReplyShows, SynchronizeShows
    <2>4. ~Disconnect BY LossShows
    <2>5. ASSUME NEW u \in Attempts, ReleaseStep(u) PROVE FinishInjection(u)
      BY <2>5, MoveShows, ResumeShows, TimeoutShows DEF ReleaseStep
    <2> QED BY <2>1, <2>2, <2>3, <2>4, <2>5 DEF Next
  <1>2. att[u].at = "hashing" /\ att \in [Attempts -> Attempt] BY <1>1 DEF FinishInjection, IInv, TypeOK
  <1>3. CASE Withhold(u)
    <2>1. att[u] \in Attempt BY <1>2
    <2> QED BY <1>2, <1>3, <2>1 DEF Withhold, Answered, Attempt
  <1>4. CASE SurfaceFits(att[u]) /\ InjectAndClick(u)
    <2>1. t = u BY <1>2, <1>4 DEF InjectAndClick
    <2>2. Named(att[t].scope, att[t].dest) BY <1>2, <2>1 DEF Rest, Where, Underway
    <2> QED BY <1>4, <2>1, <2>2 DEF SurfaceFits, Named
  <1> QED BY <1>1, <1>3, <1>4 DEF FinishInjection

LEMMA RestHolds == Spec => [](IInv /\ Rest)
  <1>1. Init => IInv /\ Rest BY IInvInit, RestInit
  <1>2. IInv /\ Rest /\ [Next]_vars => IInv' /\ Rest' BY StepKeeps, NextRest
  <1> QED BY <1>1, <1>2, PTL DEF Spec

\* What is enrolled was enrolled over the open connection, with the running worker, and agrees with
\* the last state it reported (adapter.mjs invalidate, bridge.mjs disconnect).
THEOREM EnrolledIsHealthy == Spec => []EnrollmentIsHealthy
  <1>1. IInv /\ Rest => EnrollmentIsHealthy
    BY DEF Rest, Linked, EnrollmentIsHealthy, Healthy
  <1> QED BY <1>1, RestHolds, PTL

\* The text of an attempt enters the page only while it shows, with an empty composer, the
\* conversation enrolled for it (content-script.js looks again after the digest).
THEOREM TextWhereEnrolled == Spec => ShownWhereEnrolled
  <1>1. IInv /\ Rest /\ [Next]_vars => [ShowsInPlace]_vars BY NextShows
  <1>2. Spec => [][ShowsInPlace]_vars BY <1>1, RestHolds, PTL DEF Spec
  <1> QED BY <1>2 DEF ShownWhereEnrolled, ShowsInPlace

\* A release nothing from outside disturbs is reported as the click it was: the change it makes to
\* the composer itself never overtakes its reply (service-worker.js defers it).
THEOREM UndisturbedIsObserved == Spec => []ClickIsObserved
  <1>1. IInv /\ Rest => ClickIsObserved BY DEF Rest, Calmly, ClickIsObserved
  <1> QED BY <1>1, RestHolds, PTL
=============================================================================
